------------------------------ MODULE LuaError ------------------------------
(***************************************************************************)
(* Error propagation in the MoSync port of the Lua interpreter (ldo.c,      *)
(* ldebug.c, lapi.c and the macros of luaconf.h:638-665).                   *)
(*                                                                          *)
(* MoSync has no setjmp/longjmp.  LUAI_THROW stores the error code in a     *)
(* global and RETURNS; every function on the C stack is then expected to    *)
(* notice, through LUAI_ERRORCHECK after its own calls, and to return in    *)
(* turn until the protected call is reached.  The code of a call site       *)
(* either has that check (site TRUE: lvm.c, lparser.c, most of ldo.c) or    *)
(* goes on (site FALSE: most library functions).                            *)
(***************************************************************************)
EXTENDS Integers, Sequences

CONSTANTS
    MaxCcalls,      \* LUAI_MAXCCALLS
    Slack,          \* LUAI_MAXCCALLS >> 3, kept free for error handling
    MaxDepth        \* bound: activations on the C stack

ASSUME ErrorConstants ==
    MaxCcalls \in Nat \ {0} /\ Slack \in Nat \ {0, 1} /\ MaxDepth \in Nat

Errors == {"LUA_ERRRUN", "LUA_ERRMEM", "LUA_ERRERR"}
Status == Errors \cup {"ok"}
Kinds == {"host", "call", "handler", "try"}
Handlers == {"none", "function", "value"}   \* xpcall accepts any value

\* One C activation.  A "try" is luaD_rawrunprotected with the luaD_pcall
\* around it and the function it runs; a "call" is a luaD_call; a "handler" is
\* the luaD_call of the message handler inside luaG_errormsg.  "site" tells
\* whether the caller checks the error state when this activation returns.
Frame == [kind : Kinds, site : BOOLEAN, status : Status, previous : Nat,
          errfunc : Handlers, ci : Int, ccalls : Int]

VARIABLES
    stack,          \* the C stack
    pc,             \* "run" | "unwind" (the top activation must return) | "exit"
    errorState,     \* global_LuaErrorState
    errorJmp,       \* L->errorJmp, as an index of stack (0: NULL)
    nCcalls,        \* L->nCcalls
    ci,             \* L->ci - L->base_ci
    checked         \* whether all call sites of the program have a check

vars == <<stack, pc, errorState, errorJmp, nCcalls, ci, checked>>

\* The call sites that functions of the program contain.
Sites == IF checked THEN {TRUE} ELSE BOOLEAN

Top == stack[Len(stack)]
Popped == SubSeq(stack, 1, Len(stack) - 1)
Pending == errorState # "ok"
ErrFunc == IF errorJmp = 0 THEN "none" ELSE stack[errorJmp].errfunc  \* L->errfunc

Init ==
    /\ stack = << [kind |-> "host", site |-> FALSE, status |-> "ok", previous |-> 0,
                   errfunc |-> "none", ci |-> 0, ccalls |-> 0] >>
    /\ pc = "run"
    /\ errorState = "ok"
    /\ errorJmp = 0
    /\ nCcalls = 0
    /\ ci = 0
    /\ checked \in BOOLEAN

-----------------------------------------------------------------------------
(* Pieces of the handlers *)

\* Mutant: LUAI_ERRORCHECK forgotten.
AfterUnchecked(site, pending) == "run"

\* What the code after a call site does next.
After(site, pending) == IF site /\ pending THEN "unwind" ELSE "run"

Activation(kind, site) ==
    [kind |-> kind, site |-> site, status |-> "ok", previous |-> 0,
     errfunc |-> "none", ci |-> ci, ccalls |-> nCcalls]

\* luaD_throw on the C stack s, back at a site of its top activation; without a
\* handler the program exits.
Throw(s, e, site) ==
    IF errorJmp # 0
    THEN /\ stack' = [s EXCEPT ![errorJmp].status = e]
         /\ errorState' = e
         /\ pc' = After(site, TRUE)
    ELSE /\ stack' = s
         /\ pc' = "exit"
         /\ UNCHANGED errorState

\* luaG_errormsg entered with n C calls: the message handler is run first, by
\* a luaD_call that may itself overflow.
ErrorMsg(n, site) ==
    IF ErrFunc # "function"
    THEN /\ Throw(stack, IF ErrFunc = "none" THEN "LUA_ERRRUN" ELSE "LUA_ERRERR", site)
         /\ nCcalls' = n
         /\ UNCHANGED <<errorJmp, ci>>
    ELSE LET m == IF n + 1 = MaxCcalls THEN n + 2 ELSE n + 1
         IN  IF m >= MaxCcalls + Slack
             THEN /\ Throw(stack, "LUA_ERRERR", site)
                  /\ nCcalls' = m
                  /\ UNCHANGED <<errorJmp, ci>>
             ELSE /\ Len(stack) < MaxDepth
                  /\ stack' = Append(stack, Activation("handler", site))
                  /\ pc' = "run"
                  /\ nCcalls' = m
                  /\ ci' = ci + 1
                  /\ UNCHANGED <<errorState, errorJmp>>

-----------------------------------------------------------------------------
(* What a running function does *)

\* Bound: the count is not followed once it has passed the limit (the code's
\* unsigned short goes on).
WithinBound == nCcalls <= MaxCcalls + Slack

\* luaD_call of a function that exists: it runs, or the C stack overflows.
Call(site) ==
    /\ pc = "run" /\ ~Pending
    /\ WithinBound
    /\ LET n == nCcalls + 1
       IN  \/ /\ n = MaxCcalls
              /\ ErrorMsg(n, site)
           \/ /\ n >= MaxCcalls + Slack
              /\ Throw(stack, "LUA_ERRERR", site)
              /\ nCcalls' = n
              /\ UNCHANGED <<errorJmp, ci>>
           \/ /\ n # MaxCcalls /\ n < MaxCcalls + Slack
              /\ Len(stack) < MaxDepth
              /\ stack' = Append(stack, Activation("call", site))
              /\ nCcalls' = n
              /\ ci' = ci + 1
              /\ UNCHANGED <<pc, errorState, errorJmp>>

\* luaD_call while an error is pending, from a function that went on: the
\* checks of luaD_precall and luaD_call return before the callee starts, and
\* the count stays raised.
CallPending(site) ==
    /\ pc = "run" /\ Pending
    /\ WithinBound
    /\ nCcalls' = nCcalls + 1
    /\ IF nCcalls + 1 >= MaxCcalls + Slack
       THEN Throw(stack, "LUA_ERRERR", site)
       ELSE /\ pc' = After(site, TRUE)
            /\ UNCHANGED <<stack, errorState>>
    /\ UNCHANGED <<errorJmp, ci>>

\* luaG_runerror and lua_error.  The first does nothing while an error is
\* pending; the second throws again unless a handler function is set.
RunError(site) ==
    /\ pc = "run" /\ ~Pending
    /\ WithinBound
    /\ ErrorMsg(nCcalls, site)

RaiseAgain(site) ==
    /\ pc = "run" /\ Pending
    /\ ErrFunc # "function"
    /\ Throw(stack, IF ErrFunc = "none" THEN "LUA_ERRRUN" ELSE "LUA_ERRERR", site)
    /\ UNCHANGED <<errorJmp, nCcalls, ci>>

\* luaM_realloc_ without memory: no handler is asked.
MemoryError(site) ==
    /\ pc = "run"
    /\ Throw(stack, "LUA_ERRMEM", site)
    /\ UNCHANGED <<errorJmp, nCcalls, ci>>

\* Mutant: lj.previous is not filled in.
ProtectUnlinked(errfunc) ==
    /\ pc = "run"
    /\ Len(stack) < MaxDepth
    /\ stack' = Append(stack, [Activation("try", FALSE) EXCEPT !.errfunc = errfunc])
    /\ errorState' = "ok"
    /\ errorJmp' = Len(stack) + 1
    /\ UNCHANGED <<pc, nCcalls, ci>>

\* lua_pcall, lua_cpcall, lua_load: LUAI_TRY clears the error state, whatever
\* it was.
Protect(errfunc) ==
    /\ pc = "run"
    /\ Len(stack) < MaxDepth
    /\ stack' = Append(stack, [Activation("try", FALSE) EXCEPT
                                  !.previous = errorJmp, !.errfunc = errfunc])
    /\ errorState' = "ok"
    /\ errorJmp' = Len(stack) + 1
    /\ UNCHANGED <<pc, nCcalls, ci>>

-----------------------------------------------------------------------------
(* Returns *)

\* luaD_call returns: without an error luaD_poscall has popped the CallInfo.
ReturnCall ==
    /\ pc \in {"run", "unwind"}
    /\ Top.kind = "call"
    /\ stack' = Popped
    /\ pc' = After(Top.site, Pending)
    /\ nCcalls' = IF Pending THEN nCcalls ELSE nCcalls - 1
    /\ ci' = IF Pending THEN ci ELSE ci - 1
    /\ UNCHANGED <<errorState, errorJmp>>

\* The handler has made the message: luaG_errormsg goes on to throw.
ReturnHandler ==
    /\ pc \in {"run", "unwind"}
    /\ Top.kind = "handler"
    /\ IF Pending
       THEN /\ stack' = Popped
            /\ pc' = After(Top.site, TRUE)
            /\ UNCHANGED <<errorState, nCcalls, ci>>
       ELSE /\ Throw(Popped, "LUA_ERRRUN", Top.site)
            /\ nCcalls' = nCcalls - 1
            /\ ci' = ci - 1
    /\ UNCHANGED errorJmp

\* Mutants of the end of a protected call: the error state is not cleared, the
\* counters are not restored.
ReturnTryStaysPending ==
    /\ pc \in {"run", "unwind"}
    /\ Top.kind = "try"
    /\ stack' = Popped
    /\ pc' = "run"
    /\ UNCHANGED errorState
    /\ errorJmp' = Top.previous
    /\ nCcalls' = IF Top.status = "ok" THEN nCcalls ELSE Top.ccalls
    /\ ci' = IF Top.status = "ok" THEN ci ELSE Top.ci

ReturnTryNoRestore ==
    /\ pc \in {"run", "unwind"}
    /\ Top.kind = "try"
    /\ stack' = Popped
    /\ pc' = "run"
    /\ errorState' = "ok"
    /\ errorJmp' = Top.previous
    /\ UNCHANGED <<nCcalls, ci>>

\* The end of LUAI_TRY and of luaD_pcall.
ReturnTry ==
    /\ pc \in {"run", "unwind"}
    /\ Top.kind = "try"
    /\ stack' = Popped
    /\ pc' = "run"
    /\ errorState' = "ok"
    /\ errorJmp' = Top.previous
    /\ nCcalls' = IF Top.status = "ok" THEN nCcalls ELSE Top.ccalls
    /\ ci' = IF Top.status = "ok" THEN ci ELSE Top.ci

Return == (ReturnCall \/ ReturnHandler \/ ReturnTry) /\ UNCHANGED checked

\* The process has left through exit(EXIT_FAILURE).
Exited == pc = "exit" /\ UNCHANGED vars

Step ==
    \/ \E site \in Sites : Call(site)
    \/ \E site \in Sites : CallPending(site)
    \/ \E site \in Sites : RunError(site)
    \/ \E site \in Sites : RaiseAgain(site)
    \/ \E site \in Sites : MemoryError(site)
    \/ \E errfunc \in Handlers : Protect(errfunc)
    \/ ReturnCall
    \/ ReturnHandler
    \/ ReturnTry
    \/ Exited
Next == Step /\ UNCHANGED checked

Spec == Init /\ [][Next]_vars

\* An activation at a failed LUAI_ERRORCHECK executes its return statement.
FairSpec == Spec /\ WF_vars(pc = "unwind" /\ Return)

-----------------------------------------------------------------------------
(* Properties *)

TypeOK ==
    /\ stack \in Seq(Frame) /\ stack # <<>>
    /\ pc \in {"run", "unwind", "exit"}
    /\ errorState \in Status
    /\ errorJmp \in 0..Len(stack)
    /\ nCcalls \in Int /\ ci \in Int

IsTry(s, d) == s[d].kind = "try"

\* h is the innermost protected call of the stack s below d (0: there is none).
Encloses(s, h, d) ==
    /\ h \in 0..(d - 1)
    /\ h # 0 => IsTry(s, h)
    /\ \A k \in (h + 1)..(d - 1) : ~IsTry(s, k)

Chained(s, h) ==
    /\ Encloses(s, h, Len(s) + 1)
    /\ \A d \in 1..Len(s) : IsTry(s, d) => Encloses(s, s[d].previous, d)

\* L->errorJmp is the innermost protected call of the C stack and each one's
\* "previous" is the one around it, so an error is never delivered to a handler
\* that has returned or to one further out.
HandlerChain == Chained(stack, errorJmp)

\* A pending error is the status of the innermost protected call: the global
\* never outlives the handler it was raised under, and unwinding always has a
\* handler to stop at.
PendingIsInnermost ==
    /\ Pending => errorJmp # 0 /\ stack[errorJmp].status = errorState
    /\ pc = "unwind" => Pending

\* luaconf.h:642: "No setjmp/longjmp on MoSync, need to return explicitly if
\* an error has occurred": once an error is recorded for a protected call, no
\* code inside that call goes on.
NothingRunsAfterError ==
    pc = "run" => \A d \in DOMAIN stack : stack[d].status = "ok"
\* With LUAI_ERRORCHECK at every call site nothing does.
CheckedCodeStops == checked => NothingRunsAfterError

\* luaD_pcall gives its caller back the CallInfo and the C call count it was
\* entered with, on success and on every error, also when functions inside went
\* on after the error and left both raised.
ProtectedCallRestores ==
    [][\A d \in DOMAIN stack :
         d = Len(stack) /\ IsTry(stack, d) /\ Len(stack') = d - 1 =>
             ci' = stack[d].ci /\ nCcalls' = stack[d].ccalls]_vars

\* With a check at every call site, an error under a protected call reaches it.
ErrorIsDelivered == checked /\ Pending ~> ~Pending
=============================================================================
