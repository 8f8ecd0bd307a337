--------------------------- MODULE LuaErrorProof ---------------------------
(***************************************************************************)
(* Theorems about LuaError for every stack depth and every call limit, for  *)
(* call sites that all check and for any mixture.                           *)
(***************************************************************************)
EXTENDS LuaErrorLongjmp, SequenceTheorems, TLAPS

-----------------------------------------------------------------------------
(* The chain of handlers, as a fact about stacks *)

\* The chain depends on the kinds and the links only.
LEMMA ChainOfSameKinds ==
    ASSUME NEW s, NEW t, NEW h, Len(s) \in Nat, Len(t) = Len(s), Chained(s, h),
           \A d \in 1..Len(s) : t[d].kind = s[d].kind /\ t[d].previous = s[d].previous
    PROVE  Chained(t, h)
<1>1. \A d \in 1..Len(s) : IsTry(t, d) <=> IsTry(s, d)
  BY DEF IsTry
<1>2. ASSUME NEW g, NEW d \in 1..(Len(s) + 1), Encloses(s, g, d)
      PROVE  Encloses(t, g, d)
  BY <1>1, <1>2 DEF Encloses
<1>3. Encloses(t, h, Len(t) + 1)
  BY <1>2 DEF Chained
<1>4. ASSUME NEW d \in 1..Len(t), IsTry(t, d)
      PROVE  Encloses(t, t[d].previous, d)
  BY <1>1, <1>2, <1>4 DEF Chained
<1> QED
  BY <1>3, <1>4 DEF Chained

\* Pushing an activation keeps the chain; a protected call becomes its head.
LEMMA ChainAfterPush ==
    ASSUME NEW s, NEW t, NEW h, Len(s) \in Nat, Len(t) = Len(s) + 1, Chained(s, h),
           \A d \in 1..Len(s) : t[d] = s[d]
    PROVE  /\ t[Len(t)].kind # "try" => Chained(t, h)
           /\ t[Len(t)].kind = "try" /\ t[Len(t)].previous = h => Chained(t, Len(t))
<1>1. \A d \in 1..Len(s) : IsTry(t, d) <=> IsTry(s, d)
  BY DEF IsTry
<1>2. ASSUME NEW g, NEW d \in 1..(Len(s) + 1), Encloses(s, g, d)
      PROVE  Encloses(t, g, d)
  BY <1>1, <1>2 DEF Encloses
<1>3. Encloses(t, h, Len(s) + 1)
  BY <1>2 DEF Chained
<1>4. \A d \in 1..Len(s) : IsTry(t, d) => Encloses(t, t[d].previous, d)
  BY <1>1, <1>2 DEF Chained
<1>5. CASE t[Len(t)].kind # "try"
  <2>1. Encloses(t, h, Len(t) + 1)
    BY <1>3, <1>5 DEF Encloses, IsTry
  <2> QED
    BY <2>1, <1>4, <1>5 DEF Chained, IsTry
<1>6. CASE t[Len(t)].kind = "try" /\ t[Len(t)].previous = h
  <2>1. Encloses(t, Len(t), Len(t) + 1)
    BY <1>6 DEF Encloses, IsTry
  <2> QED
    BY <2>1, <1>3, <1>4, <1>6 DEF Chained
<1> QED
  BY <1>5, <1>6

\* Popping the top gives the chain back as it was when it was pushed.
LEMMA ChainAfterPop ==
    ASSUME NEW s, NEW t, NEW h, Len(t) \in Nat, Len(s) = Len(t) + 1, Chained(s, h),
           \A d \in 1..Len(t) : t[d] = s[d]
    PROVE  /\ s[Len(s)].kind # "try" => Chained(t, h)
           /\ s[Len(s)].kind = "try" => h = Len(s) /\ Chained(t, s[Len(s)].previous)
<1>1. \A d \in 1..Len(t) : IsTry(t, d) <=> IsTry(s, d)
  BY DEF IsTry
<1>2. ASSUME NEW g, NEW d \in 1..(Len(t) + 1), Encloses(s, g, d)
      PROVE  Encloses(t, g, d)
  BY <1>1, <1>2 DEF Encloses
<1>3. \A d \in 1..Len(t) : IsTry(t, d) => Encloses(t, t[d].previous, d)
  BY <1>1, <1>2 DEF Chained
<1>4. Encloses(s, h, Len(s) + 1)
  BY DEF Chained
<1>5. CASE s[Len(s)].kind # "try"
  <2>1. Encloses(s, h, Len(t) + 1)
    BY <1>4, <1>5 DEF Encloses, IsTry
  <2> QED
    BY <2>1, <1>2, <1>3, <1>5 DEF Chained
<1>6. CASE s[Len(s)].kind = "try"
  <2>1. h = Len(s)
    BY <1>4, <1>6 DEF Encloses, IsTry
  <2>2. Encloses(s, s[Len(s)].previous, Len(t) + 1)
    BY <1>6 DEF Chained, IsTry
  <2> QED
    BY <2>1, <2>2, <1>2, <1>3, <1>6 DEF Chained
<1> QED
  BY <1>5, <1>6

-----------------------------------------------------------------------------
(* The inductive invariant *)

\* The host's own frame is never popped.
HostAtBottom == stack[1].kind = "host"

\* PendingIsInnermost needs HandlerChain: the handler a pending error names
\* must still be there after any return; and both need the host's frame.
IInv ==
    /\ TypeOK
    /\ HostAtBottom
    /\ HandlerChain
    /\ PendingIsInnermost

\* A throw onto a stack s whose frames are those of "stack" or fewer.
LEMMA ThrowKeeps ==
    ASSUME IInv, NEW s \in Seq(Frame), s # <<>>, s[1].kind = "host",
           Chained(s, errorJmp), NEW e \in Errors, NEW site \in BOOLEAN,
           Throw(s, e, site), errorJmp' = errorJmp, nCcalls' \in Int, ci' \in Int
    PROVE  IInv'
<1> Len(s) \in Nat /\ Len(s) # 0 /\ errorJmp \in 0..Len(s)
  BY LenProperties, EmptySeq DEF Chained, Encloses
<1>1. CASE errorJmp = 0
  <2>1. stack' = s /\ pc' = "exit" /\ errorState' = errorState
    BY <1>1 DEF Throw
  <2>2. ~Pending
    BY <1>1 DEF IInv, PendingIsInnermost
  <2> QED
    BY <1>1, <2>1, <2>2 DEF IInv, TypeOK, HostAtBottom, HandlerChain, PendingIsInnermost, Pending
<1>2. CASE errorJmp # 0
  <2> DEFINE f == [s[errorJmp] EXCEPT !.status = e]
  <2>1. /\ stack' = [s EXCEPT ![errorJmp] = f]
        /\ errorState' = e
        /\ pc' = After(site, TRUE)
    BY <1>2 DEF Throw
  <2>2. /\ f \in Frame /\ f.status = e
        /\ f.kind = s[errorJmp].kind /\ f.previous = s[errorJmp].previous
    <3>1. s[errorJmp] \in Frame
      BY <1>2, ElementOfSeq
    <3> QED
      BY <3>1 DEF Frame, Status
  <2> HIDE DEF f
  <2>3. /\ stack' \in Seq(Frame) /\ Len(stack') = Len(s)
        /\ \A j \in 1..Len(s) : stack'[j] = IF j = errorJmp THEN f ELSE s[j]
    BY <1>2, <2>1, <2>2, ExceptSeq
  <2>4. TypeOK'
    BY <1>2, <2>1, <2>3, EmptySeq DEF TypeOK, After, Status, IInv
  <2>5. HostAtBottom'
    BY <2>2, <2>3 DEF HostAtBottom
  <2>6. HandlerChain'
    BY <2>2, <2>3, ChainOfSameKinds DEF HandlerChain
  <2>7. PendingIsInnermost'
    <3>1. errorState' = e /\ e # "ok" /\ errorJmp' # 0
      BY <1>2, <2>1 DEF Errors
    <3>2. stack'[errorJmp'].status = e
      BY <1>2, <2>2, <2>3
    <3> QED
      BY <3>1, <3>2 DEF PendingIsInnermost, Pending
  <2> QED
    BY <2>4, <2>5, <2>6, <2>7 DEF IInv
<1> QED
  BY <1>1, <1>2

\* A throw from the running function itself.
LEMMA ThrowHere ==
    ASSUME IInv, NEW e \in Errors, NEW site \in BOOLEAN,
           Throw(stack, e, site), errorJmp' = errorJmp, nCcalls' \in Int, ci' \in Int
    PROVE  IInv'
BY ThrowKeeps DEF IInv, TypeOK, HostAtBottom, HandlerChain

\* Entering a function or a handler: one more frame that is not protected.
LEMMA EnterKeeps ==
    ASSUME IInv, NEW kind \in {"call", "handler"}, NEW site \in BOOLEAN,
           stack' = Append(stack, Activation(kind, site)),
           pc' = "run", UNCHANGED <<errorState, errorJmp>>,
           nCcalls' \in Int, ci' \in Int
    PROVE  IInv'
<1> DEFINE a == Activation(kind, site)
<1>1. a \in Frame /\ a.kind = kind
  BY DEF Activation, Frame, Kinds, Status, Handlers, IInv, TypeOK
<1> HIDE DEF a
<1>2. /\ stack' \in Seq(Frame) /\ stack' # <<>> /\ Len(stack') = Len(stack) + 1
      /\ \A i \in 1..Len(stack) : stack'[i] = stack[i]
      /\ stack'[Len(stack) + 1] = a
  BY <1>1, AppendProperties DEF IInv, TypeOK, a
<1>3. Len(stack) \in Nat /\ Len(stack) # 0 /\ errorJmp \in 0..Len(stack)
  BY LenProperties, EmptySeq DEF IInv, TypeOK
<1>4. TypeOK'
  BY <1>2, <1>3 DEF IInv, TypeOK
<1>5. HostAtBottom'
  BY <1>2, <1>3 DEF IInv, HostAtBottom
<1>6. HandlerChain'
  BY <1>1, <1>2, <1>3, ChainAfterPush DEF IInv, HandlerChain
<1>7. PendingIsInnermost'
  BY <1>2, <1>3 DEF IInv, PendingIsInnermost, Pending
<1> QED
  BY <1>4, <1>5, <1>6, <1>7 DEF IInv

\* What luaG_errormsg leaves: a throw or a handler started.
LEMMA ErrorMsgKeeps ==
    ASSUME IInv, NEW n \in Int, NEW site \in BOOLEAN, pc = "run", ErrorMsg(n, site)
    PROVE  IInv'
<1>1. nCcalls' \in Int /\ ci' \in Int /\ errorJmp' = errorJmp
  BY ErrorConstants DEF ErrorMsg, IInv, TypeOK
<1>2. CASE \E e \in Errors : Throw(stack, e, site)
  BY <1>1, <1>2, ThrowHere
<1>3. CASE /\ stack' = Append(stack, Activation("handler", site))
           /\ pc' = "run" /\ UNCHANGED errorState
  BY <1>1, <1>3, EnterKeeps
<1> QED
  BY <1>2, <1>3 DEF ErrorMsg, Errors

\* What remains of the stack when its top returns.
LEMMA PoppedStack ==
    ASSUME IInv, Top.kind # "host"
    PROVE  /\ Popped \in Seq(Frame) /\ Popped # <<>> /\ Popped[1].kind = "host"
           /\ Len(stack) \in Nat /\ Len(Popped) \in Nat
           /\ Len(stack) = Len(Popped) + 1 /\ Len(Popped) > 0
           /\ \A d \in 1..Len(Popped) : Popped[d] = stack[d]
<1>1. Len(stack) \in Nat /\ Len(stack) # 0
  BY LenProperties, EmptySeq DEF IInv, TypeOK
<1>2. Len(stack) > 1
  BY <1>1 DEF IInv, HostAtBottom, Top
<1>3. \A i \in 1..(Len(stack) - 1) : stack[i] \in Frame
  BY <1>1, ElementOfSeq DEF IInv, TypeOK
<1>4. /\ Popped \in Seq(Frame) /\ Len(Popped) = Len(stack) - 1
      /\ \A d \in 1..Len(Popped) : Popped[d] = stack[d]
  BY <1>1, <1>2, <1>3, SubSeqProperties DEF Popped
<1> QED
  BY <1>1, <1>2, <1>4, EmptySeq DEF IInv, HostAtBottom

\* There is always an innermost activation.
LEMMA TopIsFrame ==
    ASSUME IInv
    PROVE  Top \in Frame
<1>1. stack \in Seq(Frame) /\ stack # <<>>
  BY DEF IInv, TypeOK
<1>2. Len(stack) \in 1..Len(stack)
  BY <1>1, EmptySeq, LenProperties
<1> QED
  BY <1>1, <1>2, ElementOfSeq DEF Top

\* Returning from an activation that is not protected.
LEMMA LeaveKeeps ==
    ASSUME IInv, Top.kind \in {"call", "handler"}, NEW site \in BOOLEAN,
           stack' = Popped, pc' = After(site, Pending),
           UNCHANGED <<errorState, errorJmp>>, nCcalls' \in Int, ci' \in Int
    PROVE  IInv'
<1> USE PoppedStack
<1>1. HandlerChain'
  BY ChainAfterPop DEF IInv, HandlerChain, Top
<1>2. errorJmp \in 0..Len(Popped)
  BY <1>1 DEF HandlerChain, Chained, Encloses
<1>3. TypeOK'
  BY <1>2 DEF IInv, TypeOK, After
<1>4. HostAtBottom'
  BY DEF HostAtBottom
<1>5. PendingIsInnermost'
  BY <1>2 DEF IInv, PendingIsInnermost, Pending, After
<1> QED
  BY <1>1, <1>3, <1>4, <1>5 DEF IInv

-----------------------------------------------------------------------------

\* The invariant holds at first.
LEMMA InitEstablishes == Init => IInv
<1> SUFFICES ASSUME Init PROVE IInv
  OBVIOUS
<1>1. /\ stack \in Seq(Frame) /\ stack # <<>> /\ Len(stack) = 1
      /\ stack[1].kind = "host"
  BY DEF Init, Frame, Kinds, Status, Handlers
<1>2. HandlerChain
  BY <1>1 DEF Init, HandlerChain, Chained, Encloses, IsTry
<1> QED
  BY <1>1, <1>2 DEF Init, IInv, TypeOK, HostAtBottom, PendingIsInnermost, Pending, Status

\* No step breaks the invariant.
LEMMA StepKeeps == IInv /\ [Next]_vars => IInv'
<1> SUFFICES ASSUME IInv, [Next]_vars PROVE IInv'
  OBVIOUS
<1> USE ErrorConstants
<1>0. nCcalls \in Int /\ ci \in Int /\ \A site \in Sites : site \in BOOLEAN
  BY DEF IInv, TypeOK, Sites
<1>1. ASSUME NEW site \in Sites, Call(site) PROVE IInv'
  <2>0. site \in BOOLEAN
    BY <1>0
  <2> DEFINE n == nCcalls + 1
  <2>1. CASE n = MaxCcalls /\ ErrorMsg(n, site)
    BY <1>0, <1>1, <2>0, <2>1, ErrorMsgKeeps DEF Call
  <2>2. CASE /\ Throw(stack, "LUA_ERRERR", site) /\ nCcalls' = n
             /\ UNCHANGED <<errorJmp, ci>>
    BY <1>0, <2>0, <2>2, ThrowHere DEF Errors
  <2>3. CASE /\ stack' = Append(stack, Activation("call", site))
             /\ nCcalls' = n /\ ci' = ci + 1
             /\ UNCHANGED <<pc, errorState, errorJmp>>
    BY <1>0, <1>1, <2>0, <2>3, EnterKeeps DEF Call
  <2> QED
    BY <1>1, <2>1, <2>2, <2>3 DEF Call
<1>2. ASSUME NEW site \in Sites, CallPending(site) PROVE IInv'
  <2>1. nCcalls' \in Int /\ ci' \in Int /\ errorJmp' = errorJmp
    BY <1>0, <1>2 DEF CallPending
  <2>2. CASE Throw(stack, "LUA_ERRERR", site)
    BY <1>0, <2>1, <2>2, ThrowHere DEF Errors
  <2>3. CASE pc' = After(site, TRUE) /\ UNCHANGED <<stack, errorState>>
    BY <1>2, <2>1, <2>3 DEF CallPending, IInv, TypeOK, HostAtBottom, HandlerChain,
                            PendingIsInnermost, Pending, After
  <2> QED
    BY <1>2, <2>2, <2>3 DEF CallPending
<1>3. ASSUME NEW site \in Sites, RunError(site) PROVE IInv'
  BY <1>0, <1>3, ErrorMsgKeeps DEF RunError
<1>4. ASSUME NEW site \in Sites, RaiseAgain(site) PROVE IInv'
  <2>1. \E e \in Errors : Throw(stack, e, site)
    BY <1>4 DEF RaiseAgain, Errors
  <2> QED
    BY <1>0, <1>4, <2>1, ThrowHere DEF RaiseAgain
<1>5. ASSUME NEW site \in Sites, MemoryError(site) PROVE IInv'
  BY <1>0, <1>5, ThrowHere DEF MemoryError, Errors
<1>6. ASSUME NEW errfunc \in Handlers, Protect(errfunc) PROVE IInv'
  <2> DEFINE a == [Activation("try", FALSE) EXCEPT !.previous = errorJmp, !.errfunc = errfunc]
  <2>1. stack' = Append(stack, a)
    BY <1>6 DEF Protect
  <2>2. Len(stack) \in Nat /\ Len(stack) # 0 /\ errorJmp \in Nat
    BY LenProperties, EmptySeq DEF IInv, TypeOK
  <2>3. a \in Frame /\ a.kind = "try" /\ a.previous = errorJmp
    BY <1>0, <2>2 DEF Activation, Frame, Kinds, Status
  <2> HIDE DEF a
  <2>4. /\ stack' \in Seq(Frame) /\ stack' # <<>> /\ Len(stack') = Len(stack) + 1
        /\ \A i \in 1..Len(stack) : stack'[i] = stack[i]
        /\ stack'[Len(stack) + 1] = a
    BY <2>1, <2>3, AppendProperties DEF IInv, TypeOK
  <2>5. HandlerChain'
    BY <1>6, <2>2, <2>3, <2>4, ChainAfterPush DEF IInv, HandlerChain, Protect
  <2>6. TypeOK'
    BY <1>0, <1>6, <2>2, <2>4 DEF IInv, TypeOK, Protect, Status
  <2>7. HostAtBottom'
    BY <2>2, <2>4 DEF IInv, HostAtBottom
  <2>8. PendingIsInnermost'
    BY <1>6 DEF PendingIsInnermost, Pending, Protect
  <2> QED
    BY <2>5, <2>6, <2>7, <2>8 DEF IInv
<1>7. ASSUME ReturnCall PROVE IInv'
  <2>1. Top.site \in BOOLEAN
    BY TopIsFrame DEF Frame
  <2> QED
    BY <1>0, <1>7, <2>1, LeaveKeeps DEF ReturnCall
<1>8. ASSUME ReturnHandler PROVE IInv'
  <2>1. Top.site \in BOOLEAN
    BY TopIsFrame DEF Frame
  <2>2. CASE Pending
    BY <1>0, <1>8, <2>1, <2>2, LeaveKeeps DEF ReturnHandler
  <2>3. CASE ~Pending
    <3>1. Chained(Popped, errorJmp)
      BY <1>8, PoppedStack, ChainAfterPop DEF ReturnHandler, IInv, HandlerChain, Top
    <3> QED
      BY <1>0, <1>8, <2>1, <2>3, <3>1, PoppedStack, ThrowKeeps DEF ReturnHandler, Errors
  <2> QED
    BY <2>2, <2>3
<1>9. ASSUME ReturnTry PROVE IInv'
  <2> USE PoppedStack
  <2>1. Top.ccalls \in Int /\ Top.ci \in Int
    BY TopIsFrame DEF Frame
  <2>2. HandlerChain'
    BY <1>9, ChainAfterPop DEF ReturnTry, IInv, HandlerChain, Top
  <2>3. errorJmp' \in 0..Len(Popped)
    BY <1>9, <2>2 DEF ReturnTry, HandlerChain, Chained, Encloses
  <2> QED
    BY <1>0, <1>9, <2>1, <2>2, <2>3
       DEF ReturnTry, IInv, TypeOK, HostAtBottom, PendingIsInnermost, Pending, Status
<1>10. CASE UNCHANGED vars
  BY <1>10 DEF vars, IInv, TypeOK, HostAtBottom, HandlerChain, PendingIsInnermost, Pending
<1> QED
  BY <1>1, <1>2, <1>3, <1>4, <1>5, <1>6, <1>7, <1>8, <1>9, <1>10 DEF Next, Step, Exited

\* Type correctness of the error machinery (ldo.c), for every constant.
THEOREM TypeCorrect == Spec => []TypeOK
<1>1. IInv => TypeOK
  BY DEF IInv
<1> QED
  BY InitEstablishes, StepKeeps, <1>1, PTL DEF Spec

\* luaD_rawrunprotected keeps L->errorJmp and the chain of lua_longjmp records
\* in step with the C stack whatever the functions inside do about errors.
THEOREM HandlersAreChained == Spec => []HandlerChain
<1>1. IInv => HandlerChain
  BY DEF IInv
<1> QED
  BY InitEstablishes, StepKeeps, <1>1, PTL DEF Spec

\* global_LuaErrorState, while set, is the status of the innermost protected
\* call: no error escapes its handler.
THEOREM PendingErrorHasItsHandler == Spec => []PendingIsInnermost
<1>1. IInv => PendingIsInnermost
  BY DEF IInv
<1> QED
  BY InitEstablishes, StepKeeps, <1>1, PTL DEF Spec

-----------------------------------------------------------------------------
(* Checked call sites: nothing runs inside a protected call that has failed *)

\* The only activation with an error status is the handler the pending error
\* is on its way to; the frames above it return at checked sites.
Prompt ==
    /\ pc = "run" => ~Pending
    /\ \A d \in 1..Len(stack) :
          /\ stack[d].status # "ok" => Pending /\ d = errorJmp
          /\ stack[d].kind \in {"call", "handler"} => stack[d].site = TRUE

\* An error over activations without a status leaves it with the innermost handler only.
LEMMA PromptThrow ==
    ASSUME IInv, NEW s \in Seq(Frame), NEW e \in Errors, Len(s) \in Nat,
           errorJmp \in 0..Len(s),
           \A d \in 1..Len(s) :
              /\ s[d].status = "ok"
              /\ s[d].kind \in {"call", "handler"} => s[d].site = TRUE,
           Throw(s, e, TRUE), errorJmp' = errorJmp
    PROVE  Prompt'
<1>1. CASE errorJmp = 0
  BY <1>1 DEF Throw, Prompt, Pending
<1>2. CASE errorJmp # 0
  <2> DEFINE f == [s[errorJmp] EXCEPT !.status = e]
  <2>1. stack' = [s EXCEPT ![errorJmp] = f] /\ errorState' = e /\ pc' = "unwind"
    BY <1>2 DEF Throw, After
  <2>2. s[errorJmp] \in Frame
    BY <1>2, ElementOfSeq
  <2>3. f \in Frame /\ f.kind = s[errorJmp].kind /\ f.site = s[errorJmp].site
    BY <2>2 DEF Frame, Status
  <2> HIDE DEF f
  <2>4. /\ Len(stack') = Len(s)
        /\ \A j \in 1..Len(s) : stack'[j] = IF j = errorJmp THEN f ELSE s[j]
    BY <1>2, <2>1, <2>3, ExceptSeq
  <2>5. errorState' # "ok"
    BY <2>1 DEF Errors
  <2> QED
    BY <2>1, <2>3, <2>4, <2>5 DEF Prompt, Pending
<1> QED
  BY <1>1, <1>2

\* While nothing is pending, every frame of the stack is clean.
LEMMA PromptThrowHere ==
    ASSUME IInv, Prompt, pc = "run", NEW e \in Errors,
           Throw(stack, e, TRUE), errorJmp' = errorJmp
    PROVE  Prompt'
<1>1. Len(stack) \in Nat
  BY LenProperties DEF IInv, TypeOK
<1> QED
  BY <1>1, PromptThrow DEF Prompt, IInv, TypeOK

\* An activation comes.
LEMMA PromptEnter ==
    ASSUME IInv, Prompt, NEW a \in Frame, a.status = "ok",
           a.kind \in {"call", "handler"} => a.site = TRUE,
           pc = "run", stack' = Append(stack, a), errorState' = "ok"
    PROVE  Prompt'
<1>1. /\ Len(stack) \in Nat /\ Len(stack') = Len(stack) + 1
      /\ \A i \in 1..Len(stack) : stack'[i] = stack[i]
      /\ stack'[Len(stack) + 1] = a
  BY AppendProperties, LenProperties DEF IInv, TypeOK
<1> QED
  BY <1>1 DEF Prompt, Pending

\* A new activation has no status yet.
LEMMA ActivationIsClean ==
    ASSUME IInv, NEW kind \in Kinds, NEW site \in BOOLEAN
    PROVE  /\ Activation(kind, site) \in Frame
           /\ Activation(kind, site).status = "ok"
           /\ Activation(kind, site).kind = kind
           /\ Activation(kind, site).site = site
BY DEF Activation, Frame, Kinds, Status, Handlers, IInv, TypeOK

\* luaG_errormsg throws or calls the message handler.
LEMMA PromptErrorMsg ==
    ASSUME IInv, Prompt, pc = "run", NEW n, ErrorMsg(n, TRUE)
    PROVE  Prompt'
<1>1. CASE \E e \in Errors : Throw(stack, e, TRUE)
  <2>1. errorJmp' = errorJmp
    BY DEF ErrorMsg
  <2> QED
    BY <1>1, <2>1, PromptThrowHere
<1>2. CASE stack' = Append(stack, Activation("handler", TRUE)) /\ UNCHANGED errorState
  <2>1. errorState' = "ok"
    BY <1>2 DEF Prompt, Pending
  <2> QED
    BY <1>2, <2>1, ActivationIsClean, PromptEnter DEF Kinds
<1> QED
  BY <1>1, <1>2 DEF ErrorMsg, Errors

\* No step breaks it where every call is checked.
LEMMA PromptStep ==
    ASSUME checked, IInv, Prompt, [Next]_vars
    PROVE  Prompt'
<1> USE DEF Sites
<1>1. ASSUME NEW site \in Sites, Call(site) PROVE Prompt'
  <2>1. CASE ErrorMsg(nCcalls + 1, site)
    BY <1>1, <2>1, PromptErrorMsg DEF Call
  <2>2. CASE Throw(stack, "LUA_ERRERR", site) /\ UNCHANGED errorJmp
    BY <1>1, <2>2, PromptThrowHere DEF Call, Errors
  <2>3. CASE stack' = Append(stack, Activation("call", site)) /\ UNCHANGED errorState
    <3>1. errorState' = "ok"
      BY <1>1, <2>3 DEF Call, Pending
    <3> QED
      BY <1>1, <2>3, <3>1, ActivationIsClean, PromptEnter DEF Call, Kinds
  <2> QED
    BY <1>1, <2>1, <2>2, <2>3 DEF Call
<1>2. ASSUME NEW site \in Sites, CallPending(site) PROVE Prompt'
  BY <1>2 DEF CallPending, Prompt
<1>3. ASSUME NEW site \in Sites, RunError(site) PROVE Prompt'
  BY <1>3, PromptErrorMsg DEF RunError
<1>4. ASSUME NEW site \in Sites, RaiseAgain(site) PROVE Prompt'
  BY <1>4 DEF RaiseAgain, Prompt
<1>5. ASSUME NEW site \in Sites, MemoryError(site) PROVE Prompt'
  BY <1>5, PromptThrowHere DEF MemoryError, Errors
<1>6. ASSUME NEW errfunc \in Handlers, Protect(errfunc) PROVE Prompt'
  <2> DEFINE b == Activation("try", FALSE)
             a == [b EXCEPT !.previous = errorJmp, !.errfunc = errfunc]
  <2>1. stack' = Append(stack, a) /\ pc = "run" /\ errorState' = "ok"
    BY <1>6 DEF Protect
  <2>2. b \in Frame /\ b.status = "ok" /\ b.kind = "try"
    BY ActivationIsClean DEF Kinds
  <2> HIDE DEF b
  <2>3. errorJmp \in Nat
    BY LenProperties DEF IInv, TypeOK
  <2>4. a \in Frame /\ a.status = "ok" /\ a.kind = "try"
    BY <2>2, <2>3 DEF Frame
  <2> QED
    BY <2>1, <2>4, PromptEnter
<1>7. ASSUME ReturnCall PROVE Prompt'
  BY <1>7, PoppedStack DEF ReturnCall, Prompt, Pending, After, Top
<1>8. ASSUME ReturnHandler PROVE Prompt'
  <2>1. /\ Popped \in Seq(Frame) /\ Len(Popped) \in Nat /\ Len(stack) = Len(Popped) + 1
        /\ \A d \in 1..Len(Popped) : Popped[d] = stack[d]
    BY <1>8, PoppedStack DEF ReturnHandler
  <2>2. Top.site = TRUE
    BY <1>8, <2>1 DEF ReturnHandler, Prompt, Top
  <2>3. CASE Pending
    BY <1>8, <2>1, <2>2, <2>3 DEF ReturnHandler, Prompt, Pending, After
  <2>4. CASE ~Pending
    <3>1. Chained(Popped, errorJmp)
      BY <1>8, <2>1, ChainAfterPop DEF ReturnHandler, IInv, HandlerChain, Top
    <3>2. errorJmp \in 0..Len(Popped)
      BY <2>1, <3>1 DEF Chained, Encloses
    <3>3. \A d \in 1..Len(Popped) :
             /\ Popped[d].status = "ok"
             /\ Popped[d].kind \in {"call", "handler"} => Popped[d].site = TRUE
      BY <2>1, <2>4 DEF Prompt
    <3> QED
      BY <1>8, <2>1, <2>2, <2>4, <3>2, <3>3, PromptThrow DEF ReturnHandler, Errors
  <2> QED
    BY <2>3, <2>4
<1>9. ASSUME ReturnTry PROVE Prompt'
  <2>1. /\ Len(Popped) \in Nat /\ Len(stack) = Len(Popped) + 1
        /\ \A d \in 1..Len(Popped) : Popped[d] = stack[d]
    BY <1>9, PoppedStack DEF ReturnTry
  <2>2. errorJmp = Len(stack)
    BY <1>9, <2>1, ChainAfterPop DEF ReturnTry, IInv, HandlerChain, Top
  <2> QED
    BY <1>9, <2>1, <2>2 DEF ReturnTry, Prompt, Pending
<1>10. CASE UNCHANGED vars
  BY <1>10 DEF vars, Prompt, Pending
<1> QED
  BY <1>1, <1>2, <1>3, <1>4, <1>5, <1>6, <1>7, <1>8, <1>9, <1>10 DEF Next, Step, Exited

\* The program stays what it is.
LEMMA CheckedStays == [Next]_vars => checked' = checked
  BY DEF Next, vars

\* It holds at first.
LEMMA PromptInit == Init => Prompt
  BY DEF Init, Prompt, Pending

\* With LUAI_ERRORCHECK after every call, a protected call that has failed runs
\* no more code: the port's substitute for longjmp (luaconf.h:642).
THEOREM FailedCallsStop == Spec => []CheckedCodeStops
<1> DEFINE PInv == checked => Prompt
<1>1. IInv /\ PInv /\ [Next]_vars => IInv' /\ PInv'
  BY StepKeeps, PromptStep, CheckedStays
<1>2. Init => PInv
  BY PromptInit
<1>3. IInv /\ PInv => CheckedCodeStops
  <2> SUFFICES ASSUME IInv, Prompt, pc = "run", NEW d \in DOMAIN stack
               PROVE  stack[d].status = "ok"
    BY DEF NothingRunsAfterError, CheckedCodeStops
  <2>1. d \in 1..Len(stack)
    BY LenProperties DEF IInv, TypeOK
  <2> QED
    BY <2>1 DEF Prompt
<1> HIDE DEF PInv
<1> QED
  BY InitEstablishes, <1>1, <1>2, <1>3, PTL DEF Spec

-----------------------------------------------------------------------------
(* What a protected call gives back: the counters, on every path            *)

\* Since the protected call at d of the stack s began, no error has reached it, and
\* up to e there are plain calls only.
Clean(s, d, e) ==
    /\ d < e /\ IsTry(s, d) /\ s[d].status = "ok"
    /\ \A k \in (d + 1)..(e - 1) : s[k].kind = "call"

\* From a clean protected call each activation counts one C call and one CallInfo:
\* in what the activations kept, and in the counters as they are.
Kept(s) ==
    \A d, e \in 1..Len(s) : Clean(s, d, e) =>
        s[e].ccalls = s[d].ccalls + (e - 1 - d) /\ s[e].ci = s[d].ci + (e - 1 - d)
Current(s, n, c) ==
    \A d \in 1..Len(s) : Clean(s, d, Len(s) + 1) =>
        n = s[d].ccalls + (Len(s) - d) /\ c = s[d].ci + (Len(s) - d)

Balanced == Kept(stack) /\ Current(stack, nCcalls, ci)

\* One more activation keeps the counters as they stand.
LEMMA KeptAfterPush ==
    ASSUME NEW s, NEW t, NEW n, NEW c, Len(s) \in Nat, Len(t) = Len(s) + 1,
           \A d \in 1..Len(s) : t[d] = s[d],
           t[Len(t)].ccalls = n, t[Len(t)].ci = c, Kept(s), Current(s, n, c)
    PROVE  Kept(t)
<1> SUFFICES ASSUME NEW d \in 1..Len(t), NEW e \in 1..Len(t), Clean(t, d, e)
             PROVE  /\ t[e].ccalls = t[d].ccalls + (e - 1 - d)
                    /\ t[e].ci = t[d].ci + (e - 1 - d)
  BY DEF Kept
<1>1. d \in 1..Len(s) /\ d < e /\ t[d] = s[d]
  BY DEF Clean
<1>2. \A k \in (d + 1)..(e - 1) : k \in 1..Len(s) /\ t[k] = s[k]
  BY <1>1
<1>3. Clean(s, d, e)
  BY <1>1, <1>2 DEF Clean, IsTry
<1>4. CASE e = Len(t)
  <2>1. e = Len(s) + 1 /\ e - 1 - d = Len(s) - d
    BY <1>4
  <2>2. n = s[d].ccalls + (Len(s) - d) /\ c = s[d].ci + (Len(s) - d)
    BY <1>1, <1>3, <2>1 DEF Current
  <2> QED
    BY <1>1, <1>4, <2>1, <2>2
<1>5. CASE e # Len(t)
  <2>1. e \in 1..Len(s) /\ t[e] = s[e]
    BY <1>5
  <2> QED
    BY <1>1, <1>3, <2>1 DEF Kept
<1> QED
  BY <1>4, <1>5

\* The counters after an activation has been entered.
LEMMA CurrentAfterPush ==
    ASSUME NEW s, NEW t, NEW n, NEW c, NEW m, NEW b, Len(s) \in Nat, Len(t) = Len(s) + 1,
           \A d \in 1..Len(s) : t[d] = s[d] /\ t[d].ccalls \in Int /\ t[d].ci \in Int,
           Current(s, n, c), n \in Int, c \in Int,
           \/ t[Len(t)].kind = "call" /\ m = n + 1 /\ b = c + 1
           \/ t[Len(t)].kind = "handler"
           \/ /\ t[Len(t)].kind = "try" /\ m = n /\ b = c
              /\ t[Len(t)].ccalls = n /\ t[Len(t)].ci = c
    PROVE  Current(t, m, b)
<1> SUFFICES ASSUME NEW d \in 1..Len(t), Clean(t, d, Len(t) + 1)
             PROVE  m = t[d].ccalls + (Len(t) - d) /\ b = t[d].ci + (Len(t) - d)
  BY DEF Current
<1>1. CASE d = Len(t)
  <2>1. t[d].kind = "try"
    BY DEF Clean, IsTry
  <2>2. m = n /\ b = c /\ t[d].ccalls = n /\ t[d].ci = c
    BY <1>1, <2>1
  <2> QED
    BY <1>1, <2>2
<1>2. CASE d # Len(t)
  <2>1. d \in 1..Len(s) /\ t[d] = s[d] /\ t[d].ccalls \in Int /\ t[d].ci \in Int
    BY <1>2
  <2>2. Len(t) \in (d + 1)..((Len(t) + 1) - 1)
    BY <2>1
  <2>3. t[Len(t)].kind = "call"
    BY <2>2 DEF Clean
  <2>4. m = n + 1 /\ b = c + 1
    BY <2>3
  <2>5. \A k \in (d + 1)..((Len(s) + 1) - 1) :
           k \in (d + 1)..((Len(t) + 1) - 1) /\ k \in 1..Len(s) /\ t[k] = s[k]
    BY <2>1
  <2>6. Clean(s, d, Len(s) + 1)
    BY <2>1, <2>5 DEF Clean, IsTry
  <2>7. n = s[d].ccalls + (Len(s) - d) /\ c = s[d].ci + (Len(s) - d)
    BY <2>1, <2>6 DEF Current
  <2>8. n = t[d].ccalls + (Len(s) - d) /\ c = t[d].ci + (Len(s) - d)
    BY <2>1, <2>7
  <2>9. Len(t) - d = (Len(s) - d) + 1 /\ Len(s) - d \in Nat
    BY <2>1
  <2>10. n + 1 = t[d].ccalls + ((Len(s) - d) + 1) /\ c + 1 = t[d].ci + ((Len(s) - d) + 1)
    BY ONLY <2>1, <2>8, <2>9
  <2> QED
    BY ONLY <2>4, <2>9, <2>10
<1> QED
  BY <1>1, <1>2

\* Where the innermost protected call h has an error, nothing is claimed of the
\* counters.
LEMMA CurrentInError ==
    ASSUME NEW s, NEW h, NEW n, NEW c, Len(s) \in Nat, Encloses(s, h, Len(s) + 1),
           h = 0 \/ s[h].status # "ok"
    PROVE  Current(s, n, c)
<1> SUFFICES ASSUME NEW d \in 1..Len(s), Clean(s, d, Len(s) + 1) PROVE FALSE
  BY DEF Current
<1>1. IsTry(s, d) /\ s[d].status = "ok"
  BY DEF Clean
<1>2. h \in 0..Len(s) /\ ~(d \in (h + 1)..Len(s)) /\ (h # 0 => IsTry(s, h))
  BY <1>1 DEF Encloses
<1>3. h \in d..Len(s)
  BY <1>2
<1>4. h # d
  BY <1>1, <1>3
<1>5. h \in (d + 1)..((Len(s) + 1) - 1)
  BY <1>3, <1>4
<1>6. s[h].kind = "call"
  BY <1>5 DEF Clean
<1> QED
  BY <1>2, <1>3, <1>6 DEF IsTry

\* What activations kept does not depend on those above, nor on an error that
\* reaches a protected call.
LEMMA KeptBelow ==
    ASSUME NEW s, NEW t, Len(t) \in Nat, Len(s) \in Nat, Len(t) <= Len(s), Kept(s),
           \A d \in 1..Len(t) : /\ t[d].kind = s[d].kind /\ t[d].ccalls = s[d].ccalls
                                /\ t[d].ci = s[d].ci
                                /\ t[d].status = "ok" => s[d].status = "ok"
    PROVE  Kept(t)
<1> SUFFICES ASSUME NEW d \in 1..Len(t), NEW e \in 1..Len(t), Clean(t, d, e)
             PROVE  /\ t[e].ccalls = t[d].ccalls + (e - 1 - d)
                    /\ t[e].ci = t[d].ci + (e - 1 - d)
  BY DEF Kept
<1>1. d \in 1..Len(s) /\ e \in 1..Len(s) /\ \A k \in (d + 1)..(e - 1) : k \in 1..Len(t)
  OBVIOUS
<1>2. Clean(s, d, e)
  BY <1>1 DEF Clean, IsTry
<1> QED
  BY <1>1, <1>2 DEF Kept

\* A throw onto the stack or what remains of it.
LEMMA BalancedThrow ==
    ASSUME IInv, NEW s \in Seq(Frame), Len(s) <= Len(stack), Chained(s, errorJmp),
           \A d \in 1..Len(s) : s[d] = stack[d],
           Balanced, NEW e \in Errors, NEW site, Throw(s, e, site)
    PROVE  Balanced'
<1>1. Len(s) \in Nat /\ Len(stack) \in Nat
  BY LenProperties DEF IInv, TypeOK
<1>2. Encloses(s, errorJmp, Len(s) + 1) /\ errorJmp \in 0..Len(s)
  BY <1>1 DEF Chained, Encloses
<1>3. CASE errorJmp = 0
  <2>1. stack' = s
    BY <1>3 DEF Throw
  <2>2. Kept(s)
    BY <1>1, KeptBelow DEF Balanced
  <2>3. Current(s, nCcalls', ci')
    BY <1>1, <1>2, <1>3, CurrentInError
  <2> QED
    BY <2>1, <2>2, <2>3 DEF Balanced
<1>4. CASE errorJmp # 0
  <2> DEFINE f == [s[errorJmp] EXCEPT !.status = e]
  <2>1. stack' = [s EXCEPT ![errorJmp] = f]
    BY <1>4 DEF Throw
  <2>2. s[errorJmp] \in Frame
    BY <1>2, <1>4, ElementOfSeq
  <2>3. /\ f \in Frame /\ f.status = e /\ f.kind = s[errorJmp].kind
        /\ f.ccalls = s[errorJmp].ccalls /\ f.ci = s[errorJmp].ci
    BY <2>2 DEF Frame, Status
  <2> HIDE DEF f
  <2>4. PICK t : t = stack'
    OBVIOUS
  <2>5. /\ Len(t) = Len(s)
        /\ \A j \in 1..Len(s) : t[j] = IF j = errorJmp THEN f ELSE s[j]
    BY <1>2, <1>4, <2>1, <2>3, <2>4, ExceptSeq
  <2>6. e # "ok"
    BY DEF Errors
  <2>7. \A d \in 1..Len(t) : /\ t[d].kind = stack[d].kind /\ t[d].ccalls = stack[d].ccalls
                             /\ t[d].ci = stack[d].ci
                             /\ t[d].status = "ok" => stack[d].status = "ok"
    BY <2>3, <2>5, <2>6
  <2>8. Kept(t)
    BY <1>1, <2>5, <2>7, KeptBelow DEF Balanced
  <2>9. Encloses(t, errorJmp, Len(t) + 1) /\ t[errorJmp].status # "ok"
    <3>1. \A d \in 1..Len(s) : IsTry(t, d) <=> IsTry(s, d)
      BY <2>3, <2>5 DEF IsTry
    <3> QED
      BY <1>1, <1>2, <1>4, <2>3, <2>5, <2>6, <3>1 DEF Encloses
  <2>10. Current(t, nCcalls', ci')
    BY <1>1, <2>5, <2>9, CurrentInError
  <2> QED
    BY <2>4, <2>8, <2>10 DEF Balanced
<1> QED
  BY <1>3, <1>4

\* A new activation, with the counters it finds.
LEMMA BalancedEnter ==
    ASSUME IInv, Balanced, NEW a \in Frame, stack' = Append(stack, a),
           a.ccalls = nCcalls, a.ci = ci,
           \/ a.kind = "call" /\ nCcalls' = nCcalls + 1 /\ ci' = ci + 1
           \/ a.kind = "handler"
           \/ a.kind = "try" /\ nCcalls' = nCcalls /\ ci' = ci
    PROVE  Balanced'
<1>1. PICK t : t = stack'
  OBVIOUS
<1>2. /\ Len(stack) \in Nat /\ Len(t) = Len(stack) + 1 /\ t[Len(t)] = a
      /\ \A i \in 1..Len(stack) : t[i] = stack[i]
  BY <1>1, AppendProperties, LenProperties DEF IInv, TypeOK
<1>3. \A i \in 1..Len(stack) : stack[i].ccalls \in Int /\ stack[i].ci \in Int
  <2>1. \A i \in 1..Len(stack) : stack[i] \in Frame
    BY ElementOfSeq DEF IInv, TypeOK
  <2> QED
    BY <2>1 DEF Frame
<1>4. nCcalls \in Int /\ ci \in Int /\ Kept(stack) /\ Current(stack, nCcalls, ci)
  BY DEF IInv, TypeOK, Balanced
<1>5. Kept(t)
  BY <1>2, <1>4, KeptAfterPush
<1>6. Current(t, nCcalls', ci')
  BY <1>2, <1>3, <1>4, CurrentAfterPush
<1> QED
  BY <1>1, <1>5, <1>6 DEF Balanced

\* While an error is pending nothing is claimed of the counters.
LEMMA BalancedPending ==
    ASSUME IInv, Balanced, Pending, UNCHANGED stack
    PROVE  Balanced'
<1>1. Len(stack) \in Nat
  BY LenProperties DEF IInv, TypeOK
<1>2. Current(stack, nCcalls', ci')
  BY <1>1, CurrentInError DEF IInv, HandlerChain, Chained, PendingIsInnermost, Pending
<1> QED
  BY <1>2 DEF Balanced

\* luaG_errormsg throws or calls the message handler.
LEMMA BalancedErrorMsg ==
    ASSUME IInv, Balanced, NEW n, NEW site \in BOOLEAN, ErrorMsg(n, site)
    PROVE  Balanced'
<1>1. CASE \E e \in Errors : Throw(stack, e, site)
  BY <1>1, BalancedThrow, LenProperties DEF IInv, TypeOK, HandlerChain
<1>2. CASE stack' = Append(stack, Activation("handler", site))
  <2>1. Activation("handler", site) \in Frame /\ Activation("handler", site).kind = "handler"
    BY ActivationIsClean DEF Kinds
  <2>2. Activation("handler", site).ccalls = nCcalls /\ Activation("handler", site).ci = ci
    BY DEF Activation
  <2> QED
    BY <1>2, <2>1, <2>2, BalancedEnter
<1> QED
  BY <1>1, <1>2 DEF ErrorMsg, Errors

\* The end of a protected call: without an error the counters are those it kept.
LEMMA TryRestores ==
    ASSUME IInv, Balanced, ReturnTry
    PROVE  nCcalls' = Top.ccalls /\ ci' = Top.ci
<1>1. Top = stack[Len(stack)] /\ IsTry(stack, Len(stack)) /\ Top \in Frame
  BY TopIsFrame DEF Top, IsTry, ReturnTry
<1>2. CASE Top.status = "ok"
  <2>1. Len(stack) \in Nat /\ Len(stack) # 0
    BY LenProperties, EmptySeq DEF IInv, TypeOK
  <2>2. \A k \in (Len(stack) + 1)..((Len(stack) + 1) - 1) : FALSE
    BY <2>1
  <2>3. Clean(stack, Len(stack), Len(stack) + 1)
    BY <1>1, <1>2, <2>1, <2>2 DEF Clean
  <2>4. Len(stack) \in 1..Len(stack) /\ Len(stack) - Len(stack) = 0
    BY <2>1
  <2>5. nCcalls = Top.ccalls + 0 /\ ci = Top.ci + 0
    BY <1>1, <2>3, <2>4 DEF Balanced, Current
  <2>6. Top.ccalls \in Int /\ Top.ci \in Int
    BY <1>1 DEF Frame
  <2> QED
    BY <1>2, <2>5, <2>6 DEF ReturnTry
<1>3. CASE Top.status # "ok"
  BY <1>3 DEF ReturnTry
<1> QED
  BY <1>2, <1>3

\* No step unbalances the counts.
LEMMA BalancedStep ==
    ASSUME IInv, Balanced, [Next]_vars
    PROVE  Balanced'
<1> USE ErrorConstants DEF Sites
<1>1. ASSUME NEW site \in Sites, Call(site) PROVE Balanced'
  <2>1. CASE ErrorMsg(nCcalls + 1, site)
    BY <2>1, BalancedErrorMsg
  <2>2. CASE Throw(stack, "LUA_ERRERR", site)
    BY <2>2, BalancedThrow, LenProperties DEF IInv, TypeOK, HandlerChain, Errors
  <2>3. CASE /\ stack' = Append(stack, Activation("call", site))
             /\ nCcalls' = nCcalls + 1 /\ ci' = ci + 1
    <3>1. Activation("call", site) \in Frame /\ Activation("call", site).kind = "call"
      BY ActivationIsClean DEF Kinds
    <3>2. Activation("call", site).ccalls = nCcalls /\ Activation("call", site).ci = ci
      BY DEF Activation
    <3> QED
      BY <2>3, <3>1, <3>2, BalancedEnter
  <2> QED
    BY <1>1, <2>1, <2>2, <2>3 DEF Call
<1>2. ASSUME NEW site \in Sites, CallPending(site) PROVE Balanced'
  <2>1. CASE Throw(stack, "LUA_ERRERR", site)
    BY <2>1, BalancedThrow, LenProperties DEF IInv, TypeOK, HandlerChain, Errors
  <2>2. CASE UNCHANGED stack
    BY <1>2, <2>2, BalancedPending DEF CallPending
  <2> QED
    BY <1>2, <2>1, <2>2 DEF CallPending
<1>3. ASSUME NEW site \in Sites, RunError(site) PROVE Balanced'
  BY <1>3, BalancedErrorMsg DEF RunError
<1>4. ASSUME NEW site \in Sites, RaiseAgain(site) PROVE Balanced'
  <2>1. \E e \in Errors : Throw(stack, e, site)
    BY <1>4 DEF RaiseAgain, Errors
  <2> QED
    BY <2>1, BalancedThrow, LenProperties DEF IInv, TypeOK, HandlerChain
<1>5. ASSUME NEW site \in Sites, MemoryError(site) PROVE Balanced'
  BY <1>5, BalancedThrow, LenProperties DEF MemoryError, IInv, TypeOK, HandlerChain, Errors
<1>6. ASSUME NEW errfunc \in Handlers, Protect(errfunc) PROVE Balanced'
  <2> DEFINE b == Activation("try", FALSE)
             a == [b EXCEPT !.previous = errorJmp, !.errfunc = errfunc]
  <2>1. stack' = Append(stack, a) /\ nCcalls' = nCcalls /\ ci' = ci
    BY <1>6 DEF Protect
  <2>2. b \in Frame /\ b.kind = "try" /\ b.ccalls = nCcalls /\ b.ci = ci
    <3>1. b \in Frame /\ b.kind = "try"
      BY ActivationIsClean DEF Kinds
    <3> QED
      BY <3>1 DEF Activation
  <2> HIDE DEF b
  <2>3. errorJmp \in Nat
    BY LenProperties DEF IInv, TypeOK
  <2>4. a \in Frame /\ a.kind = "try" /\ a.ccalls = nCcalls /\ a.ci = ci
    BY <2>2, <2>3 DEF Frame
  <2> HIDE DEF a
  <2> QED
    BY <2>1, <2>4, BalancedEnter
<1>7. ASSUME Top.kind # "host", stack' = Popped
      PROVE  /\ Kept(Popped) /\ Len(Popped) \in Nat
             /\ \A d \in 1..Len(Popped) : Popped[d] = stack[d]
  BY <1>7, PoppedStack, KeptBelow DEF Balanced
<1>8. ASSUME ReturnCall PROVE Balanced'
  <2>1. Top.kind # "host" /\ stack' = Popped /\ Top = stack[Len(stack)] /\ Top.kind = "call"
    BY <1>8 DEF ReturnCall, Top
  <2>2. /\ Len(Popped) \in Nat /\ Len(stack) = Len(Popped) + 1
        /\ \A d \in 1..Len(Popped) : Popped[d] = stack[d]
    BY <2>1, PoppedStack
  <2>3. CASE Pending
    <3>1. Encloses(Popped, errorJmp, Len(Popped) + 1)
      BY <2>1, <2>2, ChainAfterPop DEF IInv, HandlerChain, Chained
    <3>2. errorJmp # 0 /\ Popped[errorJmp].status # "ok"
      BY <2>2, <2>3, <3>1 DEF IInv, PendingIsInnermost, Pending, Encloses
    <3>3. Current(Popped, nCcalls', ci')
      BY <2>2, <3>1, <3>2, CurrentInError
    <3> QED
      BY <1>7, <2>1, <3>3 DEF Balanced
  <2>4. CASE ~Pending
    <3> SUFFICES ASSUME NEW d \in 1..Len(Popped), Clean(Popped, d, Len(Popped) + 1)
                 PROVE  /\ nCcalls - 1 = Popped[d].ccalls + (Len(Popped) - d)
                        /\ ci - 1 = Popped[d].ci + (Len(Popped) - d)
      BY <1>7, <1>8, <2>1, <2>4 DEF ReturnCall, Balanced, Current
    <3>1. \A k \in (d + 1)..((Len(stack) + 1) - 1) :
             k = Len(stack) \/ (k \in (d + 1)..((Len(Popped) + 1) - 1) /\ k \in 1..Len(Popped))
      BY <2>2
    <3>2. Clean(stack, d, Len(stack) + 1)
      BY <2>1, <2>2, <3>1 DEF Clean, IsTry
    <3>3. d \in 1..Len(stack) /\ Len(stack) - d = (Len(Popped) - d) + 1 /\ Len(Popped) - d \in Int
      BY <2>2
    <3>4. /\ nCcalls = stack[d].ccalls + (Len(stack) - d)
          /\ ci = stack[d].ci + (Len(stack) - d)
      BY <3>2, <3>3 DEF Balanced, Current
    <3>5. nCcalls \in Int /\ ci \in Int /\ stack[d].ccalls \in Int /\ stack[d].ci \in Int
      <4>1. stack[d] \in Frame
        BY <3>3, ElementOfSeq DEF IInv, TypeOK
      <4> QED
        BY <4>1 DEF Frame, IInv, TypeOK
    <3>6. Popped[d] = stack[d]
      BY <2>2
    <3>7. PICK x \in Int : x = Len(Popped) - d /\ Len(stack) - d = x + 1
      BY <3>3
    <3>8. nCcalls = stack[d].ccalls + (x + 1) /\ ci = stack[d].ci + (x + 1)
      BY ONLY <3>4, <3>7
    <3>9. nCcalls - 1 = stack[d].ccalls + x /\ ci - 1 = stack[d].ci + x
      <4>1. \A n, a \in Int : n = a + (x + 1) => n - 1 = a + x
        BY ONLY <3>7
      <4> QED
        BY ONLY <3>5, <3>8, <4>1
    <3> QED
      BY ONLY <3>6, <3>7, <3>9
  <2> QED
    BY <2>3, <2>4
<1>9. ASSUME ReturnHandler PROVE Balanced'
  <2>1. Top.kind # "host" /\ Top = stack[Len(stack)] /\ Top.kind = "handler"
    BY <1>9 DEF ReturnHandler, Top
  <2>2. /\ Popped \in Seq(Frame) /\ Len(Popped) \in Nat /\ Len(stack) = Len(Popped) + 1
        /\ \A d \in 1..Len(Popped) : Popped[d] = stack[d]
    BY <2>1, PoppedStack
  <2>3. Chained(Popped, errorJmp)
    BY <2>1, <2>2, ChainAfterPop DEF IInv, HandlerChain
  <2>4. CASE Pending
    <3>1. Encloses(Popped, errorJmp, Len(Popped) + 1) /\ stack' = Popped
      BY <1>9, <2>3, <2>4 DEF Chained, ReturnHandler
    <3>2. errorJmp # 0 /\ Popped[errorJmp].status # "ok"
      BY <2>2, <2>4, <3>1 DEF IInv, PendingIsInnermost, Pending, Encloses
    <3>3. Current(Popped, nCcalls', ci')
      BY <2>2, <3>1, <3>2, CurrentInError
    <3> QED
      BY <1>7, <2>1, <3>1, <3>3 DEF Balanced
  <2>5. CASE ~Pending
    BY <1>9, <2>2, <2>3, <2>5, BalancedThrow DEF ReturnHandler, Errors
  <2> QED
    BY <2>4, <2>5
<1>10. ASSUME ReturnTry PROVE Balanced'
  <2>1. Top.kind # "host" /\ stack' = Popped /\ Top = stack[Len(stack)] /\ IsTry(stack, Len(stack))
    BY <1>10 DEF ReturnTry, Top, IsTry
  <2>2. /\ Len(Popped) \in Nat /\ Len(stack) = Len(Popped) + 1
        /\ \A d \in 1..Len(Popped) : Popped[d] = stack[d]
    BY <2>1, PoppedStack
  <2>3. nCcalls' = Top.ccalls /\ ci' = Top.ci
    BY <1>10, TryRestores
  <2> SUFFICES ASSUME NEW d \in 1..Len(Popped), Clean(Popped, d, Len(Popped) + 1)
               PROVE  /\ Top.ccalls = Popped[d].ccalls + (Len(Popped) - d)
                      /\ Top.ci = Popped[d].ci + (Len(Popped) - d)
    BY <1>7, <2>1, <2>3 DEF Balanced, Current
  <2>4. Clean(stack, d, Len(stack))
    <3>1. \A k \in (d + 1)..(Len(stack) - 1) :
             k \in (d + 1)..((Len(Popped) + 1) - 1) /\ k \in 1..Len(Popped)
      BY <2>2
    <3> QED
      BY <2>2, <3>1 DEF Clean, IsTry
  <2>5. d \in 1..Len(stack) /\ Len(stack) \in 1..Len(stack) /\ Len(stack) - 1 - d = Len(Popped) - d
    BY <2>2
  <2> QED
    BY <2>1, <2>2, <2>4, <2>5 DEF Balanced, Kept
<1>11. CASE UNCHANGED vars
  BY <1>11 DEF vars, Balanced
<1> QED
  BY <1>1, <1>2, <1>3, <1>4, <1>5, <1>6, <1>8, <1>9, <1>10, <1>11 DEF Next, Step, Exited

\* A throw from the running function itself leaves the stack as high as it is.
LEMMA ThrowKeepsHeight ==
    ASSUME IInv, NEW e \in Errors, NEW site, Throw(stack, e, site)
    PROVE  Len(stack') = Len(stack)
<1>1. CASE errorJmp = 0
  BY <1>1 DEF Throw
<1>2. CASE errorJmp # 0
  <2> DEFINE f == [stack[errorJmp] EXCEPT !.status = e]
  <2>1. errorJmp \in 1..Len(stack) /\ stack \in Seq(Frame)
    BY <1>2, LenProperties DEF IInv, TypeOK
  <2>2. f \in Frame
    <3>1. stack[errorJmp] \in Frame
      BY <2>1, ElementOfSeq
    <3> QED
      BY <3>1 DEF Frame, Status
  <2>3. stack' = [stack EXCEPT ![errorJmp] = f]
    BY <1>2 DEF Throw
  <2> HIDE DEF f
  <2> QED
    BY <2>1, <2>2, <2>3, ExceptSeq
<1> QED
  BY <1>1, <1>2

\* Where a protected call's activation goes, the call returns.
LEMMA OnlyReturnTry ==
    ASSUME IInv, [Next]_vars, IsTry(stack, Len(stack)), Len(stack') = Len(stack) - 1
    PROVE  ReturnTry
<1>1. Len(stack) \in Nat /\ Top.kind = "try" /\ stack \in Seq(Frame)
  BY LenProperties DEF IInv, TypeOK, Top, IsTry
<1>2. Len(stack') # Len(stack) /\ Len(stack') # Len(stack) + 1
  BY <1>1
<1>3. \A e \in Errors, site \in BOOLEAN : ~Throw(stack, e, site)
  BY <1>2, ThrowKeepsHeight
<1>4. \A kind \in Kinds, site \in BOOLEAN : stack' # Append(stack, Activation(kind, site))
  <2>1. \A kind \in Kinds, site \in BOOLEAN : Activation(kind, site) \in Frame
    BY ActivationIsClean
  <2> QED
    BY <1>1, <1>2, <2>1, AppendProperties
<1>5. \A n : \A site \in BOOLEAN : ~ErrorMsg(n, site)
  BY <1>3, <1>4 DEF ErrorMsg, Errors, Kinds
<1>6. ASSUME NEW errfunc \in Handlers PROVE ~Protect(errfunc)
  <2> DEFINE b == Activation("try", FALSE)
             a == [b EXCEPT !.previous = errorJmp, !.errfunc = errfunc]
  <2>1. b \in Frame /\ errorJmp \in Nat
    <3>1. b \in Frame
      BY ActivationIsClean DEF Kinds
    <3>2. errorJmp \in 0..Len(stack)
      BY DEF IInv, TypeOK
    <3> HIDE DEF b
    <3> QED
      BY <1>1, <3>1, <3>2
  <2> HIDE DEF b
  <2>2. a \in Frame
    BY <2>1 DEF Frame
  <2>3. Len(Append(stack, a)) = Len(stack) + 1
    BY <1>1, <2>2, AppendProperties
  <2>4. stack' # Append(stack, a)
    BY <1>2, <2>3
  <2> QED
    BY <2>4 DEF Protect, b
<1>7. ASSUME NEW site \in Sites PROVE ~Call(site) /\ ~CallPending(site) /\ ~RunError(site)
  <2>1. site \in BOOLEAN
    BY DEF Sites
  <2>2. ~Throw(stack, "LUA_ERRERR", site) /\ stack' # Append(stack, Activation("call", site))
    BY <1>3, <1>4, <2>1 DEF Errors, Kinds
  <2>3. ~Call(site)
    BY <1>5, <2>1, <2>2 DEF Call
  <2>4. ~CallPending(site)
    <3> SUFFICES ASSUME CallPending(site) PROVE FALSE
      OBVIOUS
    <3>1. stack' = stack
      BY <2>2 DEF CallPending
    <3> QED
      BY <1>2, <3>1
  <2> QED
    BY <1>5, <2>1, <2>3, <2>4 DEF RunError
<1>8. ASSUME NEW site \in Sites PROVE ~RaiseAgain(site) /\ ~MemoryError(site)
  <2>1. site \in BOOLEAN
    BY DEF Sites
  <2> QED
    BY <1>3, <2>1 DEF RaiseAgain, MemoryError, Errors
<1>9. ~ReturnCall /\ ~ReturnHandler
  BY <1>1 DEF ReturnCall, ReturnHandler
<1> QED
  BY <1>2, <1>6, <1>7, <1>8, <1>9 DEF Next, Step, Exited, vars

\* luaD_pcall gives its caller back the CallInfo and the count of C calls it was
\* entered with, whatever the sites inside it check, for every limit and depth.
THEOREM ProtectedCallsRestore == Spec => ProtectedCallRestores
<1> DEFINE Restores == \A d \in DOMAIN stack :
                          d = Len(stack) /\ IsTry(stack, d) /\ Len(stack') = d - 1 =>
                              ci' = stack[d].ci /\ nCcalls' = stack[d].ccalls
<1>1. Init => Balanced
  <2> SUFFICES ASSUME Init PROVE Balanced
    OBVIOUS
  <2>1. Len(stack) = 1 /\ stack[1].kind = "host" /\ \A d \in 1..1 : d = 1
    BY DEF Init
  <2> QED
    BY <2>1 DEF Balanced, Kept, Current, Clean, IsTry
<1>2. IInv /\ Balanced /\ [Next]_vars => IInv' /\ Balanced'
  BY StepKeeps, BalancedStep
<1>3. IInv /\ Balanced /\ [Next]_vars => [Restores]_vars
  <2> SUFFICES ASSUME IInv, Balanced, [Next]_vars, NEW d \in DOMAIN stack, d = Len(stack),
                      IsTry(stack, d), Len(stack') = d - 1
               PROVE  ci' = stack[d].ci /\ nCcalls' = stack[d].ccalls
    OBVIOUS
  <2>1. ReturnTry
    BY OnlyReturnTry
  <2> QED
    BY <2>1, TryRestores DEF Top
<1> HIDE DEF Restores
<1>4. [][Restores]_vars => ProtectedCallRestores
  BY DEF ProtectedCallRestores, Restores
<1> QED
  BY InitEstablishes, <1>1, <1>2, <1>3, <1>4, PTL DEF Spec

-----------------------------------------------------------------------------
(* With checked sites, returning one by one is a long jump                  *)

\* A message handler runs inside a protected call: it is that call's.
HandlerHasTry ==
    \A d \in 1..Len(stack) : stack[d].kind = "handler" => \E h \in 1..(d - 1) : IsTry(stack, h)

\* What a step does to the stack: it goes down, or one activation comes.
Lower(t, s) == Len(t) <= Len(s) /\ \A d \in 1..Len(t) : t[d].kind = s[d].kind
Higher(t, s) ==
    /\ Len(t) = Len(s) + 1 /\ \A d \in 1..Len(s) : t[d] = s[d]
    /\ t[Len(t)].kind = "handler" => errorJmp # 0

\* An error brings no activation.
LEMMA ThrowLowers ==
    ASSUME NEW s \in Seq(Frame), Len(s) \in Nat, errorJmp \in 0..Len(s),
           NEW e \in Errors, NEW site, Throw(s, e, site)
    PROVE  /\ Len(stack') = Len(s)
           /\ \A d \in 1..Len(s) : stack'[d].kind = s[d].kind /\ stack'[d].errfunc = s[d].errfunc
<1>1. CASE errorJmp = 0
  BY <1>1 DEF Throw
<1>2. CASE errorJmp # 0
  <2> DEFINE f == [s[errorJmp] EXCEPT !.status = e]
  <2>1. errorJmp \in 1..Len(s)
    BY <1>2
  <2>2. s[errorJmp] \in Frame
    BY <2>1, ElementOfSeq
  <2>3. f \in Frame /\ f.kind = s[errorJmp].kind /\ f.errfunc = s[errorJmp].errfunc
    BY <2>2 DEF Frame, Status
  <2>4. stack' = [s EXCEPT ![errorJmp] = f]
    BY <1>2 DEF Throw
  <2> HIDE DEF f
  <2>5. /\ Len(stack') = Len(s)
        /\ \A j \in 1..Len(s) : stack'[j] = IF j = errorJmp THEN f ELSE s[j]
    BY <2>1, <2>3, <2>4, ExceptSeq
  <2> QED
    BY <2>3, <2>5
<1> QED
  BY <1>1, <1>2

\* An activation comes.
LEMMA EnterHigher ==
    ASSUME IInv, NEW a \in Frame, stack' = Append(stack, a), a.kind = "handler" => errorJmp # 0
    PROVE  Higher(stack', stack) /\ stack'[Len(stack) + 1] = a
<1>1. /\ Len(stack') = Len(stack) + 1
      /\ \A i \in 1..Len(stack) : stack'[i] = stack[i]
      /\ stack'[Len(stack) + 1] = a
  BY AppendProperties DEF IInv, TypeOK
<1> QED
  BY <1>1 DEF Higher

\* Every step is one or the other.
LEMMA StackStep ==
    ASSUME IInv, [Next]_vars
    PROVE  Lower(stack', stack) \/ Higher(stack', stack)
<1>0. stack \in Seq(Frame) /\ Len(stack) \in Nat /\ errorJmp \in 0..Len(stack)
  BY LenProperties DEF IInv, TypeOK
<1>1. ASSUME NEW e \in Errors, NEW site, Throw(stack, e, site) PROVE Lower(stack', stack)
  BY <1>0, <1>1, ThrowLowers DEF Lower
<1>2. ASSUME NEW n, NEW site \in BOOLEAN, ErrorMsg(n, site)
      PROVE  Lower(stack', stack) \/ Higher(stack', stack)
  <2>1. CASE \E e \in Errors : Throw(stack, e, site)
    BY <1>1, <2>1
  <2>2. CASE ErrFunc = "function" /\ stack' = Append(stack, Activation("handler", site))
    <3>1. errorJmp # 0
      BY <2>2 DEF ErrFunc
    <3> QED
      BY <2>2, <3>1, EnterHigher, ActivationIsClean DEF Kinds
  <2> QED
    BY <1>2, <2>1, <2>2 DEF ErrorMsg, Errors
<1>3. ASSUME stack' = stack PROVE Lower(stack', stack)
  BY <1>0, <1>3 DEF Lower
<1>4. ASSUME Top.kind # "host", stack' = Popped PROVE Lower(stack', stack)
  <2>1. /\ Len(Popped) \in Nat /\ Len(stack) = Len(Popped) + 1
        /\ \A d \in 1..Len(Popped) : Popped[d] = stack[d]
    BY <1>4, PoppedStack
  <2> QED
    BY <1>4, <2>1 DEF Lower
<1>5. ASSUME NEW site \in Sites, Call(site) PROVE Lower(stack', stack) \/ Higher(stack', stack)
  <2>1. site \in BOOLEAN
    BY DEF Sites
  <2>2. CASE ErrorMsg(nCcalls + 1, site)
    BY <1>2, <2>1, <2>2
  <2>3. CASE Throw(stack, "LUA_ERRERR", site)
    BY <1>1, <2>3 DEF Errors
  <2>4. CASE stack' = Append(stack, Activation("call", site))
    BY <2>1, <2>4, EnterHigher, ActivationIsClean DEF Kinds
  <2> QED
    BY <1>5, <2>2, <2>3, <2>4 DEF Call
<1>6. ASSUME NEW site \in Sites, CallPending(site) PROVE Lower(stack', stack)
  BY <1>1, <1>3, <1>6 DEF CallPending, Errors
<1>7. ASSUME NEW site \in Sites, RunError(site) PROVE Lower(stack', stack) \/ Higher(stack', stack)
  BY <1>2, <1>7 DEF RunError, Sites
<1>8. ASSUME NEW site \in Sites, RaiseAgain(site) \/ MemoryError(site) PROVE Lower(stack', stack)
  <2>1. \E e \in Errors : Throw(stack, e, site)
    BY <1>8 DEF RaiseAgain, MemoryError, Errors
  <2> QED
    BY <1>1, <2>1
<1>9. ASSUME NEW errfunc \in Handlers, Protect(errfunc) PROVE Higher(stack', stack)
  <2> DEFINE b == Activation("try", FALSE)
             a == [b EXCEPT !.previous = errorJmp, !.errfunc = errfunc]
  <2>1. stack' = Append(stack, a)
    BY <1>9 DEF Protect
  <2>2. b \in Frame /\ b.kind = "try"
    BY ActivationIsClean DEF Kinds
  <2> HIDE DEF b
  <2>3. errorJmp \in Nat
    BY <1>0
  <2>4. a \in Frame /\ a.kind = "try"
    BY <2>2, <2>3 DEF Frame
  <2> HIDE DEF a
  <2> QED
    BY <2>1, <2>4, EnterHigher
<1>10. ASSUME ReturnCall \/ ReturnTry PROVE Lower(stack', stack)
  BY <1>4, <1>10 DEF ReturnCall, ReturnTry
<1>11. ASSUME ReturnHandler PROVE Lower(stack', stack)
  <2>1. Top.kind = "handler"
    BY <1>11 DEF ReturnHandler
  <2>2. CASE stack' = Popped
    BY <1>4, <2>1, <2>2
  <2>3. CASE Throw(Popped, "LUA_ERRRUN", Top.site)
    <3>1. /\ Popped \in Seq(Frame) /\ Len(Popped) \in Nat /\ Len(stack) = Len(Popped) + 1
          /\ \A d \in 1..Len(Popped) : Popped[d] = stack[d]
      BY <2>1, PoppedStack
    <3>2. Chained(Popped, errorJmp)
      BY <2>1, <3>1, ChainAfterPop DEF IInv, HandlerChain, Top
    <3>3. errorJmp \in 0..Len(Popped)
      BY <3>1, <3>2 DEF Chained, Encloses
    <3>4. Len(stack') = Len(Popped) /\ \A d \in 1..Len(Popped) : stack'[d].kind = Popped[d].kind
      BY <2>3, <3>1, <3>3, ThrowLowers DEF Errors
    <3> QED
      BY <3>1, <3>4 DEF Lower
  <2> QED
    BY <1>11, <2>2, <2>3 DEF ReturnHandler
<1> QED
  BY <1>3, <1>5, <1>6, <1>7, <1>8, <1>9, <1>10, <1>11 DEF Next, Step, Exited, vars

\* No step leaves a message handler without its protected call.
LEMMA HandlerHasTryStep ==
    ASSUME IInv, HandlerHasTry, [Next]_vars
    PROVE  HandlerHasTry'
<1>0. Len(stack) \in Nat /\ Len(stack') \in Nat
  BY StepKeeps, LenProperties DEF IInv, TypeOK
<1> SUFFICES ASSUME NEW d \in 1..Len(stack'), stack'[d].kind = "handler"
             PROVE  \E h \in 1..(d - 1) : stack'[h].kind = "try"
  BY DEF HandlerHasTry, IsTry
<1>1. CASE Lower(stack', stack)
  <2>1. d \in 1..Len(stack) /\ stack[d].kind = "handler"
    BY <1>0, <1>1 DEF Lower
  <2>2. PICK h \in 1..(d - 1) : stack[h].kind = "try"
    BY <2>1 DEF HandlerHasTry, IsTry
  <2>3. h \in 1..Len(stack')
    BY <1>0
  <2> QED
    BY <1>1, <2>2, <2>3 DEF Lower
<1>2. CASE Higher(stack', stack) /\ d \in 1..Len(stack)
  <2>1. PICK h \in 1..(d - 1) : stack[h].kind = "try"
    BY <1>2 DEF HandlerHasTry, IsTry, Higher
  <2>2. h \in 1..Len(stack)
    BY <1>0, <1>2
  <2> QED
    BY <1>2, <2>1, <2>2 DEF Higher
<1>3. CASE Higher(stack', stack) /\ d = Len(stack')
  <2>1. errorJmp # 0 /\ Len(stack') = Len(stack) + 1
    BY <1>3 DEF Higher
  <2>2. errorJmp \in 0..Len(stack) /\ (errorJmp # 0 => IsTry(stack, errorJmp))
    BY DEF IInv, TypeOK, HandlerChain, Chained, Encloses
  <2>3. errorJmp \in 1..Len(stack) /\ errorJmp \in 1..(d - 1) /\ stack[errorJmp].kind = "try"
    BY <1>0, <1>3, <2>1, <2>2 DEF IsTry
  <2> QED
    BY <1>3, <2>3 DEF Higher
<1>4. Higher(stack', stack) => d \in 1..Len(stack) \/ d = Len(stack')
  BY <1>0 DEF Higher
<1> QED
  BY <1>1, <1>2, <1>3, <1>4, StackStep

\* The C stack as the long jump sees it.
Brief == [kind : Kinds, errfunc : Handlers]
View(s, n) == [d \in 1..n |-> [kind |-> s[d].kind, errfunc |-> s[d].errfunc]]
Seen == IF Pending THEN errorJmp ELSE Len(stack)

\* A view lists the kinds and handlers of the first n activations.
LEMMA ViewIs ==
    ASSUME NEW s \in Seq(Frame), NEW n \in 0..Len(s)
    PROVE  /\ View(s, n) \in Seq(Brief) /\ Len(View(s, n)) = n /\ DOMAIN View(s, n) = 1..n
           /\ \A d \in 1..n : View(s, n)[d] = [kind |-> s[d].kind, errfunc |-> s[d].errfunc]
<1>1. n \in Nat /\ \A d \in 1..n : d \in 1..Len(s)
  BY LenProperties
<1>2. \A d \in 1..n : [kind |-> s[d].kind, errfunc |-> s[d].errfunc] \in Brief
  <2>1. \A d \in 1..n : s[d] \in Frame
    BY <1>1, ElementOfSeq
  <2> QED
    BY <2>1 DEF Frame, Brief
<1>3. View(s, n) \in [1..n -> Brief]
  BY <1>2 DEF View
<1>4. View(s, n) \in Seq(Brief)
  BY <1>1, <1>3, SeqDef
<1>5. DOMAIN View(s, n) = 1..n
  BY DEF View
<1>6. Len(View(s, n)) = n
  BY <1>1, <1>4, <1>5, LenProperties
<1> QED
  BY <1>4, <1>5, <1>6 DEF View

\* Nothing else is seen.
LEMMA ViewSame ==
    ASSUME NEW s \in Seq(Frame), NEW t \in Seq(Frame), NEW n \in 0..Len(s), n \in 0..Len(t),
           \A d \in 1..n : t[d].kind = s[d].kind /\ t[d].errfunc = s[d].errfunc
    PROVE  View(t, n) = View(s, n)
BY DEF View

\* A view of fewer activations is a shorter view.
LEMMA ViewCut ==
    ASSUME NEW s \in Seq(Frame), NEW n \in 0..Len(s), NEW m \in 0..n
    PROVE  SubSeq(View(s, n), 1, m) = View(s, m)
<1>1. Len(s) \in Nat /\ n \in Nat /\ m \in Nat /\ m \in 0..Len(s)
  BY LenProperties
<1>2. /\ View(s, n) \in Seq(Brief) /\ Len(View(s, n)) = n
      /\ View(s, m) \in Seq(Brief) /\ Len(View(s, m)) = m
      /\ \A d \in 1..n : View(s, n)[d] = [kind |-> s[d].kind, errfunc |-> s[d].errfunc]
      /\ \A d \in 1..m : View(s, m)[d] = [kind |-> s[d].kind, errfunc |-> s[d].errfunc]
  BY <1>1, ViewIs
<1>3. PICK v : v = View(s, n)
  OBVIOUS
<1>4. 1 \in Int /\ m \in Int /\ \A i \in 1..m : v[i] \in Brief
  <2>1. \A i \in 1..m : i \in 1..n
    BY <1>1
  <2>2. \A i \in 1..n : v[i] \in Brief
    BY <1>2, <1>3, ElementOfSeq
  <2> QED
    BY <1>1, <2>1, <2>2
<1>5. /\ SubSeq(v, 1, m) \in Seq(Brief) /\ Len(SubSeq(v, 1, m)) = IF 1 <= m THEN m - 1 + 1 ELSE 0
      /\ \A i \in 1..m - 1 + 1 : SubSeq(v, 1, m)[i] = v[1 + i - 1]
  BY <1>4, SubSeqProperties
<1>6. Len(SubSeq(v, 1, m)) = m /\ \A i \in 1..m : SubSeq(v, 1, m)[i] = v[i]
  BY <1>1, <1>5
<1>7. \A i \in 1..m : i \in 1..n
  BY <1>1
<1> QED
  BY <1>2, <1>3, <1>5, <1>6, <1>7, SeqEqual

\* An activation more is seen at the end.
LEMMA ViewPush ==
    ASSUME NEW s \in Seq(Frame), NEW t \in Seq(Frame), Len(t) = Len(s) + 1,
           \A d \in 1..Len(s) : t[d] = s[d], NEW a, t[Len(s) + 1] = a
    PROVE  View(t, Len(t)) = Append(View(s, Len(s)), [kind |-> a.kind, errfunc |-> a.errfunc])
<1> DEFINE b == [kind |-> a.kind, errfunc |-> a.errfunc]
<1>1. Len(s) \in Nat /\ Len(t) \in Nat /\ Len(s) \in 0..Len(s) /\ Len(t) \in 0..Len(t)
  BY LenProperties
<1>2. /\ View(s, Len(s)) \in Seq(Brief) /\ Len(View(s, Len(s))) = Len(s)
      /\ View(t, Len(t)) \in Seq(Brief) /\ Len(View(t, Len(t))) = Len(t)
      /\ \A d \in 1..Len(s) : View(s, Len(s))[d] = [kind |-> s[d].kind, errfunc |-> s[d].errfunc]
      /\ \A d \in 1..Len(t) : View(t, Len(t))[d] = [kind |-> t[d].kind, errfunc |-> t[d].errfunc]
  BY <1>1, ViewIs
<1>3. b \in Brief
  <2>1. t[Len(t)] \in Frame /\ a = t[Len(t)]
    BY <1>1, ElementOfSeq
  <2> QED
    BY <2>1 DEF Frame, Brief
<1>4. PICK v \in Seq(Brief) : v = View(s, Len(s))
  BY <1>2
<1>5. /\ Append(v, b) \in Seq(Brief) /\ Len(Append(v, b)) = Len(s) + 1
      /\ \A i \in 1..Len(s) : Append(v, b)[i] = v[i]
      /\ Append(v, b)[Len(s) + 1] = b
  <2> HIDE DEF b
  <2> QED
    BY <1>2, <1>3, <1>4, AppendProperties
<1>6. \A i \in 1..Len(t) : i = Len(s) + 1 \/ i \in 1..Len(s)
  BY <1>1
<1>7. \A i \in 1..Len(t) : View(t, Len(t))[i] = Append(v, b)[i]
  <2> TAKE i \in 1..Len(t)
  <2>1. CASE i = Len(s) + 1
    <3>1. View(t, Len(t))[i] = [kind |-> t[i].kind, errfunc |-> t[i].errfunc] /\ t[i] = a
      BY <1>2, <2>1
    <3> QED
      BY <1>5, <2>1, <3>1
  <2>2. CASE i \in 1..Len(s)
    <3>1. View(t, Len(t))[i] = [kind |-> t[i].kind, errfunc |-> t[i].errfunc] /\ t[i] = s[i]
      BY <1>2, <2>2
    <3>2. v[i] = [kind |-> s[i].kind, errfunc |-> s[i].errfunc]
      BY <1>2, <1>4, <2>2
    <3>3. Append(v, b)[i] = v[i]
      BY <1>5, <2>2
    <3> QED
      BY <3>1, <3>2, <3>3
  <2> QED
    BY <1>6, <2>1, <2>2
<1> HIDE DEF b
<1>8. View(t, Len(t)) = Append(v, b)
  BY <1>2, <1>5, <1>7, SeqEqual
<1> QED
  BY <1>4, <1>8 DEF b

\* The refinement maps to what is seen.
LEMMA CallsAreSeen == AbstractCalls = View(stack, Seen)
  BY DEF AbstractCalls, View, Seen

\* What the long jump takes for the innermost protected call.
LEMMA InnermostIs ==
    ASSUME IInv, ~Pending
    PROVE  \A h : LongJump!IsInnermost(h) <=> h = errorJmp /\ h # 0
<1>1. Len(stack) \in Nat /\ stack \in Seq(Frame)
  BY LenProperties DEF IInv, TypeOK
<1>2. AbstractCalls = View(stack, Len(stack))
  BY CallsAreSeen DEF Seen
<1>3. /\ DOMAIN AbstractCalls = 1..Len(stack)
      /\ \A d \in 1..Len(stack) : AbstractCalls[d].kind = stack[d].kind
  <2>1. Len(stack) \in 0..Len(stack)
    BY <1>1
  <2>2. /\ DOMAIN View(stack, Len(stack)) = 1..Len(stack)
        /\ \A d \in 1..Len(stack) :
              View(stack, Len(stack))[d] = [kind |-> stack[d].kind, errfunc |-> stack[d].errfunc]
    BY <1>1, <2>1, ViewIs
  <2> QED
    BY <1>2, <2>2
<1>4. /\ errorJmp \in 0..Len(stack) /\ (errorJmp # 0 => stack[errorJmp].kind = "try")
      /\ \A k \in (errorJmp + 1)..Len(stack) : stack[k].kind # "try"
  BY <1>1 DEF IInv, HandlerChain, Chained, Encloses, IsTry
<1> SUFFICES ASSUME NEW h PROVE LongJump!IsInnermost(h) <=> h = errorJmp /\ h # 0
  OBVIOUS
<1>5. ASSUME LongJump!IsInnermost(h) PROVE h = errorJmp /\ h # 0
  <2>1. h \in 1..Len(stack) /\ stack[h].kind = "try"
        /\ \A d \in 1..Len(stack) : d > h => stack[d].kind # "try"
    BY <1>3, <1>5 DEF LongJump!IsInnermost
  <2>2. ~(h \in (errorJmp + 1)..Len(stack))
    BY <1>4, <2>1
  <2>3. h <= errorJmp /\ errorJmp \in 1..Len(stack)
    BY <1>1, <1>4, <2>1, <2>2
  <2>4. ~(errorJmp > h)
    BY <1>4, <2>1, <2>3
  <2> QED
    BY <1>1, <2>1, <2>3, <2>4
<1>6. ASSUME h = errorJmp, h # 0 PROVE LongJump!IsInnermost(h)
  <2>1. h \in 1..Len(stack) /\ stack[h].kind = "try"
    BY <1>1, <1>4, <1>6
  <2>2. \A d \in 1..Len(stack) : d > h => d \in (errorJmp + 1)..Len(stack)
    BY <1>1, <1>4, <1>6
  <2> QED
    BY <1>3, <1>4, <2>1, <2>2 DEF LongJump!IsInnermost
<1> QED
  BY <1>5, <1>6

\* A throw is a long jump to the innermost protected call, or the end of the program.
LEMMA ThrowJumps ==
    ASSUME IInv, ~Pending, pc # "exit", NEW s \in Seq(Frame), Chained(s, errorJmp),
           Len(s) <= Len(stack), \A d \in 1..Len(s) : s[d] = stack[d],
           s = stack \/ errorJmp # 0,
           NEW e \in Errors, Throw(s, e, TRUE), errorJmp' = errorJmp
    PROVE  LongJump!Raise(e) \/ LongJump!Abort
<1>1. /\ Len(s) \in Nat /\ Len(stack) \in Nat /\ stack \in Seq(Frame) /\ errorState = "ok"
      /\ stack' \in Seq(Frame)
  <2>1. stack \in Seq(Frame)
    BY DEF IInv, TypeOK
  <2>2. errorJmp \in 0..Len(s) /\ Len(s) \in Nat
    BY LenProperties DEF Chained, Encloses
  <2>3. stack' \in Seq(Frame)
    <3>1. CASE errorJmp = 0
      BY <3>1 DEF Throw
    <3>2. CASE errorJmp # 0
      <4> DEFINE f == [s[errorJmp] EXCEPT !.status = e]
      <4>1. errorJmp \in 1..Len(s)
        BY <2>2, <3>2
      <4>2. s[errorJmp] \in Frame
        BY <4>1, ElementOfSeq
      <4>3. f \in Frame
        BY <4>2 DEF Frame, Status
      <4>4. stack' = [s EXCEPT ![errorJmp] = f]
        BY <3>2 DEF Throw
      <4> HIDE DEF f
      <4> QED
        BY <4>1, <4>3, <4>4, ExceptSeq
    <3> QED
      BY <3>1, <3>2
  <2> QED
    BY <2>1, <2>2, <2>3, LenProperties DEF Pending
<1>2. errorJmp \in 0..Len(s)
  BY <1>1 DEF Chained, Encloses
<1>3. AbstractCalls = View(stack, Len(stack))
  BY CallsAreSeen DEF Seen
<1>4. LongJump!Running
  BY <1>1 DEF LongJump!Running
<1>5. CASE errorJmp = 0
  <2>1. stack' = stack /\ pc' = "exit" /\ errorState' = errorState
    BY <1>5 DEF Throw
  <2>2. AbstractCalls' = AbstractCalls
    BY <2>1 DEF AbstractCalls, Pending
  <2>3. \A h : ~LongJump!IsInnermost(h)
    BY <1>5, InnermostIs
  <2> QED
    BY <1>4, <2>1, <2>2, <2>3 DEF LongJump!Abort
<1>6. CASE errorJmp # 0
  <2>1. errorState' = e /\ pc' = "unwind"
    BY <1>6 DEF Throw, After
  <2>2. Pending'
    BY <2>1 DEF Pending, Errors
  <2>3. AbstractCalls' = View(stack', errorJmp)
    BY <2>2 DEF AbstractCalls, View
  <2>4. /\ Len(stack') = Len(s)
        /\ \A d \in 1..Len(s) : stack'[d].kind = s[d].kind /\ stack'[d].errfunc = s[d].errfunc
    BY <1>1, <1>2, ThrowLowers
  <2>5. View(stack', errorJmp) = View(stack, errorJmp)
    <3>1. errorJmp \in 0..Len(stack) /\ errorJmp \in 0..Len(stack')
      BY <1>1, <1>2, <2>4
    <3>2. \A d \in 1..errorJmp :
             stack'[d].kind = stack[d].kind /\ stack'[d].errfunc = stack[d].errfunc
      BY <1>1, <1>2, <2>4
    <3> QED
      BY <1>1, <3>1, <3>2, ViewSame
  <2>6. SubSeq(View(stack, Len(stack)), 1, errorJmp) = View(stack, errorJmp)
    <3>1. Len(stack) \in 0..Len(stack) /\ errorJmp \in 0..Len(stack)
      BY <1>1, <1>2
    <3> QED
      BY <1>1, <3>1, ViewCut
  <2>7. AbstractCalls' = SubSeq(AbstractCalls, 1, errorJmp)
    BY <1>3, <2>3, <2>5, <2>6
  <2>8. LongJump!IsInnermost(errorJmp)
    BY <1>6, InnermostIs
  <2>9. errorJmp \in DOMAIN AbstractCalls
    BY <2>8 DEF LongJump!IsInnermost
  <2>10. UNCHANGED (pc = "exit")
    BY <2>1
  <2> QED
    BY <1>4, <2>1, <2>7, <2>8, <2>9, <2>10 DEF LongJump!Raise
<1> QED
  BY <1>5, <1>6

\* An activation comes.
LEMMA EnterJumps ==
    ASSUME IInv, ~Pending, pc = "run", pc' = "run", errorState' = "ok",
           NEW a \in Frame, stack' = Append(stack, a)
    PROVE  LongJump!Enter(a.kind, a.errfunc)
<1>1. stack \in Seq(Frame) /\ errorState = "ok"
  BY DEF IInv, TypeOK, Pending
<1>2. PICK t : t = stack'
  OBVIOUS
<1>3. /\ t \in Seq(Frame) /\ Len(t) = Len(stack) + 1 /\ t[Len(stack) + 1] = a
      /\ \A i \in 1..Len(stack) : t[i] = stack[i]
  BY <1>1, <1>2, AppendProperties
<1>4. View(t, Len(t)) = Append(View(stack, Len(stack)), [kind |-> a.kind, errfunc |-> a.errfunc])
  BY <1>1, <1>3, ViewPush
<1>5. AbstractCalls = View(stack, Len(stack))
  BY CallsAreSeen DEF Seen
<1>6. AbstractCalls' = View(t, Len(t))
  BY <1>2 DEF AbstractCalls, View, Pending
<1> QED
  BY <1>1, <1>4, <1>5, <1>6 DEF LongJump!Enter, LongJump!Running

\* luaG_errormsg asks the message handler, aborts, or raises the error.
LEMMA ErrorMsgJumps ==
    ASSUME IInv, ~Pending, pc = "run", NEW n, ErrorMsg(n, TRUE)
    PROVE  \/ LongJump!Ask \/ LongJump!Abort
           \/ \E e \in Errors : LongJump!Raise(e)
<1>1. CASE \E e \in Errors : Throw(stack, e, TRUE)
  <2>1. stack \in Seq(Frame) /\ Chained(stack, errorJmp) /\ Len(stack) \in Nat
    BY LenProperties DEF IInv, TypeOK, HandlerChain
  <2>2. errorJmp' = errorJmp
    BY DEF ErrorMsg
  <2>3. PICK e \in Errors : Throw(stack, e, TRUE)
    BY <1>1
  <2>4. Len(stack) <= Len(stack) /\ \A d \in 1..Len(stack) : stack[d] = stack[d]
    BY <2>1
  <2>5. LongJump!Raise(e) \/ LongJump!Abort
    BY <2>1, <2>2, <2>3, <2>4, ThrowJumps
  <2> QED
    BY <2>5
<1>2. CASE /\ ErrFunc = "function" /\ stack' = Append(stack, Activation("handler", TRUE))
           /\ pc' = "run" /\ UNCHANGED errorState
  <2>1. /\ Activation("handler", TRUE) \in Frame /\ Activation("handler", TRUE).kind = "handler"
        /\ Activation("handler", TRUE).errfunc = "none"
    <3>1. Activation("handler", TRUE) \in Frame /\ Activation("handler", TRUE).kind = "handler"
      BY ActivationIsClean DEF Kinds
    <3> QED
      BY <3>1 DEF Activation
  <2>2. LongJump!Enter("handler", "none")
    BY <1>2, <2>1, EnterJumps DEF Pending
  <2>3. errorJmp # 0 /\ stack[errorJmp].errfunc = "function"
    BY <1>2 DEF ErrFunc
  <2>4. LongJump!IsInnermost(errorJmp)
    BY <2>3, InnermostIs
  <2>5. errorJmp \in DOMAIN AbstractCalls /\ AbstractCalls[errorJmp].errfunc = "function"
    <3>1. AbstractCalls = View(stack, Len(stack))
      BY CallsAreSeen DEF Seen
    <3>2. errorJmp \in 1..Len(stack) /\ stack \in Seq(Frame) /\ Len(stack) \in Nat
      BY <2>3, LenProperties DEF IInv, TypeOK
    <3>3. DOMAIN View(stack, Len(stack)) = 1..Len(stack)
      BY DEF View
    <3>4. View(stack, Len(stack))[errorJmp]
            = [kind |-> stack[errorJmp].kind, errfunc |-> stack[errorJmp].errfunc]
      BY <3>2 DEF View
    <3> QED
      BY <2>3, <3>1, <3>2, <3>3, <3>4
  <2> QED
    BY <2>2, <2>4, <2>5 DEF LongJump!Ask
<1> QED
  BY <1>1, <1>2 DEF ErrorMsg, Errors

\* An activation goes while no error is pending.
LEMMA LeaveJumps ==
    ASSUME IInv, ~Pending, pc = "run", pc' = "run", errorState' = "ok", Top.kind \in {"call", "try"},
           stack' = Popped
    PROVE  LongJump!Leave
<1>1. /\ Popped \in Seq(Frame) /\ Len(stack) \in Nat /\ Len(Popped) \in Nat
      /\ Len(stack) = Len(Popped) + 1 /\ stack \in Seq(Frame) /\ errorState = "ok"
      /\ \A d \in 1..Len(Popped) : Popped[d] = stack[d]
  BY PoppedStack DEF IInv, TypeOK, Pending
<1>2. AbstractCalls = View(stack, Len(stack))
  BY CallsAreSeen DEF Seen
<1>3. AbstractCalls' = View(Popped, Len(Popped))
  BY DEF AbstractCalls, View, Pending
<1>4. /\ Len(stack) \in 0..Len(stack) /\ Len(Popped) \in 0..Len(stack)
      /\ Len(Popped) \in 0..Len(Popped) /\ Len(stack) \in 1..Len(stack)
      /\ Len(stack) - 1 = Len(Popped)
  BY <1>1
<1>5. View(Popped, Len(Popped)) = View(stack, Len(Popped))
  BY <1>1, <1>4, ViewSame
<1>6. Len(AbstractCalls) = Len(stack) /\ AbstractCalls[Len(stack)].kind = Top.kind
  <2>1. /\ Len(View(stack, Len(stack))) = Len(stack)
        /\ \A d \in 1..Len(stack) :
              View(stack, Len(stack))[d] = [kind |-> stack[d].kind, errfunc |-> stack[d].errfunc]
    BY <1>1, <1>4, ViewIs
  <2>2. PICK v : v = View(stack, Len(stack))
    OBVIOUS
  <2>3. v[Len(stack)] = [kind |-> stack[Len(stack)].kind, errfunc |-> stack[Len(stack)].errfunc]
    BY <1>4, <2>1, <2>2
  <2>4. v[Len(stack)].kind = stack[Len(stack)].kind
    BY ONLY <2>3
  <2> QED
    BY <1>2, <2>1, <2>2, <2>4 DEF Top
<1>7. SubSeq(View(stack, Len(stack)), 1, Len(Popped)) = View(stack, Len(Popped))
  <2>1. Len(Popped) \in 0..Len(stack)
    BY <1>4
  <2> QED
    BY <1>1, <1>4, ViewCut
<1>8. LongJump!Popped = AbstractCalls'
  BY <1>2, <1>3, <1>4, <1>5, <1>6, <1>7 DEF LongJump!Popped
<1>9. LongJump!Last.kind \in {"call", "try"}
  BY <1>6 DEF LongJump!Last
<1> QED
  BY <1>1, <1>8, <1>9 DEF LongJump!Leave, LongJump!Running

\* The protected call that an error was on its way to returns.
LEMMA CatchJumps ==
    ASSUME IInv, Pending, ReturnTry
    PROVE  LongJump!Catch
<1>1. /\ Popped \in Seq(Frame) /\ Len(stack) \in Nat /\ Len(Popped) \in Nat
      /\ Len(stack) = Len(Popped) + 1 /\ stack \in Seq(Frame)
      /\ \A d \in 1..Len(Popped) : Popped[d] = stack[d]
  BY PoppedStack DEF IInv, TypeOK, ReturnTry
<1>2. errorJmp = Len(stack)
  BY <1>1, ChainAfterPop DEF ReturnTry, IInv, HandlerChain, Top
<1>3. AbstractCalls = View(stack, Len(stack))
  BY <1>2, CallsAreSeen DEF Seen
<1>4. stack' = Popped /\ errorState' = "ok" /\ pc' = "run" /\ pc # "exit"
  BY DEF ReturnTry
<1>5. AbstractCalls' = View(Popped, Len(Popped))
  BY <1>4 DEF AbstractCalls, View, Pending
<1>6. /\ Len(stack) \in 0..Len(stack) /\ Len(Popped) \in 0..Len(stack)
      /\ Len(Popped) \in 0..Len(Popped) /\ Len(stack) - 1 = Len(Popped)
  BY <1>1
<1>7. View(Popped, Len(Popped)) = View(stack, Len(Popped))
  BY <1>1, <1>6, ViewSame
<1>8. Len(AbstractCalls) = Len(stack)
  BY <1>1, <1>3, <1>6, ViewIs
<1>9. SubSeq(View(stack, Len(stack)), 1, Len(Popped)) = View(stack, Len(Popped))
  BY <1>1, <1>6, ViewCut
<1>10. LongJump!Popped = AbstractCalls'
  BY <1>3, <1>5, <1>6, <1>7, <1>8, <1>9 DEF LongJump!Popped
<1>11. UNCHANGED (pc = "exit")
  BY <1>4
<1> QED
  BY <1>4, <1>10, <1>11 DEF LongJump!Catch, Pending

\* An activation returns on the way to the protected call: it was gone already.
LEMMA UnwindStutters ==
    ASSUME IInv, Pending, Top.kind \in {"call", "handler"}, stack' = Popped,
           UNCHANGED <<errorState, errorJmp>>, pc # "exit", pc' # "exit"
    PROVE  UNCHANGED LongJump!vars
<1>1. /\ Popped \in Seq(Frame) /\ Len(stack) \in Nat /\ Len(Popped) \in Nat
      /\ Len(stack) = Len(Popped) + 1 /\ stack \in Seq(Frame)
      /\ \A d \in 1..Len(Popped) : Popped[d] = stack[d]
  BY PoppedStack DEF IInv, TypeOK
<1>2. errorJmp \in 0..Len(Popped)
  <2>1. Chained(Popped, errorJmp)
    BY <1>1, ChainAfterPop DEF IInv, HandlerChain, Top
  <2> QED
    BY <1>1, <2>1 DEF Chained, Encloses
<1>3. AbstractCalls = View(stack, errorJmp)
  BY CallsAreSeen DEF Seen
<1>4. AbstractCalls' = View(Popped, errorJmp)
  BY DEF AbstractCalls, View, Pending
<1>5. View(Popped, errorJmp) = View(stack, errorJmp)
  <2>1. errorJmp \in 0..Len(stack) /\ \A d \in 1..errorJmp : Popped[d] = stack[d]
    BY <1>1, <1>2
  <2> QED
    BY <1>1, <1>2, <2>1, ViewSame
<1> QED
  BY <1>3, <1>4, <1>5 DEF LongJump!vars

\* Every step is a step of the long jump, or none.
LEMMA StepJumps ==
    ASSUME checked, IInv, Prompt, HandlerHasTry, [Next]_vars
    PROVE  [LongJump!Next]_(LongJump!vars)
<1> USE DEF Sites
<1>0. stack \in Seq(Frame) /\ Len(stack) \in Nat /\ Chained(stack, errorJmp)
  BY LenProperties DEF IInv, TypeOK, HandlerChain
<1>1. pc = "run" => ~Pending /\ errorState = "ok"
  BY DEF Prompt, Pending
<1>2. ASSUME NEW e \in Errors, pc = "run", Throw(stack, e, TRUE), errorJmp' = errorJmp
      PROVE  LongJump!Next
  <2>1. LongJump!Raise(e) \/ LongJump!Abort
    <3>1. Len(stack) <= Len(stack) /\ pc # "exit" /\ \A d \in 1..Len(stack) : stack[d] = stack[d]
      BY <1>0, <1>2
    <3> QED
      BY <1>0, <1>1, <1>2, <3>1, ThrowJumps
  <2> QED
    BY <2>1 DEF LongJump!Next
<1>3. ASSUME NEW n, pc = "run", ErrorMsg(n, TRUE) PROVE LongJump!Next
  <2>1. LongJump!Ask \/ LongJump!Abort \/ \E e \in Errors : LongJump!Raise(e)
    BY <1>1, <1>3, ErrorMsgJumps
  <2> QED
    BY <2>1 DEF LongJump!Next
<1>4. ASSUME NEW site \in Sites, Call(site) PROVE LongJump!Next
  <2>1. site = TRUE /\ pc = "run"
    BY <1>4 DEF Call
  <2>2. CASE ErrorMsg(nCcalls + 1, site)
    BY <1>3, <2>1, <2>2
  <2>3. CASE Throw(stack, "LUA_ERRERR", site) /\ UNCHANGED errorJmp
    BY <1>2, <2>1, <2>3 DEF Errors
  <2>4. CASE stack' = Append(stack, Activation("call", TRUE)) /\ UNCHANGED <<pc, errorState>>
    <3>1. /\ Activation("call", TRUE) \in Frame /\ Activation("call", TRUE).kind = "call"
          /\ Activation("call", TRUE).errfunc = "none"
      <4>1. Activation("call", TRUE) \in Frame /\ Activation("call", TRUE).kind = "call"
        BY ActivationIsClean DEF Kinds
      <4> QED
        BY <4>1 DEF Activation
    <3>2. LongJump!Enter("call", "none")
      BY <1>1, <2>1, <2>4, <3>1, EnterJumps
    <3> QED
      BY <3>2 DEF LongJump!Next
  <2> QED
    BY <1>4, <2>1, <2>2, <2>3, <2>4 DEF Call
<1>5. ASSUME NEW site \in Sites, CallPending(site) \/ RaiseAgain(site) PROVE FALSE
  BY <1>1, <1>5 DEF CallPending, RaiseAgain
<1>6. ASSUME NEW site \in Sites, RunError(site) PROVE LongJump!Next
  BY <1>3, <1>6 DEF RunError
<1>7. ASSUME NEW site \in Sites, MemoryError(site) PROVE LongJump!Next
  BY <1>2, <1>7 DEF MemoryError, Errors
<1>8. ASSUME NEW errfunc \in Handlers, Protect(errfunc) PROVE LongJump!Next
  <2> DEFINE b == Activation("try", FALSE)
             a == [b EXCEPT !.previous = errorJmp, !.errfunc = errfunc]
  <2>1. stack' = Append(stack, a) /\ pc = "run" /\ pc' = "run" /\ errorState' = "ok"
    BY <1>8 DEF Protect
  <2>2. b \in Frame /\ b.kind = "try"
    BY ActivationIsClean DEF Kinds
  <2> HIDE DEF b
  <2>3. errorJmp \in Nat
    BY <1>0 DEF IInv, TypeOK
  <2>4. a \in Frame /\ a.kind = "try" /\ a.errfunc = errfunc
    BY <2>2, <2>3 DEF Frame
  <2> HIDE DEF a
  <2>5. LongJump!Enter("try", errfunc)
    BY <1>1, <2>1, <2>4, EnterJumps
  <2> QED
    BY <2>5 DEF LongJump!Next
<1>9. ASSUME ReturnCall PROVE [LongJump!Next]_(LongJump!vars)
  <2>1. pc \in {"run", "unwind"} /\ Top.kind = "call" /\ stack' = Popped
        /\ pc' = After(Top.site, Pending) /\ UNCHANGED <<errorState, errorJmp>>
    BY <1>9 DEF ReturnCall
  <2>2. CASE Pending
    BY <2>1, <2>2, UnwindStutters DEF After
  <2>3. CASE ~Pending
    <3>1. pc = "run" /\ pc' = "run" /\ errorState' = "ok"
      BY <2>1, <2>3 DEF After, IInv, PendingIsInnermost, Pending
    <3>2. LongJump!Leave
      BY <2>1, <2>3, <3>1, LeaveJumps
    <3> QED
      BY <3>2 DEF LongJump!Next
  <2> QED
    BY <2>2, <2>3
<1>10. ASSUME ReturnHandler PROVE [LongJump!Next]_(LongJump!vars)
  <2>1. pc \in {"run", "unwind"} /\ Top.kind = "handler" /\ errorJmp' = errorJmp
    BY <1>10 DEF ReturnHandler
  <2>2. /\ Popped \in Seq(Frame) /\ Len(Popped) \in Nat /\ Len(stack) = Len(Popped) + 1
        /\ \A d \in 1..Len(Popped) : Popped[d] = stack[d]
    BY <2>1, PoppedStack
  <2>3. CASE Pending
    <3>1. stack' = Popped /\ pc' # "exit" /\ UNCHANGED errorState
      BY <1>10, <2>3 DEF ReturnHandler, After
    <3> QED
      BY <2>1, <2>3, <3>1, UnwindStutters
  <2>4. CASE ~Pending
    <3>1. Throw(Popped, "LUA_ERRRUN", TRUE)
      <4>1. Top.site = TRUE
        BY <2>1, <2>2 DEF Prompt, Top
      <4> QED
        BY <1>10, <2>4, <4>1 DEF ReturnHandler
    <3>2. Chained(Popped, errorJmp)
      BY <2>1, <2>2, ChainAfterPop DEF IInv, HandlerChain, Top
    <3>3. errorJmp # 0
      <4>1. Len(stack) \in 1..Len(stack)
        BY <2>2
      <4>2. PICK h \in 1..(Len(stack) - 1) : IsTry(stack, h)
        BY <2>1, <4>1 DEF HandlerHasTry, Top
      <4>3. h \in (0 + 1)..((Len(stack) + 1) - 1)
        BY <2>2
      <4> QED
        BY <4>2, <4>3 DEF IInv, HandlerChain, Chained, Encloses
    <3>4. LongJump!Raise("LUA_ERRRUN") \/ LongJump!Abort
      <4>1. Len(Popped) <= Len(stack) /\ pc # "exit" /\ "LUA_ERRRUN" \in Errors
        BY <2>1, <2>2 DEF Errors
      <4> QED
        BY <2>1, <2>2, <2>4, <3>1, <3>2, <3>3, <4>1, ThrowJumps
    <3> QED
      BY <3>4 DEF LongJump!Next, Errors
  <2> QED
    BY <2>3, <2>4
<1>11. ASSUME ReturnTry PROVE LongJump!Next
  <2>1. CASE Pending
    BY <1>11, <2>1, CatchJumps DEF LongJump!Next
  <2>2. CASE ~Pending
    <3>1. /\ pc = "run" /\ pc' = "run" /\ errorState' = "ok" /\ stack' = Popped
          /\ Top.kind = "try"
      BY <1>11, <2>2 DEF ReturnTry, IInv, PendingIsInnermost
    <3>2. LongJump!Leave
      BY <2>2, <3>1, LeaveJumps
    <3> QED
      BY <3>2 DEF LongJump!Next
  <2> QED
    BY <2>1, <2>2
<1>12. CASE UNCHANGED vars
  BY <1>12 DEF vars, LongJump!vars, AbstractCalls, Pending
<1> QED
  BY <1>4, <1>5, <1>6, <1>7, <1>8, <1>9, <1>10, <1>11, <1>12 DEF Next, Step, Exited

\* The beginning is the long jump's.
LEMMA InitJumps == Init => LongJump!Init
<1> SUFFICES ASSUME Init PROVE LongJump!Init
  OBVIOUS
<1>1. stack \in Seq(Frame) /\ Len(stack) = 1 /\ ~Pending /\ pc = "run" /\ errorState = "ok"
      /\ stack[1].kind = "host" /\ stack[1].errfunc = "none"
  BY DEF Init, Frame, Kinds, Status, Handlers, Pending
<1>2. AbstractCalls = View(stack, 1)
  BY <1>1, CallsAreSeen DEF Seen
<1>3. /\ View(stack, 1) \in Seq(Brief) /\ Len(View(stack, 1)) = 1
      /\ View(stack, 1)[1] = [kind |-> "host", errfunc |-> "none"]
  BY <1>1, ViewIs
<1>4. View(stack, 1) = << [kind |-> "host", errfunc |-> "none"] >>
  <2>1. PICK b : b = [kind |-> "host", errfunc |-> "none"]
    OBVIOUS
  <2>2. b \in Brief
    BY <2>1 DEF Brief, Kinds, Handlers
  <2>3. <<b>> \in Seq(Brief) /\ Len(<<b>>) = 1 /\ <<b>>[1] = b
    BY <2>2
  <2>4. \A i \in 1..1 : View(stack, 1)[i] = <<b>>[i]
    BY <1>3, <2>1, <2>3
  <2>5. View(stack, 1) = <<b>>
    BY <1>3, <2>3, <2>4, SeqEqual
  <2> QED
    BY <2>1, <2>5
<1> QED
  BY <1>1, <1>2, <1>4 DEF LongJump!Init

\* With LUAI_ERRORCHECK after every call, what the port does to the C stack at an
\* error, one return after the other, is what longjmp would do in one step
\* (luaconf.h:665-669), however handlers, overflows and protected calls nest.
THEOREM ReturningIsALongJump == Spec => ImplementsLongJump
<1> DEFINE PInv == checked => Prompt /\ HandlerHasTry
           Jumps == checked => [LongJump!Next]_(LongJump!vars)
<1>1. Init => IInv /\ PInv
  <2>1. Init => HandlerHasTry
    <3> SUFFICES ASSUME Init PROVE HandlerHasTry
      OBVIOUS
    <3>1. Len(stack) = 1 /\ stack[1].kind = "host" /\ \A d \in 1..1 : d = 1
      BY DEF Init
    <3> QED
      BY <3>1 DEF HandlerHasTry
  <2> QED
    BY <2>1, InitEstablishes, PromptInit
<1>2. IInv /\ PInv /\ [Next]_vars => IInv' /\ PInv'
  BY StepKeeps, PromptStep, HandlerHasTryStep, CheckedStays
<1>3. IInv /\ PInv /\ [Next]_vars => [Jumps]_vars
  BY StepJumps
<1> HIDE DEF PInv, Jumps
<1>4. [][Jumps]_vars /\ LongJump!Init => ImplementsLongJump
  BY DEF ImplementsLongJump, Jumps
<1> QED
  BY <1>1, <1>2, <1>3, <1>4, InitJumps, PTL DEF Spec
=============================================================================
