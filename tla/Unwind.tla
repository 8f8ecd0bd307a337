------------------------------- MODULE Unwind -------------------------------
(***************************************************************************)
(* What LUAI_THROW and LUAI_TRY promise to the rest of the interpreter: the *)
(* "default handling with long jumps" of luaconf.h:665-669.  Raising an     *)
(* error cuts the C stack back to the innermost protected call in one step, *)
(* and the next thing that happens is that this call returns the status.    *)
(***************************************************************************)
EXTENDS Integers, Sequences

CONSTANTS
    Errors,     \* status codes
    Handlers    \* what a protected call may be given as message handler

VARIABLES
    calls,      \* the C stack: <<[kind, errfunc], ...>>
    failed,     \* the status longjmp carries to the innermost "try", or "ok"
    exited      \* exit(EXIT_FAILURE) was called

vars == <<calls, failed, exited>>

Running == failed = "ok" /\ ~exited
Last == calls[Len(calls)]
Popped == SubSeq(calls, 1, Len(calls) - 1)
IsInnermost(h) ==
    /\ h \in DOMAIN calls /\ calls[h].kind = "try"
    /\ \A d \in DOMAIN calls : d > h => calls[d].kind # "try"

Init ==
    /\ calls = << [kind |-> "host", errfunc |-> "none"] >>
    /\ failed = "ok"
    /\ exited = FALSE

Enter(kind, errfunc) ==
    /\ Running
    /\ calls' = Append(calls, [kind |-> kind, errfunc |-> errfunc])
    /\ UNCHANGED <<failed, exited>>

\* The message handler is asked only inside a protected call that has one.
Ask ==
    /\ \E h \in DOMAIN calls : IsInnermost(h) /\ calls[h].errfunc = "function"
    /\ Enter("handler", "none")

Raise(e) ==
    /\ Running
    /\ \E h \in DOMAIN calls :
          IsInnermost(h) /\ calls' = SubSeq(calls, 1, h)
    /\ failed' = e
    /\ UNCHANGED exited

\* Without a protected call there is nothing to jump to.
Abort ==
    /\ Running
    /\ \A h \in DOMAIN calls : ~IsInnermost(h)
    /\ exited' = TRUE
    /\ UNCHANGED <<calls, failed>>

\* A function or a protected call ends normally; a handler always throws.
Leave ==
    /\ Running
    /\ Last.kind \in {"call", "try"}
    /\ calls' = Popped
    /\ UNCHANGED <<failed, exited>>

\* The protected call returns the error.
Catch ==
    /\ failed # "ok"
    /\ calls' = Popped
    /\ failed' = "ok"
    /\ UNCHANGED exited

Next ==
    \/ Enter("call", "none")
    \/ \E errfunc \in Handlers : Enter("try", errfunc)
    \/ Ask
    \/ \E e \in Errors : Raise(e)
    \/ Abort
    \/ Leave
    \/ Catch

Spec == Init /\ [][Next]_vars
=============================================================================
