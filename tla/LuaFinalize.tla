---------------------------- MODULE LuaFinalize ----------------------------
(***************************************************************************)
(* Finalizers of userdata (__gc) in the MoSync port: luaC_separateudata,    *)
(* GCTM and luaC_callGCTM (lgc.c) and lua_close (lstate.c), when finalizers *)
(* raise errors, create userdata, or collect in turn.                       *)
(*                                                                          *)
(* In this port an error does not leave the C functions by itself: GCTM     *)
(* returns to its loop with the error still pending (see LuaError), and     *)
(* luaD_call then returns without calling anything.                         *)
(***************************************************************************)
EXTENDS Integers, Sequences, SequencesExt, Selection

CONSTANTS
    N,              \* bound: userdata created
    MaxActive       \* bound: finalizers that collect inside each other

VARIABLES
    faulty,         \* may this program's finalizers raise errors?
    created,        \* userdata 1..created exist
    list,           \* those linked after the main thread
    tmudata,        \* those set aside for their finalizers, first to be called first
    finalized,      \* those with FINALIZEDBIT
    called,         \* those whose finalizer was called, in that order
    active,         \* finalizers on the C stack, with GCTM's oldah
    allowhook,      \* L->allowhook
    pending,        \* global_LuaErrorState # 0
    phase,          \* "program", then lua_close: "closing", "closed"
    failed          \* lj.status of the round of lua_close

vars == <<faulty, created, list, tmudata, finalized, called, active, allowhook, pending,
          phase, failed>>

Init ==
    /\ faulty \in BOOLEAN
    /\ created = 0 /\ list = <<>> /\ tmudata = <<>> /\ finalized = {}
    /\ called = <<>> /\ active = <<>> /\ allowhook = TRUE
    /\ pending = FALSE /\ phase = "program" /\ failed = FALSE

Running == ~pending /\ (phase = "program" \/ active # <<>>)  \* Lua code runs

\* luaS_newudata, for a userdata with a finalizer
Create ==
    /\ Running /\ created < N
    /\ created' = created + 1
    /\ list' = <<created + 1>> \o list
    /\ UNCHANGED <<faulty, tmudata, finalized, called, active, allowhook, pending, phase, failed>>

\* mutant: FINALIZEDBIT is not looked at
SeparateAgain(dead) ==
    /\ list' = Select(list, 1..created \ dead)
    /\ tmudata' = tmudata \o Select(list, dead)
    /\ finalized' = finalized \cup dead

\* luaC_separateudata on the userdata that are dead
Separate(dead) ==
    LET due == dead \ finalized
    IN  /\ list' = Select(list, 1..created \ due)
        /\ tmudata' = tmudata \o Select(list, due)
        /\ finalized' = finalized \cup due

\* The atomic step of a collection: any of them may have been lost.
Collect(dead) ==
    /\ Running /\ dead # {} /\ dead \subseteq ToSet(list)
    /\ Separate(dead)
    /\ UNCHANGED <<faulty, created, called, active, allowhook, pending, phase, failed>>

\* mutant: with an error pending the userdata stays first in tmudata
GCTMKeeps ==
    /\ tmudata # <<>> /\ phase # "closed" /\ Len(active) < MaxActive
    /\ allowhook' = FALSE
    /\ IF pending
       THEN UNCHANGED <<tmudata, list, active, called>>
       ELSE /\ tmudata' = Tail(tmudata)
            /\ list' = <<Head(tmudata)>> \o list
            /\ active' = Append(active, [udata |-> Head(tmudata), oldah |-> allowhook])
            /\ called' = Append(called, Head(tmudata))
    /\ UNCHANGED <<faulty, created, finalized, pending, phase, failed>>

\* GCTM up to the call, from singlestep (GCSfinalize), from a collection inside a
\* finalizer or from luaC_callGCTM.  Each of these loops goes on when a finalizer
\* has failed: the next ones are relinked, but not called.
GCTM ==
    /\ tmudata # <<>> /\ phase # "closed" /\ Len(active) < MaxActive
    /\ tmudata' = Tail(tmudata)
    /\ list' = <<Head(tmudata)>> \o list
    /\ allowhook' = FALSE
    /\ IF pending
       THEN UNCHANGED <<active, called>>
       ELSE /\ active' = Append(active, [udata |-> Head(tmudata), oldah |-> allowhook])
            /\ called' = Append(called, Head(tmudata))
    /\ UNCHANGED <<faulty, created, finalized, pending, phase, failed>>

\* GCTM after the call, without and with an error pending
FinalizerReturns ==
    /\ active # <<>> /\ ~pending
    /\ active' = Front(active)
    /\ allowhook' = Last(active).oldah
    /\ UNCHANGED <<faulty, created, list, tmudata, finalized, called, pending, phase, failed>>

FinalizerFails ==
    /\ active # <<>> /\ (pending \/ faulty)
    /\ active' = Front(active)
    /\ pending' = TRUE
    /\ failed' = (phase = "closing" /\ (failed \/ active' = <<>>))
    /\ UNCHANGED <<faulty, created, list, tmudata, finalized, called, allowhook, phase>>

\* mutant: luaD_pcall leaves the hooks as the error found them
CatchNoHooks ==
    /\ pending /\ (phase = "program" \/ active # <<>>)
    /\ pending' = FALSE
    /\ UNCHANGED <<faulty, created, list, tmudata, finalized, called, active, allowhook, phase, failed>>

\* luaD_pcall in the program, or in the finalizer that triggered the failed one
Catch ==
    /\ pending /\ (phase = "program" \/ active # <<>>)
    /\ pending' = FALSE
    /\ allowhook' = (active = <<>>)
    /\ UNCHANGED <<faulty, created, list, tmudata, finalized, called, active, phase, failed>>

\* lua_close: all userdata are set aside, then rounds of luaC_callGCTM
Close ==
    /\ phase = "program" /\ active = <<>> /\ ~pending
    /\ phase' = "closing"
    /\ Separate(ToSet(list))
    /\ UNCHANGED <<faulty, created, called, active, allowhook, pending, failed>>

\* callallgcTM returned: again if it failed
EndRound ==
    /\ phase = "closing" /\ active = <<>> /\ tmudata = <<>>
    /\ phase' = IF failed THEN "closing" ELSE "closed"
    /\ failed' = FALSE /\ pending' = FALSE
    /\ UNCHANGED <<faulty, created, list, tmudata, finalized, called, active, allowhook>>

Next ==
    \/ Create \/ GCTM \/ FinalizerReturns \/ FinalizerFails \/ Catch \/ Close \/ EndRound
    \/ \E dead \in SUBSET (1..N) : Collect(dead)

Spec == Init /\ [][Next]_vars

\* Finalizers end, one way or the other, and lua_close does not stop.
Fairness ==
    /\ WF_vars(FinalizerReturns \/ FinalizerFails)
    /\ WF_vars(phase = "closing" /\ active = <<>> /\ (GCTM \/ EndRound))
FairSpec == Spec /\ Fairness

-----------------------------------------------------------------------------
\* A userdata is on exactly one of the two lists, and its finalizer is called at
\* most once, even when it is lost again after its finalizer kept it; and if no
\* finalizer fails, lua_close leaves none of those set aside uncalled, also of
\* those it sets aside itself and those created while it closes and collected.
FinalizedOnce ==
    /\ IsInjective(called)
    /\ IsInjective(list \o tmudata) /\ ToSet(list \o tmudata) = 1..created
    /\ phase = "closed" /\ ~faulty => finalized \subseteq ToSet(called)

\* GCTM switches hooks off and restores them only without an error; the protected
\* call that catches the error has to do it then.
HooksBack == phase = "program" /\ active = <<>> /\ ~pending => allowhook

\* lua_close ends, however many finalizers fail (lstate.c:205 "repeat until no
\* more errors").
CloseEnds == phase = "closing" ~> phase = "closed"

\* lstate.c:195 "call GC metamethods for all udata": once the state is closed,
\* every userdata that was set aside has had its finalizer called.
AllFinalizersCalled == phase = "closed" => finalized \subseteq ToSet(called)

=============================================================================
