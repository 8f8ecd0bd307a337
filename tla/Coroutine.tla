----------------------------- MODULE Coroutine -----------------------------
(***************************************************************************)
(* Coroutines of the Lua interpreter (ldo.c:393-513, lbaselib.c:511-631):   *)
(* which thread runs, what lua_resume and lua_yield do to its status, its   *)
(* activations and its count of C calls.                                    *)
(*                                                                          *)
(* Every lua_resume runs on the C stack of the thread that called it, so    *)
(* "nest" is that stack: the main thread first, the running thread last.    *)
(* An error unwinds to its protected call in one step; how the port does it *)
(* with error checks is the subject of LuaError.                            *)
(***************************************************************************)
EXTENDS Integers, Sequences, FiniteSets

CONSTANTS
    Main, Co,       \* the main thread, the coroutines
    BoundaryYields, \* does the program try to yield across a C call?
    MaxCcalls,      \* LUAI_MAXCCALLS
    Slack,          \* LUAI_MAXCCALLS >> 3
    MaxFrames       \* bound: activations of a thread

Threads == Co \cup {Main}

\* An activation: of a Lua function called by Lua, or one entered through
\* luaD_call from C (a metamethod, an iterator), or through lua_pcall.  The last
\* two keep L->nCcalls as it was before.
Frame == [kind : {"lua", "call", "pcall"}, ccalls : Nat]

VARIABLES
    status,         \* L->status: "ok", "yield" or "error"
    frames,         \* the activations above L->base_ci
    fresh,          \* the function to start is on the coroutine's stack
    nCcalls, baseCcalls,
    nest,           \* the threads on the C stack, the running one last
    wild            \* lua_resume went on with activations that are not there

vars == <<status, frames, fresh, nCcalls, baseCcalls, nest, wild>>

L == nest[Len(nest)]
HostCall == [kind |-> "pcall", ccalls |-> 0]

Init ==
    /\ status = [t \in Threads |-> "ok"]
    /\ frames = [t \in Threads |-> IF t = Main THEN <<HostCall>> ELSE <<>>]
    /\ fresh = [t \in Threads |-> t # Main]
    /\ nCcalls = [t \in Threads |-> IF t = Main THEN 1 ELSE 0]
    /\ baseCcalls = [t \in Threads |-> 0]
    /\ nest = <<Main>>
    /\ wild = FALSE

-----------------------------------------------------------------------------
\* mutant: the status alone decides
CostatusNoFrames(co) ==
    CASE L = co -> "running"
      [] L # co /\ status[co] = "yield" -> "suspended"
      [] L # co /\ status[co] = "ok" -> IF frames[co] = <<>> /\ ~fresh[co] THEN "dead" ELSE "suspended"
      [] OTHER -> "dead"

\* costatus
Costatus(co) ==
    CASE L = co -> "running"
      [] L # co /\ status[co] = "yield" -> "suspended"
      [] L # co /\ status[co] = "ok" ->
            IF frames[co] # <<>> THEN "normal" ELSE IF fresh[co] THEN "suspended" ELSE "dead"
      [] OTHER -> "dead"

CaughtAt(fs) == {i \in 1..Len(fs) : fs[i].kind = "pcall"}

\* The error leaves the activations of the running thread up to its innermost
\* protected call (luaD_pcall), or ends the coroutine (lua_resume).  st is the
\* status the thread has at that time.
Raise(st) ==
    LET fs == frames[L]
        at == CHOOSE i \in CaughtAt(fs) : \A j \in CaughtAt(fs) : j <= i
    IN  IF CaughtAt(fs) # {}
        THEN /\ status' = [status EXCEPT ![L] = st]
             /\ frames' = [frames EXCEPT ![L] =
                     IF L = Main /\ at = 1 THEN <<HostCall>> ELSE SubSeq(fs, 1, at - 1)]
             /\ nCcalls' = [nCcalls EXCEPT ![L] =
                     IF L = Main /\ at = 1 THEN 1 ELSE fs[at].ccalls]
             /\ UNCHANGED nest
        ELSE /\ status' = [status EXCEPT ![L] = "error"]
             /\ nCcalls' = [nCcalls EXCEPT ![L] = @ - 1]
             /\ nest' = SubSeq(nest, 1, Len(nest) - 1)
             /\ UNCHANGED frames

Room == Len(frames[L]) < MaxFrames

\* A Lua function calls a Lua function: luaV_execute goes on without C recursion.
Call ==
    /\ ~wild /\ Room
    /\ frames' = [frames EXCEPT ![L] = Append(@, [kind |-> "lua", ccalls |-> 0])]
    /\ UNCHANGED <<status, fresh, nCcalls, baseCcalls, nest, wild>>

\* luaD_call from a C function.
CallFromC(kind) ==
    /\ ~wild /\ Room
    /\ LET n == nCcalls[L] + 1
       IN  IF n = MaxCcalls \/ n >= MaxCcalls + Slack
           THEN Raise(status[L])
           ELSE /\ frames' = [frames EXCEPT ![L] = Append(@, [kind |-> kind, ccalls |-> nCcalls[L]])]
                /\ nCcalls' = [nCcalls EXCEPT ![L] = n]
                /\ UNCHANGED <<status, nest>>
    /\ UNCHANGED <<fresh, baseCcalls, wild>>

Return ==
    /\ ~wild /\ Len(frames[L]) > 1
    /\ frames' = [frames EXCEPT ![L] = SubSeq(@, 1, Len(@) - 1)]
    /\ nCcalls' = [nCcalls EXCEPT ![L] =
                      @ - (IF frames[L][Len(frames[L])].kind = "lua" THEN 0 ELSE 1)]
    /\ UNCHANGED <<status, fresh, baseCcalls, nest, wild>>

\* The coroutine's function returns: lua_resume answers L->status.
Finish ==
    /\ ~wild /\ L # Main /\ Len(frames[L]) = 1
    /\ frames' = [frames EXCEPT ![L] = <<>>]
    /\ nCcalls' = [nCcalls EXCEPT ![L] = @ - 1]
    /\ nest' = SubSeq(nest, 1, Len(nest) - 1)
    /\ UNCHANGED <<status, fresh, baseCcalls, wild>>

Error ==
    /\ ~wild /\ Raise(status[L])
    /\ UNCHANGED <<fresh, baseCcalls, wild>>

-----------------------------------------------------------------------------
\* mutant: the C calls of the resumer are not carried over
LevelOwn(co) == nCcalls[co]

\* lua_setlevel(L, co)
Level(co) == nCcalls[L]

\* auxresume and lua_resume.  A coroutine that was not started starts; any other
\* goes on after the yield its topmost activation called.
Resume(co) ==
    /\ ~wild /\ Costatus(co) = "suspended" /\ Level(co) < MaxCcalls
    /\ nest' = Append(nest, co)
    /\ nCcalls' = [nCcalls EXCEPT ![co] = Level(co) + 1]
    /\ baseCcalls' = [baseCcalls EXCEPT ![co] = Level(co) + 1]
    /\ status' = [status EXCEPT ![co] = "ok"]
    /\ fresh' = [fresh EXCEPT ![co] = FALSE]
    /\ IF status[co] = "ok"
       THEN /\ frames' = [frames EXCEPT ![co] = << [kind |-> "lua", ccalls |-> 0] >>]
            /\ UNCHANGED wild
       ELSE /\ wild' = (frames[co] = <<>> \/ \E i \in 1..Len(nest) : nest[i] = co)
            /\ UNCHANGED frames

\* resume_error: "C stack overflow"; the stack of co is cut to its base.
ResumeRefused(co) ==
    /\ ~wild /\ Costatus(co) = "suspended" /\ Level(co) >= MaxCcalls
    /\ nCcalls' = [nCcalls EXCEPT ![co] = Level(co)]
    /\ fresh' = [fresh EXCEPT ![co] = FALSE]
    /\ UNCHANGED <<status, frames, baseCcalls, nest, wild>>

\* lua_yield.  Inside a C call the error is raised, and L->status is set all the
\* same: luaG_runerror returns.
Yield ==
    /\ ~wild
    /\ IF nCcalls[L] > baseCcalls[L]
       THEN BoundaryYields /\ Raise("yield")
       ELSE /\ status' = [status EXCEPT ![L] = "yield"]
            /\ nCcalls' = [nCcalls EXCEPT ![L] = @ - 1]
            /\ nest' = SubSeq(nest, 1, Len(nest) - 1)
            /\ UNCHANGED frames
    /\ UNCHANGED <<fresh, baseCcalls, wild>>

\* coroutine.create puts a new thread in the place of one that is dead and lost.
Create(co) ==
    /\ ~wild /\ Costatus(co) = "dead" /\ \A i \in 1..Len(nest) : nest[i] # co
    /\ status' = [status EXCEPT ![co] = "ok"]
    /\ frames' = [frames EXCEPT ![co] = <<>>]
    /\ fresh' = [fresh EXCEPT ![co] = TRUE]
    /\ nCcalls' = [nCcalls EXCEPT ![co] = 0]
    /\ baseCcalls' = [baseCcalls EXCEPT ![co] = 0]
    /\ UNCHANGED <<nest, wild>>

Next ==
    \/ Call \/ Return \/ Finish \/ Error \/ Yield
    \/ \E kind \in {"call", "pcall"} : CallFromC(kind)
    \/ \E co \in Co : Resume(co) \/ ResumeRefused(co) \/ Create(co)

Spec == Init /\ [][Next]_vars

-----------------------------------------------------------------------------
TypeOK ==
    /\ status \in [Threads -> {"ok", "yield", "error"}]
    /\ frames \in [Threads -> Seq(Frame)]
    /\ fresh \in [Threads -> BOOLEAN]
    /\ nCcalls \in [Threads -> Nat] /\ baseCcalls \in [Threads -> Nat]
    /\ nest \in Seq(Threads) /\ nest # <<>> /\ nest[1] = Main
    /\ wild \in BOOLEAN

CLevels(t) == Cardinality({i \in 1..Len(frames[t]) : frames[t][i].kind # "lua"})
Depth ==
    LET d[n \in 1..Len(nest)] ==
            IF n = 1 THEN CLevels(nest[1]) ELSE d[n - 1] + 1 + CLevels(nest[n])
    IN  d[Len(nest)]

\* L->nCcalls of the running thread is the depth of the C stack, whatever was
\* raised, caught, yielded and resumed before, so that the C recursion of all
\* nested coroutines together stays under the limit, with the slack lua_resume
\* can leave (lua_setlevel, ldo.c:393-399).
CountIsDepth == nCcalls[L] = Depth /\ Depth < MaxCcalls + Slack

\* Only a coroutine that waits is resumed: one that was never started, or one that
\* called yield, with nothing of it on the C stack and no C call in it; never one
\* that has finished or failed (ldo.c:453 "cannot resume non-suspended coroutine",
\* and the assertions on the interrupted call in ldo.c:425-426).
ResumedWasWaiting ==
    [][\A co \in Co : Resume(co) =>
          /\ \A i \in 1..Len(nest) : nest[i] # co
          /\ status[co] # "error"
          /\ fresh[co] \/ (frames[co] # <<>> /\ CLevels(co) = 0)]_vars

=============================================================================
