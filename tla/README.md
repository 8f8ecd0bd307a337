# Verification of MerchGamePrototype

The repository holds a trading game in two early forms: a prototype that runs in a browser
(`merchFuncs.js`, `map.html`) and the shell of a phone application for the MoSync platform
(`main.cpp`, `Interpreter.cpp`, `Renderer.cpp`, `script.lua`). The phone application embeds a copy
of the Lua 5.1 interpreter (`lua/src`) that was changed to live without `setjmp`/`longjmp`: every C
function returns by itself after an error (`luaconf.h:638-663`). One half of this project is about what
that change does to error handling, coroutines, finalizers and the state they share; the other half
models the interpreter the game's script relies on: lexer, compiler, virtual machine, tables,
patterns, string buffers, references, sorting and precompiled chunks.

The modules below are TLA+ specifications read off the source, checked by TLC on small instances
(`MC*.cfg`), and proved with TLAPS where a `*Proof` module exists. `PROJECT.json` lists which lines
each definition stands for, the runs, the hazards they are aimed at, and for every property a
mutation of the code that breaks it.

    tlc -workers 2 -config MCTrade.cfg MCTrade.tla
    tlapm LuaErrorProof.tla      (and LuaGCProof, UpvalProof, TradeProof, CoroutineProof,
                                  TableProof, PartsProof, Induction)

## Inventory

| Component | State it keeps | Operations | Interacts with | What must hold |
|---|---|---|---|---|
| Trading game, `merchFuncs.js` | funds, hold, trade history per commodity, current island, prices, text of the island window | open an island, buy, sell, advance time, edit a floor price | map view (islands, `cLat`) | ledger follows the hold; the window tells the price that is charged; debt only where oversold; prices return to normal |
| Map view, `merchFuncs.js`, `map.html` | centre, `cLat`, drawn islands and squares, check boxes | click, edit, Redraw, switch layers | price look-ups overwrite `cLat` | all layers are about one centre; Redraw does not creep |
| Phone shell, `main.cpp`, `Interpreter.cpp`, `Renderer.cpp`, `script.lua` | Lua state, ten island buttons, timer | start-up, one-shot timer, location events, keys | Lua API; MoSync events | map size set before the first event; the buttons show the last event's islands; the Lua stack does not grow |
| Error propagation, `ldo.c`, `ldebug.c`, `luaconf.h` | `global_LuaErrorState`, chain `L->errorJmp`, `nCcalls`, `ci`, the C stack | call, throw, protected call, message handler, return | everything | handlers stay chained; an error reaches its handler; nothing runs on after it; the caller's state is restored |
| Coroutines, `ldo.c`, `lbaselib.c` | status, activations and C call counts of each thread | create, resume, yield, finish, fail | error propagation | only waiting coroutines are resumed, never the dead; the C stack is bounded |
| Garbage collector, `lgc.c`, `lapi.c`, `lstring.c` | colours, gray lists, phase, sweep position, `tmudata`, weak tables | singlestep, full collection, barriers on writes, interning | every write to an object | nothing usable is freed; garbage goes; weak entries vanish with their objects |
| Finalizers and closing, `lgc.c`, `lstate.c` | userdata list, `tmudata`, `FINALIZEDBIT`, hook switch | separate, GCTM, lua_close | error propagation | each called at most once; closing ends; all called |
| Tables, `ltable.c` | array, nodes, chains, free pointer | get, set, rehash, set a list, next, length | collector (dead keys), virtual machine | behaves as a finite map; rehash leaves room; next visits all, also while entries go; length is a boundary |
| Lexer, `llex.c` | stream, current character, buffer, line, look-ahead | next token, look ahead | streams, compiler | the tokens of the text in order, whatever the chunks and the look-ahead |
| Compiler, `lparser.c`, `lcode.c` | scopes, registers, constants, jump lists | statements and expressions | virtual machine, code checker | the code does what the source says; registers freed in order; every jump patched; the checker accepts it |
| Code checker and error names, `ldebug.c` | | symbolic execution of a function | compiler, virtual machine, chunks | accepts all compiled code; names the right variable |
| Virtual machine, `lvm.c`, calls of `ldo.c`, `ltm.c` | stack, top, activations, program counter | instructions, calls, metamethod chains | all above | as the source says; top is the frame's top; varargs and tail calls move everything along |
| Closures and upvalues, `lfunc.c` | open list of each thread, global double list | find, close, link | virtual machine, collector | one open upvalue per slot; list sorted; closed when their slot goes; what a closure reaches is never collected |
| Streams and chunks, `lzio.c`, `ldump.c`, `lundump.c` | unread count and pointer, LoadState | read, look ahead, dump, undump | lexer, code checker | what is loaded is what was dumped; a short chunk is refused |
| Auxiliary library, `lauxlib.c` | free list of references, string buffers | `luaL_ref`, `luaL_Buffer`, argument checks | tables, error propagation | references find their values; buffers hold their text in few stack slots |
| Libraries opened by the game, `lstrlib.c`, `ltablib.c`, `lbaselib.c` | match state | find, match, gmatch, gsub, sort, insert, remove, coroutine functions | buffers, tables | the preferred match; empty matches move on; sorted and nothing lost |
| Stacks and memory, `ldo.c`, `lmem.c` | value stack, CallInfo array | grow, shrink, fail to allocate | error propagation | no pointer outlives a reallocation; limits |
| Strings, `lstring.c` | string table | intern, resize | collector | one object per string |
| Unopened libraries, tools, stubs | | | | |

The behaviours that are hard to test here: an error raised in the middle of a C function that does not
check for it; nested protected calls, message handlers and C stack overflow inside each other; a write
between any two steps of the incremental collector; finalizers that fail, collect, or bring objects
back; yields where a C call is on the stack; in the compiler registers, jump lists and scopes that
depend on everything compiled before; in the table a long history of insertions, erasures and dead
keys; reads that end where a chunk ends; matches that fail late; and in the browser any order of clicks,
trades, edits and ticks with values cached in the page. There are no threads, no messages between processes and nothing
persistent, so crash recovery and lost or reordered messages do not arise. The hazards are listed at
their lines in `PROJECT.json`.

## Modules

### Trade (with MCTrade, TradeProof)

The variables are the globals of the page: `funds`, `cargo` (`player[name]`), `hist`
(`player.tradeHist`), `position` (`currentPosition`), `floor` and `shown` (the content of the window).
Each handler is an action: `ShowInfoWindow`, `BuyCommodity`, `SellCommodity`, `AdvanceTime`,
`EditFloor`. Every one that calls `updateInfoWindow` rewrites `shown` in the same step.

Prices are exact integers (a value is scaled by `10000 * Reach`), so that `Math.floor` is a division.
What the floating point code computes from coordinates, the wave pattern and the distance between two
islands, is given by the tables `Wave` and `Near`. A floor typed in the page becomes a string, and `+`
joins numerals: `NormalValue` does what the code does. `AdvanceTime` splices entries out of the array
it walks, which steps over the next entry: `Aged` does the same. A buy or sell that is refused changes
nothing and is not an action. The Floor box accepts anything (`merchFuncs.js:117`); `EditFloor` takes whole numbers up
to the ceiling. A floor above the ceiling, or a fraction, joins with the rise to text that is no numeral ("9-2"): the
price is NaN, no trade at it is refused, and the funds are NaN from then on (lines 247 and 362 to 367). What the
properties of `Trade` say of funds and prices does not extend to a page so edited.

### MapView (with PartsProof)

Latitudes only, counted in rows of islands. `cLat` is both what the Lat box sets and a temporary of
`getWaveValue` (line 270), so that every price look-up and every drawn square changes where the next
Redraw goes. `AfterSquares` is the value the last square leaves behind. The state of a layer is the
centre it was drawn about.

That Redraw goes to the latitude in the box does not hold for this code: after any look-up it goes to
the start of a wave. What does hold is that it then stays there (`RedrawSettles`), provided the drawn
area is shorter than a wave, as it is with the parameters of the source (20 rows, waves of 34 rows or
more).

### LuaError, Unwind, LuaErrorLongjmp, LuaErrorProof

`LuaError` is the C stack of one Lua state: an activation is a C frame of `luaD_call`, of a protected
call with its `lua_longjmp` record, or of a message handler. `pc` is "run" while code executes and
"unwind" while activations return one after the other at a failed `LUAI_ERRORCHECK`. `checked`,
chosen once, says whether all call sites of the program have such a check, which is the discipline of `luaconf.h`, or
`Sites` may be of either kind, as in the code, where many library functions go on after `luaL_argcheck` or
`luaL_error`. `global_LuaErrorState` is `errorState`, `L->errorJmp` is `errorJmp`; `nCcalls` and `ci`
count up and down exactly as the code does, also on paths that never count back.

`Unwind` is what `longjmp` promises: an error cuts the stack to the innermost protected call in one
step. `LuaErrorLongjmp` maps `LuaError` to it by forgetting, while an error is pending, the
activations above the handler; that every step is one of the long jump or none is asked of checked programs only.

### LuaGC, LuaGCHeap, Heap, Reachability (with MCLuaGC, LuaGCProof)

`LuaGC` is `singlestep` of `lgc.c` with its phases, the three gray lists, two whites, the barriers, the
atomic step (remarking, separation of userdata, clearing of weak tables, the flip of the whites), both
sweeps and the finalizer phase; and the program: objects are created, interned, pushed, read, written
and erased, table modes and metatables of basic types are set, values move between coroutines, and
coroutines are resumed and yield. A program step and a collector step interleave freely, which includes
every pacing the allocation debt can produce. An object's references are a set.

`Heap` is the abstract promise: objects, their references and what is lost. `LuaGCHeap` states that
`LuaGC` implements it: objects disappear only when lost, weak entries only with the object they name,
and nothing else is ever changed by the collector.

### Coroutine (with CoroutineProof)

The nested `lua_resume` calls on one C stack (`nest`), and for each thread its status, activations, and
the two counters `nCcalls` and `baseCcalls`. `Resume` is `auxresume` with `lua_setlevel` and
`lua_resume`; `Yield` contains the port's behaviour that `luaG_runerror` returns and the status is
set all the same. An error unwinds to its protected call in one step here; how that happens is
`LuaError`'s subject. Yields from hooks are left out.

### LuaFinalize (with PartsProof)

Separation, `GCTM`, nested collections inside finalizers, protected calls that catch an error, and the
rounds of `lua_close`. A collection inside a finalizer goes on calling `GCTM` when one of the inner finalizers has
failed, as `lgc.c:468` does. The variable `faulty`, chosen once per behaviour, says whether finalizers of this
program raise errors.

### Archipelago (with PartsProof)

The phone application from its constructor on: the one-shot timer that reads the size of the screen and
switches locations on, location fixes, `newCoord` with its call of the script, the script's islands,
`addIsland` with its first invisible button, and the way out. `screen` is the size of the screen,
`mapSize` what the script was told, `top` the height of the Lua stack, `buttons` what is shown. The
layout of the screen belongs to the platform: the constant `LayoutInTime` says that it comes before the
timer fires, which is what the code waits 200 ms for (`main.cpp:38`); that a size is read before the screen has
one is assumed away, and no property speaks of it. `newCoord` and the script's calls are steps
of their own; nothing else runs in between, because the script does not give control back.

### LuaTable, TableMap (with TableProof)

`LuaTable` has the array, the node vector with real positions (keys hash by their number), the chains,
`lastfree`, the dummy node, Brent's insertion (`Place`), `rehash` with `computesizes`, `resize`, `next`
with `findindex`, and the binary searches of `luaH_getn`. `Collect` is what a collection does to a
table: it empties an entry and turns the collectable keys of empty nodes into dead keys. A program
stores, erases, makes lists, and traverses. `TableMap` is the promise of the manual: a map, and a
traversal that gives each key once though fields are erased on the way; `ImplementsMap` is
the refinement, with `cursor` and `left` the state of the traversal. The loops of the code are recursive
functions: `Along` follows a chain to the first node of a set, `Resize` fills the new table from the old
slots in the order of `resize`, `Between` and `UnboundSearch` carry the two ends `i` and `j`.

### LuaCode, LuaParser, LuaDebug

`LuaCode` is `lcode.c`: expression descriptors, jump lists threaded through the code, patching, constants,
register allocation, folding. `LuaParser` is `lparser.c`, written over the tree of the tokens instead
of the tokens: blocks, scopes, upvalue resolution, every kind of statement and expression, in the order in
which the code calls the generator. Both are functions from a function state to a function state; where
`lcode.c` or `lparser.c` has a `lua_assert`, the model records whether it holds. `LuaDebug` is the
checker of `ldebug.c` and the search for names. The field `ok` of a function state has the assertions but four, which
`LuaCode` names. Three limits are constants so that
small programs reach them: `MaxIndexRK` (constants an operand can name), `FieldsPerFlush` and `MaxFlush`
(items and batches of a constructor).

The number of a batch beyond `MaxFlush` is coded as a bare word behind its `SETLIST` (`lcode.c:964`), and whether
something goes wrong depends on what instruction that number looks like, so this word is not abstracted: `Word` is
the instruction that has the bits of a number and `Raw` the number in the bits of an instruction. `getjumpcontrol`,
`patchtestreg`, `luaK_nil` and the checker read it as they do in the code, and the machine executes what they left of
it. Only the way there is shortened: the constant `Beyond` lists the numbers the batches behind `MaxFlush` have, and
`Batch` counts in batches that exist.

### LuaVM, LuaSemantics (with MCLuaVM)

`LuaVM` compiles a program (`Compile`) and executes it, one action per group of opcodes: registers,
globals and tables with `__index` and `__newindex` chains, arithmetic, length, concatenation and
comparison with their metamethods, tests, numeric and generic loops, calls, tail calls, returns,
varargs, `SETLIST`, closures and upvalues. A C function that calls back (a metamethod's caller, `upto`
in a generic loop) is a continuation of the activation. `LuaSemantics` is written from the manual's
description of the language and not from the code: environments, values, left to right evaluation,
closures that share their variables. `Compiler` and `Outcome` are constants; the configurations give
them `Parse` and `Meaning`.

The programs of `MCLuaVM` are all Boolean expressions of a small grammar in each position where a value or
a condition can stand, and some 60 programs on loops, upvalues, lists, operands, metamethods and errors.

### LuaDump, LuaStream, LuaLex

`LuaStream` is a stream whose text arrives in chunks, with the count of `zgetc` that goes below zero and
is put right by `luaZ_fill` and `luaZ_lookahead`. `LuaLex` reads tokens from it; its specification of the
tokens (`Lexemes`, `TokensFrom`) takes the longest lexeme at each place of the whole text. `LuaDump` writes
a compiled function as a sequence of items and reads it back through the stream, field after field,
and ends with the code checker. A failed read leaves 0 or 1 in the variable it should set. In the code that may be
anything, and where it is a count (`lundump.c:92`, `:103`, `:131`) a large one makes `luaM_newvector` fail, which returns in
this port and is written through: as everywhere, failing allocations are left out.

### LuaMatch, LuaBuffer, LuaSort, LuaRef

`LuaMatch` is the recursive matcher with captures, `%b`, `%f`, back references, anchors, and the loops of
find, gmatch and gsub; a pattern is a sequence of items. It is compared with a definition of matching
without backtracking: all ways through the pattern (`Ways`) and which of two an item prefers
(`Better`). `LuaBuffer` is `luaL_Buffer`: the array, the strings it leaves on the stack, and its own count of them;
`adjuststack` joins as many of the last strings as `Enough` says. `LuaSort` is `auxsort` one comparison or
exchange at a time: `stack` holds l and u of each call under way, the part being sorted on top, and the loop and the recursive
call both become parts on it, since the loop has nothing else to come back to. The scans `Up` and `Down` have no bounds, as in
the code; `error` notes the "invalid order function" they would raise. `insert` gets positions in the list or just
behind it: with others it makes a list with holes. `tinsert` and `tremove` move an
element per step. `LuaRef` is the free list inside the table,
where the length of the table with holes may be any boundary. Its variables are the table and the
references its callers hold, each with the value it was made for. A nil gets the fixed reference
`LUA_REFNIL` and never comes into the table, so nil is none of the `Values`.

### LuaUpval (with UpvalProof)

Upvalues between the program and the collector: `lfunc.c` with the parts of `lgc.c` that `LuaGC` leaves
out (`remarkupvals`, `luaC_linkupval`, the sweep of a thread's `openupval`, the upvalues closed when a lost
coroutine is freed). The heap has threads with their stacks, closures and upvalues; `Capture`,
`SetUpval`, `Close`, `Resume` and `Yield` interleave with `Propagate`, `Atomic` and `Sweep` in any order. The two
whites are called "white" (the current one) and "other". `UpvalsAreSafe` says that nothing a closure or a
stack leads to is freed or condemned, and that the lists of open upvalues, their threads' stacks and
`uvhead` agree, with the colours `luaF_close` and `luaC_linkupval` assert. `Selection` has the filter of a
list that this module and `LuaFinalize` use. `LuaVM` has the same operations
of `lfunc.c` without the collector, and compares what the program reads through them with the source.

### Parts, MCParts

`Parts` instantiates `Archipelago`, `Coroutine`, `LuaFinalize`, `LuaRef`, `LuaUpval`, `LuaTable`, `LuaBuffer` and
`LuaSort` side by side with all their constants left open, and names their properties. `PartsConstants` says what the code says of the
constants: the marks and sizes of the phone are distinct from "none", the main thread is not a
coroutine, `MaxCcalls` and `Slack`, 200 and an eighth of it in `luaconf.h:468` and `ldo.c`, are not zero, nil is no
value, there is an address for the main thread, a buffer has room for a character and for one string
beside another (`BUFSIZ` and 10 in the code), and keys are integers. The proofs of these modules are about `Parts`, and
`MCParts` extends it, so that the properties TLC checks and those the theorems state are the same definitions.

The other parts that work each on their own are added to them in `MCParts` and model-checked in one run as a
sum: `part` is chosen once and says which one moves, and the others stay as they began. It holds the map, the phone
application, tables, coroutines, finalizers, upvalues, references, patterns, the lexer, buffers and lists; the
states explored are those of each part alone.

## Runs

| Run | Asks | Bounds and why they suffice |
|---|---|---|
| `trade` | everything about trading, and that prices recover | one commodity (histories do not interact except through funds and the hold), three islands of which two are in each other's reach, up to two units net per entry; the price change is steep enough for prices below zero, the margin wide enough that the buy-back property is not vacuous |
| `lua_errors` | chain, pending error and restored state whatever the sites check; for programs that check at every site, that nothing runs on after an error, that returning one by one is a long jump, and that errors arrive | C stack of 5 with a limit of 2 C calls and slack 2: nested protected calls, a handler that overflows and an error inside a handler all fit |
| `lua_errors_unchecked` | (violated) nothing runs on after an error | C stack of 4; in the shortest counterexample a protected call raises an error at an unchecked site and goes on |
| `gc_barriers` | safety while tables, functions and coroutines are written between the collector's steps | two objects beside the two roots, two references each, stacks of two, a sweep of one object at a time: a black object, a white one and a gray one coexist, addresses are reused, two whites alternate |
| `gc_lost` | safety with weak tables, userdata and strings, and refinement of `Heap` | same, with one reference per object, all modes |
| `gc_progress` | garbage is collected | without symmetry, which is not sound for liveness |
| `compiled_programs` | compiled code does what the source says, names the variable in an error, keeps the generator's assertions (those `LuaCode` records), is accepted by the checker, keeps stack and upvalues in order, and survives dump and undump | about 5850 programs; constants beyond an operand from the fifth on, chains of three metatables, constructors of up to eight batches of two items, of which six have their number in a word: 515, 535, 538, 539, 546 and 16387 look like `LOADNIL`, `EQ`, `TEST`, `TESTSET`, `SETLIST` and a `LOADNIL` of more registers, and are followed by a local without value, by loops and by a block that never runs, or are the last of a loop's body; dumps cut at three places |
| `compiler_constants` | (violated) the same for expressions of constants | constants as operands of `and` and `or` |
| `compiler_count` | (violated) the same for a constructor whose last count looks like a `TESTSET` | that constructor, then a block that never runs, then the table is shown |
| `coroutine_failed_yield` | (violated) only waiting coroutines are resumed | with yields across C calls |
| `finalizers_skipped` | (violated) all finalizers are called | three userdata |
| `parts` | what each of the parts of `MCParts` promises | see below |

Bounds of `parts`:

- map: two commodities with different waves, both longer than the drawn rows; three latitudes, one on a
  wave and two off it.
- phone: ten buttons and the four islands of `script.lua`, two screen sizes.
- tables: integers 1 to 4, a string and an object that collide in hash parts of up to eight nodes,
  initial sizes 0 and 2, lists of three; the array grows and shrinks.
- coroutines: two inside the main thread, limit 4: the limit is met inside a nested resume.
- finalizers: four userdata, three finalizers inside each other.
- upvalues: four addresses, one coroutine beside the main thread, stacks of two, a sweep of three objects
  at a time: enough for a closure that outlives the coroutine whose local it captured, for two open
  upvalues on one stack, for a dead upvalue that is captured again, and for objects left unswept. A resume
  passes no values; the function of the coroutine and what it yields do travel.
- patterns: 16 patterns with every kind of item, on all words over two letters up to length 4, with
  three replacements and limits 1 and 5.
- lexer: all texts up to three characters from 13, one character per chunk, and 23 longer ones with every
  cut into two chunks; a look-ahead at every place.
- buffers: blocks of 3 characters, strings of 0, 1, 2, 4 and 7, an array filled by 1 to 3, and a limit of 4 slots, up to
  22 characters: strings shorter and longer than a block are joined, all of them or some.
- lists: all lists of three keys up to length 6. References: up to 5, two values.

Symmetry is used only in the two safety runs of the collector, over the addresses that are not roots.
Deadlock is switched off where the system stops: a closed state, a call that has returned, a text that
is read. `MaxNet`, `MaxFunds`, `MaxDepth`, `MaxFrames`, `MaxRefs`, `MaxStack`, `MaxBasic`, `N`,
`MaxActive`, `MaxObj`, `MaxThreads`, `MaxSteps`, `MaxText`, `MaxLen` and `MaxRef` are bounds of the exploration and not of the
code (no program of `MCLuaVM` comes near `MaxSteps`); `WithinBound` in `LuaError` stops following a count that
has passed its limit.

### Fairness

- `PatientSpec` (Trade): a player who keeps pressing "Advance time". The property assumes in addition
  that he does nothing else from some time on; nothing forces him.
- `FairSpec` (LuaError): an activation at a failed check executes its `return`. The code is
  sequential: nothing can prevent it.
- `FairSpec` (LuaGC): the collector keeps stepping, as it does while the program allocates; the
  program itself has no fairness.
- `Fairness` (LuaFinalize, used by `parts`): finalizers end, and `lua_close` does not stop in the middle. A finalizer that
  loops forever would make `lua_close` hang; this is assumed away.

## What the violations say

- Most library functions have no `LUAI_ERRORCHECK` after a failed argument check. `luaB_setmetatable`
  sets the metatable after its argument error has been raised (`lbaselib.c:131`).
- `lua_yield` across a C call sets `L->status` after raising its error (`ldo.c:484`). If a
  `pcall` catches that error the coroutine counts as suspended while it runs, and after it has finished.
- After one failing finalizer, `luaC_callGCTM` takes the remaining userdata off its list without calling
  them (`lgc.c:468`), against the comments of `lstate.c:195` and `:205`.
- The compiler codes an unconditional jump for a constant operand of `and` or `or` right behind the jump of
  a `TESTSET`. `getjumpcontrol` takes the `TESTSET` for that jump's own, and `need_value` finds no need for
  a value (`lcode.c:126`, `:626`, `:657`): `(b or true) and true or true` is the value of `b`. It takes
  three such operators; the expressions of `compiled_programs` have at most two.
- A constructor of 26901 to 26950 items ends with batch number 539, whose low six bits are the number of
  `OP_TESTSET`. If a jump that carries no value comes right behind it (`if false then ... end`), `getjumpcontrol` takes
  the count for that jump's test and `patchtestreg` turns it into a `TEST` (`lcode.c:116`, `:139`): the count is
  now 26, and the last items are stored over those of batch 26, while their own places stay empty. The checker accepts
  the code: it knows that a count can look like an instruction (`ldebug.c:368`), the generator does not. (Batch 26 is none of
  those the model has, so here the items go below index 1.) Where the jump back of a loop stands behind the constructor the count
  is rewritten too, but the table is out of reach by then, and `compiled_programs` has that program. A number that looks
  like a `LOADNIL` can deceive `luaK_nil` (`lcode.c:44`) in the same way: after `local t = {...}` with 16387 batches, 16387 being a
  `LOADNIL` of registers 0 and 1, the `LOADNIL` of `local x` is not coded and `x` holds an item. That one program
  violates `BehavesAsWritten` as well and is in neither run; the same with other registers is in `compiled_programs`.

Four disagreements seen while modelling or proving have no run of their own: a floor price typed in the page is
concatenated to the rise of the price (`merchFuncs.js:247`, modelled in `NormalValue`); Redraw does
not go to the latitude in its box (`merchFuncs.js:270`, modelled in `MapView`); and the disabled assertion
of `lgc.c:666` that no barrier runs between the sweep and the next cycle does not hold for a userdata
that waits for its finalizer and is reached through a weak-key table (`LuaGC`; it does no harm). The fourth was met in the proof that the
collector implements `Heap`, which fails if "set aside" means "can no longer be reached": a full collection
marks from the roots again (`lgc.c:637`) and separates the userdata it has not reached (`lgc.c:544`) before it
marks those that wait in `tmudata` (`lgc.c:545`). If the program has got a waiting userdata back from a
weak-key table or another finalizer, what only that userdata leads to is separated, and finalized, while the
program can still come to it, where the comment at `lgc.c:127` speaks of moving "dead" udata. It takes five
objects, one more than `gc_lost` explores; `Heap` states what the code does.

## Proofs

Each component's theorems are in a module of its own, `<component>Proof`, and hold for every value of the
constants that satisfies the component's ASSUME (`ErrorConstants`, `MapConstants` and so on, which say no more
than what the source says of them) and the hypotheses in the tables. Where a theorem says `[]IInv`, `IInv` is the
inductive invariant: `InitInv`, `NextInv` with one lemma or step per action, and from it the properties of the
runs.

`Induction` holds what the proofs needed of the natural numbers and the library states with an operator
parameter: a nonempty set of naturals has a least member, a set with 0 and all successors is `Nat`, and a
function defined by primitive recursion, on `Nat` or up to a bound, exists. They are stated of sets and
functions, so that they apply to the recursive functions of the models (`Total`, `Aged`, `Reachable`). It also holds
what is known of `Reachable` itself (`ReachSteps`, `ReachStays`).

### Errors: `LuaErrorProof`

For every limit, slack and depth; the last two speak of programs all of whose sites check (`checked`), the others of
any mixture of checked and unchecked sites:

| Theorem | States |
|---|---|
| `TypeCorrect` | `Spec => []TypeOK` |
| `HandlersAreChained` | `Spec => []HandlerChain` |
| `PendingErrorHasItsHandler` | `Spec => []PendingIsInnermost` |
| `ProtectedCallsRestore` | `Spec => ProtectedCallRestores` |
| `FailedCallsStop` | `Spec => []CheckedCodeStops` |
| `ReturningIsALongJump` | `Spec => ImplementsLongJump` |

The inductive invariant is
`IInv == TypeOK /\ HostAtBottom /\ HandlerChain /\ PendingIsInnermost`. The chain speaks of every record
on the stack and not only of the installed one, because a return from a protected call installs its
`previous`, which must then be the innermost protected call of the shorter stack (`ChainAfterPop`).
`PendingIsInnermost` needs the chain: a return with an error clears the state, and only because the
protected call that returns is the innermost one does no pending error remain without a handler.
`HostAtBottom` keeps the stack from becoming empty. Type correctness is not inductive without the chain:
that `errorJmp` stays within a shorter stack is a consequence of it.

`FailedCallsStop` adds `Prompt`: with all sites checked, a frame's status is not "ok" only while an
error is pending and only in the installed handler, code does not run while an error is pending, and
every call and handler frame on the stack is at a checked site. It is preserved by every step from a
state that satisfies `IInv` as well (`PromptStep`). Each preservation proof has one step per action,
with lemmas for throwing, entering and leaving an activation that several actions share.

`ProtectedCallsRestore` adds `Balanced`. On an error, `luaD_pcall` puts back what it saved, whatever has
happened; the success path restores nothing and relies on every call above having counted down what it
counted up. With unchecked sites that is not so in general: a call that returns at a failed check leaves its
counts. `Balanced` is therefore stated from a protected call that no error has reached yet, over plain
calls only (`Clean`): each of them counts one, in what the activations saved (`Kept`) and in the counters as they
stand (`Current`). Counts that are never taken back exist only above a protected call with an error, where it says
nothing and the error path restores.

`ReturningIsALongJump` shows that each step of `LuaError` is a step of `Unwind` or leaves its variables alone, and
that the initial states agree. While an error is pending the activations above the handler are not seen (`View`),
so that the throw is the jump (`ThrowJumps`), each return at a failed check is a stutter (`UnwindStutters`) and the
protected call that returns is the catch (`CatchJumps`). It needs, beside `IInv` and `Prompt`, that a message
handler runs inside some protected call (`HandlerHasTry`). Of the other programs the refinement is false, and
`lua_errors_unchecked` shows why.

### Collector: `LuaGCProof`

For every finite set of addresses, every sweep step and every bound on references and stacks:

| Theorem | States |
|---|---|
| `Collector` | `Spec => []IInv` |
| `SafeFromTheCollector` | `Spec => []UsableIsSafe` |
| `ListsAreDisjoint` | `Spec => []OneListEach` |
| `DeadWait` | `Spec => []DeadAwaitSweep` |
| `CollectorIsHeap` | `Spec => ImplementsHeap` |

`UsableIsSafe` speaks of everything the program can come to, which no single step can be checked against; the
invariant replaces it by facts about single references. `Closed`: no root is condemned and nothing
living refers to anything condemned. That survives the atomic step because of `BlackSeesNoWhite`, the
tricolour invariant, which every barrier is there for: `AtomicMarks` shows that what the atomic step marks is all
that white objects lead to, so that the white ones left are only referred to by one another. The rest says what
those two need: what kinds of objects refer to what (`Shape`; a string to nothing, and a userdata to tables only),
which colours a kind can have (`Coloured`; a thread is never black, a userdata never gray), that the running
coroutines hold each other (`Nested`), where each gray object is listed (`OneListEach`), that condemned objects
are still to be swept (`DeadAwaitSweep`) and that what is swept has the colour of the next cycle (`SweptAreWhite`).
`InvIsSafe` goes from one reference to all paths with the lemmas on `Reachable`, a recursion as deep as there are
objects: it is a fixpoint because a set of n objects can grow n times only (`ReachSteps`, `ReachStays` of `Induction`).

`CollectorIsHeap` shows for each program step that it is `Heap`'s step on usable objects, that sweeping is the
reclaiming of lost ones, that the atomic step sets userdata aside and clears weak entries of lost objects only, and
that the rest of the collector is invisible.

### Trading: `TradeProof`

For any commodities, islands, distances, waves, percentages and histories:

| Theorem | States |
|---|---|
| `PagesAreKept` | `Spec => []IInv` |
| `HistoriesAreCanonical` | `Spec => []HistCanonical` |
| `ShownIsCharged` | `Spec => []ShownPriceHolds` |
| `LedgerFollows` | `Spec => LedgerFollowsCargo` |
| `FundsFollow` | if `Margin` then `Spec => FundsFollowPrices` |

`IInv` is the types, `HistCanonical`, and `WindowIsCurrent`: an open window is what `updateInfoWindow` would
write now, except that its floors may be from before an edit. With that, `ShownIsCharged` is about rounding alone,
which for a negative price can make the price paid one more than the one on the button.

`LedgerFollows` compares the sums of two histories of which one has an entry more, less, or with another
value (`Sums`, `Apart`), by induction along them. `HistoriesAreCanonical` has one difficult step, the loop of `AdvanceTime`,
which splices the array it walks; the passes of the loop are followed one by one (`Passes`): what has been kept
so far came from different entries of the old history, and nothing comes twice though some entries are stepped over.

`FundsFollow` needs `Margin == (100 + ChangePct) * SellPct <= 10000`: one unit bought must not move the price by
more than the spread between buying and selling. The code has 2 and 85, 8670; `MCTrade` is inside the margin too.

### Coroutines: `CoroutineProof`

For any set of coroutines, any limit and slack, and any depth of activations:

| Theorem | States |
|---|---|
| `CoroutinesCount` | if `~BoundaryYields` then `C!Spec => []IInv` |
| `CountTellsDepth` | if `~BoundaryYields` then `C!Spec => []CountIsDepth` |
| `ResumesOnlyWaiting` | if `~BoundaryYields` then `C!Spec => ResumedWasWaiting` |

The hypothesis is about the program, not the interpreter: it does not try to yield across a C call. For one that
does, `ResumedWasWaiting` is false, which is the run `coroutine_failed_yield`. `CountIsDepth` speaks of
the running thread only; the invariant (`Running`, `Counted`) of every thread on the C stack and every activation: what
`luaD_call` or `lua_pcall` saved is the base of its thread plus the C calls below it, and each thread's base is
one more than the count of the thread that resumed it (`Nested`). So an error, which drops activations and takes back what
one of them saved, arrives at the right count. `Waiting` says that a coroutine that has yielded holds no C call,
which is why a resume may start it from the base. Adding up along the C stack is an induction
over `nest`.

### Upvalues: `UpvalProof`

For any number of addresses and threads, any size of a stack and of a step of the sweep:

| Theorem | States |
|---|---|
| `Upvalues` | `U!Spec => []IInv` |
| `UpvaluesStaySafe` | `U!Spec => []UpvalsAreSafe` |

The argument is that of `LuaGCProof`: `Closed` says of the references of every living object, reachable or not, that they
do not lead to a condemned one. Here a reference may go through the stack of a thread (`ValueIn`), which the
program writes without a barrier, and an open upvalue is found from closures, never from its thread. `Marking` says where each
gray object waits: on the gray list, among the threads to be traversed again, or as an open upvalue on `uvhead`, which is
why `AtomicInv` needs `remarkupvals`. `Sweeping` says that all the sweep has passed is white, the open upvalues of
threads it has passed included: `FindUpval` may hand out a dead upvalue of a thread that is still to be swept, and whitens it.

`ProgramStep` is the step of the program in general: it makes objects, brings dead upvalues of the running thread back
and writes values that are alive to stacks. `Capture` uses it with one closure and up to two upvalues; `SetUpval` of
a closed upvalue and `Close` have barriers and proofs of their own, and each action of the collector has one. `Lists` (the invariant
behind `OpenListsAgree`) says that every thread's list holds its open upvalues from the highest slot down, which `Inserts`
keeps when one comes and `Leaves` when the sweep unlinks some.

### Tables: `TableProof`

For any keys (natural numbers up to `MaxInt`, and strings and objects of any hash), any sizes a table is made
with and any lists:

| Theorem | States |
|---|---|
| `Tables` | `H!Spec => []TableInv` |
| `TablesAreMaps` | `H!Spec => ImplementsMap` |
| `RehashingLeavesRoom` | `H!Spec => []RehashLeavesRoom` |
| `LengthsAreBoundaries` | `H!Spec => []LenIsBoundary` |

None of the three properties is inductive. `TableInv` says of the table (`Good`):

- what is stored is stored under its own key (`Filled`);
- the chains end: there is a rank that falls along `next` (`Ranked`), no two nodes go on to the same one (`Apart`), and a
  node without a key is on no chain (`Loose`). Without `Apart`, moving a colliding node would cut the chain
  of another, and without `Loose` a free node could still be pointed to;
- no node from `lastfree` on is free (`LastFree`), which is what makes `GetFreePos` right to search downwards only;
- the search for the key of a node from its main position ends at that node, and the array has none of
  the keys of the hash part (`Found`);
- a node at a main position where a key belongs has a key that belongs there (`Home`): Brent's condition. It is why
  `Previous` finds a node to relink when `Place` moves the one in the way.

A search is the least fixed point of a recursion along `next`; `AlongStep` unfolds it once and `ChainInduction` proves facts of
all nodes by their rank. `PlaceIs` is the insertion, one case for each branch of `newkey`; `MovedIsGood` is the
hard one, where a node goes to the free place and its chain has to be followed around it. `ResizeIs` puts
everything back: `Filling` says what is in the new table already and that the places left suffice for what
is still to come. That they do (`RehashIs`) is a count: `computesizes` counts exactly the integers that will lie in the
array (`ComputeSizesIs`), and the rest, the new key with them, fit the nodes.

The refinement adds that the map is what the program reads (`map = Contents(table)`) and that the keys still to be visited are
those in slots behind the last key's (`Visiting`). The last key may have been collected meanwhile: `FindIndex` finds
the dead key in its old place, as `CollectedIs` shows. For the length, a search keeps a present number or 0
below an absent one (`Bounds`); `BetweenIs` shows that it ends with neighbours, `UnboundSearchIs` that
doubling ends.

### The map, the phone and references: `PartsProof`

For every list of commodities, every wave and every set of latitudes; every number of buttons and islands and
every set of screen sizes; any values and any number of places in a table:

| Theorem | States |
|---|---|
| `LayersShareTheCentre` | `Spec => []OneCentre` |
| `RedrawDoesNotCreep` | if `Rows <= Period[c]` for every commodity then `Spec => RedrawSettles` |
| `FixIsShown` | if `LayoutInTime` then `P!Spec => []FixShowsItsIslands` |
| `ReferencesHold` | `R!Spec => []RefsFindTheirValues` |

The map: `OneCentre` is inductive with the types of `draw` and `icons`. `RedrawDoesNotCreep` rests on
`WaveStartStays`: the last drawn row about the start of a wave lies in the same wave, so that the wave's
start is what `getWaveValue` leaves again; this is where the condition on `Rows` is needed. It uses that
the commodity drawn last exists (`LastDrawnIsDrawn`) and that the latitudes are numbers (`Numbers`).

The phone: the invariant adds what the handlers rely on without checking: fixes come only after the timer
(`FixesFollowTimer`), the size is known and stays once they may come (`SizeIsKnown`), the stack holds the
call's three slots while the script runs (`StackOfCall`), and the islands placed so far are on the first
buttons with all others invisible (`ButtonsInOrder`), from which `AddIslandTakesNext` shows that the search
for a free button ends at the next one.

References: that the places in use differ and hold their values does not survive a step on its own; a place
the list gives out must not be in use. The invariant says that the free places, read from entry 0 on, are a list q without
repetition and without a place in use, in which each names the next (`FreePlaces`). `luaL_ref` takes its head or
a place after the end of the table, which is neither free nor in use (`CandidateIsFree`: an entry in use is
not nil, and one after a boundary is). `luaL_unref` puts a place in front.

### Finalizers: `PartsProof`

For any number of userdata and any depth of collections inside finalizers, failing ones included:

| Theorem | States |
|---|---|
| `Finalizers` | `F!Spec => []FinalizeInv` |
| `FinalizersRunOnce` | `F!Spec => []FinalizedOnce` |
| `HooksComeBack` | `F!Spec => []HooksBack` |

`Userdata` says that the two lists hold each userdata once between them, that those called are not among those
that wait, and, while finalizers do not fail, that each one marked as finalized waits or has been called. The proof rests on lemmas about
sequences without repetition (`Lists`): joined, cut and filtered. `HooksBack` alone is not inductive, because a finalizer
puts back what it found: the invariant `Hooks` follows the outermost one, which found the program's hooks, and says that
an error on its way out of all of them is the only other reason for hooks to be off.

### String buffers: `PartsProof`

For any size of the array, any limit of stack slots above one, and strings of any lengths in any order:

| Theorem | States |
|---|---|
| `BuffersHoldText` | `Buf!Spec => []BufferHoldsText` |

The invariant `BufferInv` is the property with the types (`Holds`, `Roomy`); the work is in the step. `Concat` is a
recursion along the strings on the stack: `ConcatAppend` unfolds it at the end, `ConcatBoth` and `ConcatParted` say that the
last strings can be replaced by their concatenation. `ToGetIs` says that the loop of `adjuststack` ends with a number
of strings between 1 and `lvl`, so that the text stays as it was (`AdjustHolds`); it stops before the last string only when
fewer than `Limit` slots are left, which is where the limit comes from. Each way to add text has a lemma of its own.

### Lists: `PartsProof`

For any keys and lists of any length:

| Theorem | States |
|---|---|
| `ListsAreKept` | `Lst!Spec => []ListsKept` |

The invariant `Kept` has a part for each call. For sort (`Sorting`), `Same` says that the list has the elements it began with, and
`Stacked` is about the parts still to be sorted: they lie in the list (`Parted`) and apart from each other (`Apart`), each is at
most half of what was sorted when its call began (`Halving`), and two elements out of order lie in one of
them (`Ordered`). The depth follows from the halves (`Doubles`, `DepthIs`), the order at the end from the empty stack. `Scans` is the comment
"invariant: a[l..i] <= P <= a[j..u]" of `ltablib.c` for the part on top. It is what stops the scans: the
pivot at u - 1 the one going up, and the median of three at l the one going down. `Parting` is the step
that puts the pivot between the halves, and `WithinSwap` the fact about exchanges everything rests on. For insert and
remove (`Inserting`, `Removing`), what has been moved and what is still to be moved; `PutBetween` and `TakenOut` say that the
list at the end is the one `ListsKept` speaks of.

### What is model-checked only

- All liveness (`Collected`, that errors arrive, that prices recover, that closing ends): fairness and
  `ENABLED` are out of the prover's reach.
- The compiler, the virtual machine, the code checker, the lexer, patterns and chunks: their
  modules declare recursive operators, which take the prover's arithmetic away, and most of their properties speak
  of what a recursion computes.

## Not modelled, and the plan

Next, in this order:

1. That the hold of `Trade` never exceeds `MaxCargo`.
2. Reallocation of stack and CallInfo under the C functions that hold pointers into them, and failing
   allocations with their unchecked results (`lstring.c:28`).
3. Division, modulo and power, and the order of strings, in `LuaVM` and `LuaSemantics`.

Left out for good: floating point and geometry; the formatting and conversion functions of the libraries;
syntax errors (the parser model walks programs that are well formed); hooks; the string table's hash; the
libraries the game never opens; the command line tools and the link-time stubs. The code is run by one
thread of the platform, and nothing persists.
