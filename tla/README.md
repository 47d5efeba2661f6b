# A verification project for lua.wasm

lua.wasm is the Lua 5.4.8 core of PUC-Rio, unchanged (`src/src/*.c`), built as
C++ for WebAssembly together with a glue file, `src/src/onelua.c`: a
micro-runtime for C++ exceptions and `setjmp`, shims for what WASI lacks, and
the reactor interface through which a host loads and steps Lua programs. This
directory holds TLA+ models of the parts of that system that are hard to get right: those
whose correctness depends on the *order* of events, and the algorithms that
must be exact at the limits of their inputs. It says what TLC checks of them on small instances,
and what TLAPS proves of them for all instances.

`PROJECT.json` is the index: the components, the runs, the source lines each
definition was translated from ("map"), the places where the code is easy to get
wrong ("hazards") with the properties that watch them, and the findings.

To check a run: `tlc -config MCTable.cfg MCTable` (`MCParts` takes some minutes). To check the proofs:
`tlapm LuaGC_proofs.tla`, and the same for `LuaGC_lists`, `LuaGC_safety`, `LuaGC_refines` (each of which rests
on those before it), for `Calls_proofs`, `Calls_safety`, `Calls_closing` (the same), and for `Reactor_proofs`; up to half an hour each.

## The system

| Component | State | Operations | Works with |
|---|---|---|---|
| Garbage collector (`lgc.c`) | colour and age of each object; `allgc`, `finobj`, `tobefnz` with the pointers into them; five gray lists; `gcstate`, `gckind`, `sweepgc`, `gcstp`, `gcemergency` | `singlestep` in nine phases, `atomic`, young and full collections, changes of mode, barriers, `luaC_checkfinalizer`, `GCTM`, `luaC_freeallobjects` | everything that stores a reference |
| Closures and upvalues (`lfunc.c`) | open upvalues of a thread, `twups`, `tbclist` | `luaF_findupval`, `luaF_close`, `luaF_newtbcupval` | collector, calls, virtual machine |
| Calls, errors, coroutines (`ldo.c`, `lstate.c`, `lcorolib.c`) | CallInfo list, `nCcalls`, `errorJmp`, `errfunc`, `status`, stack of each thread; the C stack | calls, `luaD_throw`, `luaD_pcall`, `lua_pcallk`, `lua_resume`, `lua_yieldk`, `precover`, `luaE_resetthread`, `luaD_growstack`, `luaD_shrinkstack` | closures, virtual machine, the host |
| Tables (`ltable.c`) | array part, hash part, `alimit`, `lastfree` | lookup, `luaH_newkey`, `rehash`, `luaH_resize`, `luaH_next`, `luaH_getn` | collector (weak tables, dead keys, emergency collections) |
| Strings (`lstring.c`) | table of short strings, API cache | `internshrstr`, `luaS_resize`, `luaS_remove`, `luaS_new` | collector |
| Reactor (`onelua.c` 340-478) | `luaw_L`, two registry fields, two stacks | `luaw_init`, `luaw_run`, `luaw_start`, `luaw_step`, `luaw_last_error` | C API, calls |
| Compiler (`llex.c`, `lparser.c`, `lcode.c`) | function state, blocks, variables, pending gotos, jump lists | one pass over the source | collector (anchors), virtual machine |
| Virtual machine (`lvm.c`), metamethods (`ltm.c`) | the registers | instructions, arithmetic, comparison, loops | all of the above |
| Numbers (`lobject.c`, `lvm.c`, `lmathlib.c`) | none | conversions, `luaO_arith`, `forprep`, `project` | virtual machine, libraries |
| Libraries (`lstrlib.c`, `ltablib.c`, `lutf8lib.c`, ...) | captures, buffers, the recursion of `sort`, `package.loaded` | patterns, pack, positions, UTF-8, list functions | C API |
| Precompiled chunks (`ldump.c`, `lundump.c`, `lzio.c`, part of `lauxlib.c`) | the position in a stream of blocks | dump, load, `luaL_loadfilex` | compiler |
| C API (`lapi.c`) | none of its own | | all of the above |

How they interact. The *collector* runs inside any allocation, so between any two
steps of a program; an allocation that fails runs a whole collection, an
emergency one, in the middle of whatever needed the memory. Finalizers are Lua
programs that the collector calls in the middle of the one that runs. An *error*
or a *yield* is a C++ throw through C code that was written for it. Coroutines
are resumed on the C stack of the one that resumes them. The *compiler* promises
the *virtual machine* how many registers a function needs and which variables its
jumps leave; nothing checks that at run time. The *host* calls the
reactor once per frame and finds it in whatever state the last call left.

What is hard, then: the program and the collector interleave at every allocation
and meet through the barriers and the weak tables; ages and the sublists of young objects
must agree with what old objects refer to; C stack and CallInfo list must
agree after any throw; functions run again from their middle after a yield; the stack
must have room for the handling of its own overflow;
tables are rebuilt while entries disappear from them; `alimit` is two variables
in one; a one-pass compiler commits itself to registers and jumps before it has seen the rest; integers wrap
around, floats round, and `size_t` is narrower than an integer on wasm32; and the host may call in any order.
What makes each component correct:

- *collector*: nothing the program can still reach is freed or cleared, what it
  cannot is eventually freed, finalizers run once, in order, before their object
  goes, and what the collector does between two steps of a program cannot be told
  from an atomic collection; in generational mode old objects that may refer to young ones are known;
- *calls*: an error ends in the innermost protected call and nowhere else, a yield
  never crosses what cannot be resumed, to-be-closed variables are closed once,
  the counters of C calls balance, a throw ends where `luaD_throw` means it to, and no push goes past the stack;
- *tables*: a table is a map, a traversal visits each key once whatever is removed
  meanwhile, `#t` is a border, the size of the array part is never lost;
- *strings*: no two short strings are equal, and none that is used is freed;
- *compiler and virtual machine*: the host sees what the text of the program means;
- *numbers, libraries, chunks*: the result is that of the definition, on every
  argument, or an error; what is written is read back;
- *reactor*: what each call returns, the message and the resident program agree.

## The modules

| Module | Models | Of |
|---|---|---|
| `LuaGC` | the incremental collector with the program that runs beside it | `lgc.c`, parts of `lfunc.c`, `lstring.c`, `lapi.c`, `lstate.c` |
| `Heap` | what a collector promises a program; abstract, implemented by `LuaGC` | |
| `GenGC` | the generational mode, and the changes between the modes | `lgc.c` 1046-1467 and what it calls |
| `Strings` | the string table and the API's cache | `lstring.c`, parts of `lgc.c`, `lmem.c` |
| `Stack` | the size of a thread's stack | `ldo.c` 90-345, `luaG_errormsg`, `luaT_callTMres`, `lua_checkstack` |
| `Calls` | calls, errors, coroutines, to-be-closed variables | `ldo.c`, `lstate.c`, `lfunc.c`, `lcorolib.c`, parts of `lapi.c`, `lvm.c` |
| `Table` | tables, with the collector's effect on them | `ltable.c` |
| `Map` | a map with traversal; abstract, implemented by `Table` | |
| `Reactor` | the entry calls of the host | `onelua.c` |
| `Values` | the values of a program and their operations | `lvm.c`, `lobject.c`, `ltm.c` |
| `Code` | the code generator | `lcode.c` |
| `Parser` | scopes, expressions and statements | `lparser.c` |
| `VM` | the instructions, one a step | `lvm.c`, parts of `ldo.c`, `lfunc.c`, `ltm.c` |
| `Semantics` | what a program means; abstract, what compiled code is compared with | |
| `Numbers` | comparison, arithmetic, loops, numerals, random intervals | `lvm.c`, `lobject.c`, `lmathlib.c` |
| `TableLib` | list functions and `sort` | `ltablib.c` |
| `Match` | pattern matching, `find`, `gmatch`, `gsub` | `lstrlib.c` |
| `Pack` | `string.pack`, `packsize`, `unpack` | `lstrlib.c` |
| `Text` | positions in strings, UTF-8 | `lstrlib.c`, `lutf8lib.c`, `lobject.c` |
| `Chunks` | dump and load, buffered streams, files with headers | `ldump.c`, `lundump.c`, `lzio.c`, `lauxlib.c` |
| `Job` | one call of a function without state (arguments, then answer), which the six above extend | |
| `LuaGC_proofs`, `LuaGC_lists`, `LuaGC_safety`, `LuaGC_refines` | lemmas and theorems about `LuaGC`, each module extending the one before | |
| `Calls_proofs`, `Calls_safety`, `Calls_closing` | lemmas and theorems about `Calls`, each module extending the one before | |
| `Reactor_proofs` | lemmas and theorems about `Reactor` | |
| `MC*` | instances for TLC: `MCMemory` composes `GenGC`, `Stack` and `Strings`, `MCCompiler` the compiler with the machine, and `MCParts` that with the functions, `sort` and `Reactor` | |

Definitions keep the names of the code where there is one. Those marked
"mutant" are plausible bugs: alternatives to the definition below them that no
specification uses, kept to show that each property can fail
(`PROJECT.json`, "mutants").

### LuaGC and Heap

An object is a member of `Obj`, of a kind (thread, table, closure, string,
upvalue; userdata behave as tables, C closures and prototypes as closures). Its
content is a set of entries `<<key, value>>`, for a thread the values on its
stack. The variables are the fields of `global_State` and of the objects: `mark` is
the colour bits of `marked`, `list` the three object lists, kept in order, `gray` to
`allweak` the gray lists. One call of `singlestep` is one action, except that

- `atomic` is one action per loop or iteration (variable `at` is its program
  counter). Nothing else is enabled meanwhile, so this only names its steps;
- the program may run between any two objects of a sweep, where the code sweeps
  `GCSWEEPMAX` = 100 at a time; the code's behaviours are among the model's.

`luaC_fullgc` pushes a record on `full` and takes the same steps with the program
suspended; an emergency collection may start in another one's finalizer, hence a
stack. The program (`ProgramStep`) creates objects and
upvalues, interns strings (and resurrects dead ones), loads and stores references
with the barrier each store has in the code, captures and closes upvalues, sets
finalizers and weak modes, resumes and yields, stops and restarts the collector and closes the
state. How much work a step does (debt, pause, step multiplier) is left open: the
collector may take a step at any time.

`Heap` says what all this is for: it knows what the program can reach, strongly or
not, and lets the collector free, clear and condemn accordingly, in one step. The
program may write what it has at hand, and mark objects for finalization until the state closes.
`ImplementsHeap` is the refinement.

Left out: `luaS_clearcache` (in `Strings`), the sizes of
things, `luaC_fix`. `Slots`, `MaxStack` and `MaxEntries` bound what objects hold.

### GenGC

The heap is one record, `gen`: for each object its kind, colour, age and references, the lists with the
pointers that divide them into generations (`survival`, `old1`, `reallyold`, `firstold1` and those of `finobj`), and the gray lists.
A collection of this mode is not incremental, so it is one action, `Collect`: a composition of operators that follow
`youngcollection`, `fullgen`, `stepgenfull`, `entergen` and the functions they call, in their order (`MarkOld`, `Atomic`, `SweepGen` on each
sublist, `CorrectGrayLists`, ...). Between collections the program makes objects, loads, stores and erases references, captures, shares,
joins, assigns and closes upvalues, and sets finalizers; each store is followed by the barrier its C code has. What a collection
decides from the amount of memory (a minor one, a major one, whether a major one was a bad one and the next is stepped) is free.
In incremental mode this model has the collector at rest, which is where `entergen` and `enterinc` need it.

Left out: gray lists are sets, strings and userdata do not occur, the program runs in the main thread (it fills the stacks of others), and allocations do not
fail inside a collection. `uses` and `room` select the kinds of objects and how many there are.

### Strings

`str` is the string table (`hash`, `size`, `nuse`), one row of the cache of `luaS_new`, and which strings the program holds; which others a
collection finds dead is free. `Intern` is all of `internshrstr` with the growth it may start; each of its two allocations succeeds, succeeds after an
emergency collection, or fails. `StringsDie`, `SweepString` and `SweepEnd` are the collector's side in incremental mode, where the sweep runs beside the program;
`SweepEnd` may shrink the table, and shrinking may fail. Left out: long strings, and how a hash is computed (`Hash`). One simplification: if both
allocations of one interning collect, the same strings die in both.

### Stack

`thr` has the stack's size and top, the frames (`func`, `top`) and the protected calls; slots have no content and a pointer is an index, so that
`luaD_reallocstack`'s correction of pointers is left out. A function may fill its frame, call a function of any size, a metamethod or a protected call with or without
a message handler, ask for room (`lua_checkstack`), return or fail; every allocation may fail. `ErrorMsg` is `luaG_errormsg` with its call of the handler, which may
itself overflow. `CollectStack` shrinks the stack at any moment. Two history variables, `over` and `kept`, say for what the extra space of an overflow is in use.
The nesting of C calls has the bounds `MaxCalls` and, for handlers, `MaxCalls + 3`.

### Calls

Each thread has its CallInfo list (`ci`), without values: a position in the Lua stack
matters only by how many pending to-be-closed variables lie below it, so it *is* that
number (`level`). `cstack` is the C stack, reduced to the activations that
a throw discards or stops at: `ccall`, `unroll`, `luaF_close` and
`luaD_rawrunprotected`, the last with what its caller saved in local variables. A throw is a value of
`mode`, and a step that pops the C stack down to a `prot` activation. Each activation has in `depth` how many CallInfos its
thread had when it began, where the code keeps pointers to them.
The C functions are those that matter for control: `pcall`, `coroutine.resume`, `wrap`
and `close`, and one (`call`) that calls back without a continuation, like `table.sort`.
A Lua function may at any moment call one of them, another Lua function or a
metamethod, enter or leave a block with a to-be-closed variable, return, yield or
fail. The host steps a coroutine from an empty C stack.

`Functions` selects what programs use, `MaxFrames` bounds the CallInfos of each thread,
`LUAI_MAXCCALLS` is small so that overflows happen; `ErrCcalls` is the limit at which an
overflow in the handling of an overflow ends in `luaD_errerr`. Left out: the size of the Lua stack (module `Stack`),
message handlers (only which one is in force is kept), hooks, the protected parser.

### Table and Map

`t` has the C fields: array part, nodes with relative `next` offsets, `lastfree`, and
`alimit` with its bit `isrealasize`. `control` is the key a traversal has reached. The
actions are the calls of the API: `Set` (all of `luaH_newkey`, with
collision moves and the rehash), `Read` and `Length` (which move the limit hint),
`Begin` and `NextKey`, and `Collect`, by which the collector removes entries and
marks their keys dead. A rehash counts first and moves afterwards, and its allocations come in
between: an emergency collection may then remove entries (`Grow`), or the allocation may fail for good
(`GrowFails`).

`Map` is a function with a set of keys that a traversal has still to visit. So that it can say what each operation does, both
have a variable `answer`: what the last operation was asked (key and value), what it answered, and which entries a collection in it removed.
`Map` then allows an assignment to change the key it was asked to change and no other, a failure to change none, and a read and a step of a traversal to
answer what the map holds; entries disappear only in a collection, alone or during growth, and only if the table is weak.
No action and no property reads the `answer` of an earlier step, so TLC compares states without it (`VIEW NoAnswer` in `MCTable.cfg`); the steps are all
checked, those that lead to a known state too.

Assumed: the allocator can always make a block smaller; assigning to an absent key ends a
traversal (the manual makes it undefined); float keys with integer values were normalised before
(`luaV_flttointns`). Left out: metamethods and the `flags` cache, how hashes are computed (`Hash` is a
constant), `luaH_resizearray` while a constructor is being filled.

An observation, checked with the family `lists` of `MCTable`: whenever `alimit` is a hint below the real size, the last entry of the array part is
empty, because a lookup or an assignment that reaches it moves the hint there (`luaH_getint`). The test
of it in `luaH_getn` (line 967) is never false; `GetN` keeps it.

### Reactor

`L` holds the stacks and the status of the threads and the two registry fields; each
entry call is one action, written as its calls of the C API (`Push`, `Pop`, `SetField`),
with every outcome of `lua_pcall` and `lua_resume`. Lua code may keep a reference to the resident coroutine
(`held`) and resume or close it from another chunk (`Touched`). The calls outside any protection may
run out of memory, which ends the instance (`OutOfMemory`). The host does not call in while a call
is in progress. `luaw_init` neither sets nor clears the message, so `ErrorReported` is
about the other calls.

### Values, Code, Parser, VM and Semantics

The compiler model is the compiler: `Parser` follows `lparser.c` function by function and calls the operators of `Code` as
`lparser.c` calls `lcode.c`, with expression descriptors, jump lists threaded through the offsets of the jumps, register allocation, constant
folding, pending gotos and their patches, and the peephole changes of instructions already emitted. What it is given is the tree of a program and
not its tokens: the lexer, the grammar and the precedence of operators are left out. `VM` then runs the code, one instruction a
step, over a single stack with frames, open and closed upvalues, to-be-closed variables, tables and closures, and a `trace` of what the host functions have seen.

`Semantics` is the definition: an evaluator of the same tree with a store and environments, with no registers, instructions, jumps or upvalues. `CodeMeansProgram` says that the
two agree. Operand sizes are constants (`MaxArgC`, `MaxArgBx`, `MaxIndexRK`), which are tiny in the run, so that
constants that do not fit their operand, and the instructions used then, are the normal case.

Left out: line information, hooks, coroutines inside `VM`, `__index`, `__newindex` and `__call`. An error ends the program. Integers do not wrap around here
(`Numbers` is about that). A chunk runs to its end: loops have small limits.

### Numbers, TableLib, Match, Pack, Text and Chunks

Pure functions: each module translates them to operators and states what they must compute by an independent definition (sums
and quotients of mathematical integers, the set of all ways a pattern can match, the characters that a position of the manual's wording
names, ...). `sort` is a state machine, one comparison a step, since the comparison function may answer anything.

- `Numbers`: integers of `IntBits` bits, floats as multiples of one half with `Mantissa` bits, so that there are integers no float can hold; exponents do not overflow.
  A descending integer loop whose limit is NaN runs like one whose limit is below all integers, since `forlimit` (`lvm.c` 190-193) asks only whether the limit is positive;
  `LoopExact` leaves this case out. It compares the integers a loop goes through with those of the mathematical sequence.
- `Match`: a pattern is a sequence of items and a character class a set, so reading classes is left out; the depth of recursion (`MAXCCALLS`) is an argument.
- `Pack`: a byte has `ByteBits` bits and options have their size already read. A float is opaque. `MaxSize`, the limit of `packsize`, is one
  that formats of three options exceed.
- `Text`: a position has `PosBits` bits, a `size_t` fewer (`SizeBits`), as on wasm32. The property is about positions that a `size_t` holds.
- `Chunks`: a size is written in `ChunkBits` bits per byte. Instructions and numbers are opaque bytes.

## What is checked

| Run | Question | Properties | Bounds |
|---|---|---|---|
| `gc_barrier` | can any interleaving of stores, emergency collections and sweep steps lose an object? | `TypeOK` `NoDangling` `TriColor` `GrayLists` `SweepComplete` `Partition` | 4 objects: thread, table (strong or weak), table with finalizer, closure |
| `gc_weak` | does the collector do what `Heap` allows, with weak values, ephemerons, all-weak tables, resurrection and strings? | `ImplementsHeap` | a weak table of each mode over two tables and a string, 2 entries |
| `gc_upval` | does that survive coroutines that die with open upvalues? | `NoDangling` | two threads, closure, upvalue, table |
| `gc_finalizers` | does garbage go, are finalizers called, in order, once, before their object goes, also by `lua_close`? | `FinalizedBeforeFreed` `FinalizationOrder` `EventuallyFreed` `EventuallyFinalized` | two finalizable tables and an object one of them holds |
| `memory` | does the generational mode know the old objects that refer to young ones; are a stack and the string table sound wherever memory runs out? | `NothingLost` `GenerationsApart` `StackAndStrings` | six families of heaps of 2 objects (3 with upvalues); stack limit 10 and 4 for errors, 3 C calls; 5 strings in 4 to 16 chains |
| `calls` | do recovery and continuation find their place whatever has been discarded; do counters, status and pending variables stay true when threads resume and close each other? | `YieldSafe` `HandlerInForce` `ErrorsCaught` `ClosedOnExit` `CallsCounted` `StatusTrue` `ClosedOnce` `SameHandler` | family `nested`: main thread (3 CallInfos) and a coroutine (5: a protected call in another), 6 C calls, one to-be-closed variable; family `threads`: two coroutines, two variables, 5 C calls |
| `tables` | is a table a map, a traversal complete, `#t` a border, the array's size never lost? | `SearchesEnd` `KeyIsFound` `KeysImplementMap` `SizesKnown` `LengthsAreBorders` | family `keys`: 5 keys that collide, array part up to 4, emergency collections and failures; family `weak`: the same with 4 keys of a weak table; family `lists`: array part up to 16, sizes that are no powers of 2, 6-bit integers up to the largest |
| `parts` | are the small functions exact; does compiled code mean the program; do the reactor's status, message and program agree? | `NumbersExact` `ListsKept` `MatchingExact` `StringsExact` `RoundTrips`; `CodeMeansProgram` `RefusesOnlyBad` `WithinFrame`; `MainBalanced` `ErrorReported` `StepTruthful` `StartKeepsOrReplaces` | below |

and four runs that show a disagreement (see Findings): `gc_close_emergency`, `calls_close_main`, `reactor_finished`, `memory_join`.

A run whose module puts several machines side by side (`calls`, `tables`, `memory`, `parts`) has initial states that belong to one each, and properties that
say nothing of the others, because those are at rest in states that satisfy them. The families of `calls` have
different threads, so that `th` has a domain of its own in each, and the properties of `Calls` quantify over that; in its specification it is `Threads`.

The arguments of `parts`: integers of 5 bits and floats of a 3-bit mantissa, all pairs for comparisons and arithmetic, all steps and limits for loops from the
edges of the range; lists at all 4-bit indices, `sort` on up to 7 elements with an order, and with every answer a
comparison can give on up to 6; patterns of up to 4 items on subjects of up to 3 characters; formats of up to 3 pack options; strings of up to 4 bytes at all 6-bit
positions with 4-bit sizes; UTF-8 at the first and last code of each length and around the surrogates; dumped functions with a writer that fails
at 6 places and readers that cut at 4 lengths, files of up to 4 characters; three threads for the reactor. About 7000 chunks are compiled (expressions with up to
three operators, loops of every kind left in every way with captured and to-be-closed variables, assignments to up to three targets, variable
arguments, constructors, constants, goto), with operands up to 5, a constant operand up to 1, jumps and constants up to 9, and run on up to six pairs of arguments.

Why these bounds are enough to be of interest. The collector's hazards are about one
reference that moves from an unvisited object to a visited one: that needs a holder, a target
and somewhere to hide, three objects and the stack, and the incremental runs have one more; in generational mode a holder and a target of
every age, with the main thread, and upvalues with their closure and thread. A
hash part of four nodes has every kind of insertion: free main position, colliding
node in its place, colliding node out of place, exhausted free pointer; 6-bit integers make the
unbound search of `hash_search` double its index up to its overflow. Two
protected calls inside each other, one discarded by a yield and one not, are what
separates the innermost from the others; two coroutines and the main thread give every status.
In `calls` and `memory` the C stack and the Lua stack do overflow, also while an overflow is handled. A function of numbers errs at the ends of the
range or where a float cannot hold an integer, and 5 bits have both many times. The compiler's decisions depend on one or two operators
around an expression and on whether an operand fits. In all passing
runs together every action and every disjunct is taken.

Deadlock is checked except in `MCGCFinalizers` and `MCGCClose` (a closed state does nothing),
`MCReactorFinished` (nor does an aborted instance) and `MCParts` (nor that, nor a function that has returned, nor a program that has ended).

### Liveness and fairness

Only the collector has liveness properties. `FairSpec` assumes weak fairness of
`CollectorStep` (a program that goes on allocating pays for collector
steps through `luaC_checkGC`, and `GCdebt` makes it do so before memory doubles), of `FinalizerReturn`
(a finalizer ends) and of `DeleteAll` (`lua_close`, once called, runs to its end). Nothing is assumed of
the rest of the program: it need not drop, store or read anything. The assumptions
hold of a program that does not stop the collector for ever, which is why `gc_finalizers` has no `"stop"`.

## What is proved

Nine theorems about `LuaGC`, ten about `Calls` and five about `Reactor`, for every value of the constants. All safety properties of `LuaGC` that the runs
check are among them, and that it implements `Heap`.

### The collector

From `ConstantsAssumption` alone: any finite set of objects of any kinds, any slots, weak modes, finalizers and features, any bounds.
The invariant is built in layers, because each layer can be shown inductive only with those below it:

| Module | Invariant | What it says | Theorems |
|---|---|---|---|
| `LuaGC_proofs` | `TypeInv == TypeOK /\ SweepgcLinked` | types; the object `sweepgc` points into is in a list | `Typing` (`TypeOK`) |
| `LuaGC_lists` | `Control`, `Placement` | who may run when; each object is in one list, once, where its finalizer bit says | `OneList` (`Partition`), `FinalizersInOrder` (`FinalizationOrder`) |
| `LuaGC_lists` | `Sweeping` | what is behind the sweep's position has the current white | `SweepMissesNothing` (`SweepComplete`) |
| `LuaGC_safety` | `Safe == Shape /\ Closed(Live) /\ Marking /\ Twups` | below | `Reachability` (`NoDangling`), `Barriers` (`TriColor`), `OneGrayList` (`GrayLists`), `FinalizersFirst` (`FinalizedBeforeFreed`) |
| `LuaGC_refines` | `Weakness`, `Strength`, `Shut` | what the atomic phase knows of weak tables | `CollectorImplementsHeap` (`ImplementsHeap`) |

- *Typing.* `TypeOK` is not inductive: the sweep removes the object at its position from a list,
  and that position is found through `sweepgc`, a pointer into the list. If it could
  dangle, a sweep step would leave `Seq(Obj)`. `SweepgcLinked` is what `luaC_checkfinalizer`, which moves
  objects between lists under the sweep's feet, takes care of at `lgc.c` 1026-1029.
- *The sweep.* `SweepComplete` speaks of the end of a cycle. In between, the list `sweepgc` points into is split at that
  pointer, what is before it has been swept, and lists passed already hold only current white; new objects are put
  before the pointer, and an object moved by `luaC_checkfinalizer` or `udata2finalize` is repainted for that reason.
- *Safety.* `NoDangling` says that what refers to nothing dead now is safe now; what makes it last is that the
  set `Live`, all objects but those the sweep will free, is closed under references and holds the roots. When the collector flips the white,
  that follows from the tri-colour invariant and from nothing being gray any more. So
  `Marking` keeps, from `restartcollection` to the end of `atomic`, that black objects have no white successors,
  that every gray object is in exactly one list (it will be visited), that threads are never black while the program runs (stacks have no
  barrier), and, per stretch of `atomic`, which lists are empty by then. `Twups` is the subtle part: an
  open upvalue is gray without being in any list, and its value is marked through its thread or by
  `remarkupvals`, so a thread with open upvalues must be in `twups` or be visited later. `Shape` says what objects
  of each kind hold. There is one lemma per action, or per family of actions with one effect (pushes, drops, barriers).
- *Refinement.* Each action is shown to be a step of `Heap` or to be invisible to it: marking is invisible, clearing a
  weak list is `ClearWeak`, a stretch of sweep `Free`, `separatetobefnz` one `Condemn` per action, and all of the program `Run`. Two
  arguments carry it. What is not in `Live` is not accessible, so freeing it is allowed. And at the end of
  `convergeephemerons` the objects found are closed under what `Heap` calls strong references
  (`ConvergenceFinds`), hence hold everything strongly reachable: an entry that is cleared, or an object
  that is condemned, is not. That needs to know which weak table is in which list with which mode (`Weakness`).

Two hypotheses restrict these theorems, and each excludes something a run has shown to happen:

- `Orderly`: the state is open, or no emergency collection happens while it closes. The theorems from `SweepMissesNothing` on have it,
  as `lua_close` with such a collection does violate `SweepComplete`: run `gc_close_emergency`, below. Behaviours with emergency collections at any
  time before that, inside finalizers too, are covered, and so is `lua_close` without them.
- `SteadyModes`, for the refinement only: the program does not change the mode of a table that the running cycle has already
  put in `allweak`. If it makes such a table strong, `atomic` still clears it, while `Heap` says that a strong table keeps its
  entries. The manual allows it (2.5.4: a change "takes effect only at the next collect cycle"), but to say so `Heap` would have to know
  of cycles. `gc_weak` has tables of each mode and no `"setmode"`; the other theorems, and `gc_barrier`, do have it.

### Calls, errors and coroutines

For any set of threads and variables, any limits, any bound on the CallInfos of a thread and any selection of `Functions` without
`"close main"`: that hypothesis excludes what the run `calls_close_main` shows to break the counts. The recursion of the C stack is then unbounded but
for `LUAI_MAXCCALLS`.

The invariant, `IInv`, ties the CallInfo list of each thread to its activations in the C stack. Its parts are operators of the threads `T` and
the C stack `C`, and what they say of an activation mentions only those below it, because a throw
keeps a part of the C stack that may be any prefix of it: what is known of the prefix must not depend on what is discarded. The parts are

- `Stack`: for each activation, which one can have called it and from which CallInfo (`Linked`, `BlockStarts`); that the activations of a
  thread lie together (`Together`: the threads in the C stack form a chain, which is why a throw that passes a thread's own activations cannot happen) and began with more and more CallInfos
  (`Deeper`); and that what `luaD_rawrunprotected` saved is what the counters are at that depth (`Saved`).
- `Frames`: which CallInfos can lie on which. The central part is `Owned`: a C function without continuation is the last CallInfo or has an activation that forbids yields, or
  stops throws. So when the count of non-yieldable calls is 0, nothing but continuations is left (`YieldSafe`).
  `OldHandlers` and `IsInner` say that each protected call has kept the handler of the one around it (`HandlerInForce`), and `NoYpcall` that where yields are forbidden
  no call waits for `precover` (`ErrorsCaught`: otherwise the wrong one of two protected calls, one in the C stack and one only in the list, might be found).
- `States`: what a thread's status says about where it is; a suspended one ends with the CallInfo of `yield`.
- `Waiting`: the counters of a thread that waits in the C stack are those of its topmost activation, and those of the main thread out of it are at their base.
- `Live` and `TopOf`: the same for the running thread, and what `mode` allows on top. `Live` does not hold while a throw is on its way, and need not: `Restore` brings it back.

`Calls_proofs` has the lemmas of how the operations of the machine (`Ccall`, `Close`, `Protect`, `Restore`, `ResetThread`, `ResumeThread`, the
returns) change one thread and push or pop activations, and that each keeps the parts. `Calls_safety` has those that end activations, the throws, one lemma per action
(`ReturnKeeps`, `PrecoverKeeps`, ...) and the theorems:

| Theorem | Property | Follows from |
|---|---|---|
| `CallStructure` | `IInv` | one lemma per action |
| `TypeCorrect` | `TypeOK` | `Core` |
| `CountsBalance` | `CallsCounted` | `Waiting`, `Live` |
| `YieldsAreSafe` | `YieldSafe` | `Owned`, `Live`, `Linked`, `States` |
| `HandlersRestored` | `HandlerInForce` | `Frames` |
| `HandlersAgree` | `SameHandler` | `BlockStarts`: the first activation of a thread catches throws |
| `ErrorsAreCaught` | `ErrorsCaught` | `IInv`, and the steps `Precover` and `CatchError` |

What is left of to-be-closed variables needs a second invariant, `IInv2`, on top of the first. A function knows its own variables only as those at its `level` or above, so
it is an invariant of levels; its parts, stated in `Calls_safety`, are

- `Tidy`: no variable is pending twice, or pending while its method runs, in any thread; only a suspended thread has a call of `yield`.
- `Levels`: a return goes down to where the function's variables began, and what `pcall` calls began no higher than `pcall`.
- `ActLevels`: the same for the C stack. A function that a `prot` activation called began at the level this saved; a `luaF_close` that
  cannot yield closes to the level of the `prot` below it, and one that can to that of the `pcall` it ends, which still holds its error in `recst`.
- `Leftovers`: a thread that leaves the C stack with status `OK` has nothing pending, and a suspended one began with nothing.
- `Returns`: while the machine returns, what is still pending is not more than the activation on top expects.

`Calls_closing` proves that each step keeps it, and that in each step the running thread either keeps its function or leaves nothing of it pending (`LeftClean`, one lemma per action). Hence

| Theorem | Property | Follows from |
|---|---|---|
| `ClosingStructure` | `IInv`, `IInv2` | one lemma per action |
| `StatusIsTrue` | `StatusTrue` | `States`, and `Awake` (part of `Tidy`) |
| `VariablesClosedOnce` | `ClosedOnce` | `Once` (part of `Tidy`), `Leftovers` |
| `FunctionsLeaveClean` | `ClosedOnExit` | `LeftClean`, which rests on `Levels`, `ActLevels` and `Returns` |

### The reactor

`Reactor_proofs` proves the five properties of the reactor, four of which the run `parts` checks, for any set of threads, from
`ThreadsAssumption` alone (the main thread is none of them, and the null value is no thread and no error):
`Typing`, `Balance` (`MainBalanced`), `Reporting` (`ErrorReported`), `Stepping` (`StepTruthful`) and `Starting`
(`StartKeepsOrReplaces`). The invariant is

    Inv == TypeOK /\ MainBalanced /\ ErrorReported /\ StepTruthful /\ Unopened

The parts need each other: an error can only be moved if there is something on the stack it comes
from, which is typing plus what `lua_resume` leaves; `SetField` takes the right value only if the main stack was
empty before; and a call that fails because `luaw_init` was never called tells the truth only if there is
no program then (`Unopened`). The proof first turns the calls of the C API into equations (`PushThenPop`,
`PushThenSetError`, ...), then each entry call into its effect (`LoadEffect`, `LoadFailedEffect`,
`AfterResumeEffect`), and one operator, `Leaves`, says what every entry call has to leave. `Starting` is an
action property: a step that `Inv` enables has it.

### What is only model-checked

- All liveness (`EventuallyFreed`, `EventuallyFinalized`): outside the prover's reach.
- `GenGC` (`NothingLost`, `GenerationsApart`), the compiler with its evaluator (`CodeMeansProgram`, `RefusesOnlyBad`, `WithinFrame`) and the matcher: they use recursive
  operators, of which nothing can be proved here. The arguments for `GenGC` would be those of `LuaGC_safety` with ages for colours.
- `Table` (`SearchesEnd`, `KeyIsFound`, `SizesKnown`, `LengthsAreBorders`, `ImplementsMap`) and the exactness of numbers, lists, patterns, strings and
  chunks: what a recursive function computes for every input needs induction over data, whose theorems take an operator as a parameter; the installed provers cannot use them.
- `StackAndStrings`: the chains of `Strings` are built by folds, with the same obstacle.

## Findings

- **An emergency collection in `lua_close`** (`gc_close_emergency`): `luaC_freeallobjects` calls the pending finalizers
  without leaving the sweep phase it may have been called in. The object `sweepgc` points into is among them and moves to `allgc`; an
  emergency collection in a finalizer then sweeps on from there, and comes to `GCSpause` with objects of `tobefnz`
  still black, so that the next marking skips them and what only they refer to is freed.
- **Closing the main thread** (`calls_close_main`): while the host steps the resident program, the main thread is at
  its base level with an empty stack, which `coroutine.close` takes for a dead coroutine; `lua_closethread` then overwrites its count of C calls.
- **A finished program that is not dead** (`reactor_finished`): `luaw_step` reports `LUA_OK` and releases the program
  but leaves what it returned on its stack, by which the coroutine library tells a dead coroutine from one in
  its initial state. A kept reference can resume it.
- **A variable joined to an old closure** (`memory_join`): in generational mode the barrier of `lua_upvaluejoin` marks a white upvalue, and with it the value of that upvalue, but makes only the upvalue old. The
  value is gray and new, and a store of it into another old object passes no barrier. `tests/ltests/ltests.c` (290-291, asserted at line 304) says that in this mode "really old objects cannot point to
  young objects"; the run starts from two old closures that share a variable, and ends in a state in which that variable, old and black, refers to a new closure. Two young
  collections later, if nothing else holds the closure by then, it is freed, although the program can still call it: the first makes it a white survival, the second does not visit the old variable. The run `memory` has joins only between closures that share already.

Observed while modelling, each seen in a model or in the code but without a run of its own:

- A `lua_checkstack` that is refused leaves the stack at `ERRORSTACKSIZE` with no error on its way (`ldo.c` 268-275, against the comment at 252-254), so that an overflow before the next
  shrinking is an "error in error handling". A frame whose top is exactly the limit keeps the extra space as well. `Stack`'s variable `kept` names these cases, and `StackSound` allows them.
- In generational mode `finishgencycle` shrinks the string table with `gcstopem` clear: if the block cannot be shrunk, an emergency collection may run while the table is
  depopulated (`lstring.c` 89-96 and `lmem.c` 49-53), and `luaS_remove` then looks for strings in the wrong chains. `Strings` models the incremental mode, where a step has `gcstopem` set.
- On wasm32 a position of 2^32 or more is converted to a 32-bit `size_t`: `("x"):sub(2^32)` starts one byte before the string, against `lstrlib.c` 65-66. Hence the restriction in `Text`.
- A chunk whose sizes are in the top 128 values of an `int` is dumped but does not load (`loadUnsigned` compares with `>=`, before it adds the last seven bits). Hence the bound of `Chunks`.

## The plan

Done: the collector in both modes, strings, the size of the stack, calls, tables, the reactor, the compiler with its machine, numbers, patterns,
pack, positions and UTF-8, lists and `sort`, precompiled chunks. In the order of importance, still to come:

1. *Proofs*: `NothingLost` of `GenGC`, once its recursive operators are recursive functions (the argument of `LuaGC_safety`, with ages for
   colours); `StackSound`; lemmas on `alimit` (`RealASize` after each operation); lemmas on the integer operations of
   `Numbers` for every width (division, shifts, the count of a loop's steps) and on positions in `Text`.
2. *Generational mode with strings and allocation failures inside a collection*, which would show the second observation above in a run.
3. *Hooks* (`ldebug.c`, `ldo.c` 346-440): a second actor in `Calls` that may yield.
4. *`require`* (`loadlib.c`) and references (`luaL_ref`): small protocols over a table.
5. *The lexer's grammar*: precedence of operators, and long brackets.

Not to be modelled: the stand-alone interpreter and `luac`, I/O and OS libraries (nothing but calls of the C
library), the exception and `setjmp` runtimes
(one object each, and the properties that would say something are about machine code), `string.format` and the reading of floats (the C library's), scripts and tests.
