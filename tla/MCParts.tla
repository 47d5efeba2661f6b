------------------------------- MODULE MCParts -------------------------------
(* The parts that are small: functions of the library and of the core that *)
(* are called once with many arguments, the compiler with the programs it  *)
(* compiles (MCCompiler), and the machines sort (TableLib) and Reactor.    *)
(* Each initial state belongs to one of them.                              *)
EXTENDS Numbers, TableLib, Match, Pack, Text, Chunks, Reactor
CONSTANTS
  p1, p2, p3,
  MaxArgC, MaxArgBx, MaxIndexRK, FieldsPerFlush, StackSize,   \* those of the compiler
  Compiler(_), Reference(_, _)
VARIABLES machine, asked

Comp == INSTANCE MCCompiler WITH m <- machine
Compile(b)    == Comp!Compile(b)
Meaning(b, a) == Comp!Meaning(b, a)

ASSUME CompilerAssumption == {MaxArgC, MaxArgBx, MaxIndexRK} \subseteq Nat \ {0}

\* nothing distinguishes the threads of the reactor; the others have none
Symmetry == Permutations(Threads)

\* every integer, and every float up to past the integers
Integers_  == {Integer(i) : i \in LuaInteger}
Floats     == {Float(Nearest(h)) : h \in -2^(IntBits + 1) .. 2^(IntBits + 1)}
                \cup {Infinity(1), Infinity(-1), NaN}
AllNumbers == Integers_ \cup Floats
Edges      == {MinInteger, MinInteger + 1, -1, 0, 1, MaxInteger - 1, MaxInteger}

NumbersInit ==
  /\ answer = <<>>
  /\ \/ \E a, b \in AllNumbers : job = [fn |-> "compare", a |-> a, b |-> b]
     \/ \E a, b \in Integers_ \cup {Float(h) : h \in {-4, 1, 4, 2^IntBits}} :
          \E op \in {"add", "sub", "mul", "idiv", "mod", "shl", "shr"} :
            job = [fn |-> "arith", op |-> op, a |-> a, b |-> b]
     \/ \E i \in Edges, l \in AllNumbers, s \in LuaInteger \ {0} :
          job = [fn |-> "for", init |-> Integer(i), limit |-> l, step |-> Integer(s)]
     \/ \E i \in {-3, 0, 1, 2^IntBits}, l \in Floats, s \in {-8, -1, 1, 3} :
          job = [fn |-> "for", init |-> Float(i), limit |-> l, step |-> Float(s)]
     \/ \E neg, hex \in BOOLEAN, n \in 0 .. 3 : \E d \in [1 .. n -> {0, 1, 5, 6, 9}] :
          job = [fn |-> "str2int", neg |-> neg, hex |-> hex, digits |-> d]
     \/ \E l, u \in LuaInteger : l <= u /\ job = [fn |-> "random", low |-> l, up |-> u]

ListsInit ==
  /\ answer = <<>>
  /\ LET t == [i \in Indices |-> i]
     IN  \/ \E size, pos \in Indices, f \in {"insert", "remove"} :
              job = [fn |-> f, t |-> t, size |-> size, pos |-> pos, v |-> 99]
         \/ \E f, e, d \in Indices, same \in BOOLEAN :
              job = [fn |-> "move", t |-> t, f |-> f, e |-> e, d |-> d, same |-> same]
         \/ \E f \in {"unpack", "concat"}, i, e \in Indices : job = [fn |-> f, i |-> i, e |-> e]

SortsInit ==
  \/ \E n \in 0 .. 5 : \E a \in [1 .. n -> 1 .. 3] : SortInit(a, TRUE)
  \/ \E n \in 6 .. 7 : \E a \in [1 .. n -> 1 .. 2] : SortInit(a, TRUE)
  \/ \E n \in 2 .. 6 : SortInit([i \in 1 .. n |-> i], FALSE)

Item(kind)      == [kind |-> kind, set |-> {}, rep |-> "", x |-> "a", y |-> "b", l |-> 1]
Class(set, rep) == [Item("class") EXCEPT !.set = set, !.rep = rep]
Items ==
  {Class({"a"}, r) : r \in {"", "*", "-", "?"}} \cup {Class({"a", "b"}, r) : r \in {"", "+", "*", "-"}}
  \cup {Item(k) : k \in {"open", "close", "pos", "end", "balance", "back"}}
  \cup {[Item("frontier") EXCEPT !.set = {"b", EndChar}]}
Subjects(n) == UNION {[1 .. k -> {"a", "b"}] : k \in 0 .. n}
Captured    == {<<Item("open"), x, Item("close"), y>> : x, y \in Items}

MatchInit ==
  /\ answer = <<>>
  /\ \E n \in 0 .. 3 : \E pat \in [1 .. n -> Items] \cup (IF n = 2 THEN Captured ELSE {}) :
       \E src \in IF n = 3 THEN {<<"a", "a", "b">>, <<"b", "a">>} ELSE Subjects(3) :
         LET ms == [src |-> src, pat |-> pat]
         IN  \/ \E d \in {2, 9} : job = [fn |-> "match", ms |-> ms, depth |-> d]
             \/ /\ Len(pat) < 3
                /\ \E i \in 0 .. Len(src), a \in BOOLEAN :
                     job = [fn |-> "find", ms |-> ms, init |-> i, anchor |-> a, depth |-> 9]
             \/ Len(pat) < 3 /\ job = [fn |-> "gmatch", ms |-> ms, depth |-> 9]
             \/ Len(pat) < 3 /\ \E m \in {0, 1, 9}, a \in BOOLEAN :
                  job = [fn |-> "gsub", ms |-> ms, max |-> m, anchor |-> a, depth |-> 9]

Opt(o, n) == [opt |-> o, size |-> n]
Fixed     == {Opt("int", 1), Opt("int", 3), Opt("uint", 2), Opt("big", 0), Opt("alignto", 0),
              Opt("maxalign", 2)}
Options   == Fixed \cup {Opt("int", 2), Opt("uint", 1), Opt("uint", 3), Opt("maxalign", 3),
              Opt("number", 0), Opt("char", 2), Opt("char", 0), Opt("string", 1), Opt("string", 3),
              Opt("zstr", 0), Opt("padding", 0), Opt("int", 4), Opt("little", 0)}
Fields(o) == IF o.opt \in {"int", "uint"} THEN [n : {-8, -2, 1, 2, 7}, s : {<<>>}]
             ELSE [n : {0}, s : IF o.opt = "number" THEN {<<1, 2>>}
                                ELSE {<<>>, <<3>>, <<0, 2>>, <<1, 1, 1, 1>>}]

PackInit ==
  /\ answer = <<>>
  /\ \/ \E n \in 1 .. 3 : \E fmt \in [1 .. n -> IF n = 3 THEN Fixed ELSE Options] :
          LET takes == Takes(fmt) IN
          \E args \in {a \in [1 .. Len(takes) -> UNION {Fields(o) : o \in Range(takes)}] :
                         \A i \in DOMAIN a : a[i] \in Fields(takes[i])} :
            job = [fn |-> "str_pack", fmt |-> fmt, args |-> args]
     \/ \E fmt \in {<<o>> : o \in Options} \cup ({Opt("big", 0)} \X Options) :
          \E k \in 0 .. 3 : \E data \in [1 .. k -> Byte], pos \in 0 .. 1 :
            pos <= k /\ job = [fn |-> "str_unpack", fmt |-> fmt, data |-> data, pos |-> pos]

\* bytes and codes at the edges of the lengths and of the surrogates
Bytes_  == {65, 128, 160, 191, 193, 194, 224, 237, 240, 245, 254}
Strings(n) == UNION {[1 .. k -> Bytes_] : k \in 0 .. n}
Edges_  == UNION {{c, c + 1} : c \in {0, 127, 2047, 55295, 57343, 65535, 1114111, 2097151, 67108863}}
             \cup {MaxUtf}

TextInit ==
  /\ answer = <<>>
  /\ \/ \E k \in 0 .. 3, i, j \in Positions, f \in {"sub", "byte"} :
          job = [fn |-> f, s |-> [x \in 1 .. k |-> x], i |-> i, j |-> j]
     \/ \E k, m \in 0 .. 3, i \in Positions :
          job = [fn |-> "rep", s |-> [x \in 1 .. k |-> 1], sep |-> [x \in 1 .. m |-> 2], i |-> i]
     \/ \E k \in 0 .. 4, m \in 0 .. 3, i \in Positions :
          \E s \in [1 .. k -> 1 .. 2], w \in [1 .. m -> 1 .. 2] :
            i \in -k - 1 .. k + 2 \cup {15, 16, 17} /\ job = [fn |-> "plain", s |-> s, what |-> w, i |-> i]
     \/ \E c \in Edges_ : job = [fn |-> "char", code |-> c]
     \/ \E s \in Strings(3) \cup {Utf8Esc(c) : c \in Edges_} \cup ({194, 240} \X {144} \X {128, 160} \X {65, 191}),
           lax \in BOOLEAN :
          \E f \in {"len", "codes", "codepoint"} : job = [fn |-> f, s |-> s, lax |-> lax, i |-> 1, j |-> -1]
     \/ \E s \in Strings(2), i \in -3 .. 4, j \in -3 .. 3, f \in {"len", "codepoint"} :
          job = [fn |-> f, s |-> s, lax |-> FALSE, i |-> i, j |-> j]
     \/ \E s \in Strings(2) \cup {<<65, 194, 160, 224, 160, 128, 65>>}, n \in -4 .. 4, i \in -3 .. 8 :
          job = [fn |-> "offset", s |-> s, n |-> n, i |-> i]

\* functions with every kind of constant, with and without debug information,
\* and one that holds another of the same or of another source
Leaf(src) ==
  [source |-> src, lines |-> <<1, 27>>, bytes |-> <<0, 1, 7>>, code |-> <<1, 7, 4>>,
   k |-> <<[t |-> "nil", v |-> 0], [t |-> "int", v |-> 7], [t |-> "str", v |-> <<>>],
           [t |-> "flt", v |-> 0], [t |-> "str", v |-> <<1, 2, 3, 4, 5>>]>>,
   ups |-> <<[desc |-> <<1, 0, 2>>, name |-> <<3>>]>>, protos |-> <<>>, lineinfo |-> <<1, 0>>,
   abslines |-> <<<<0, 16>>>>, locvars |-> <<<<<<5>>, 0, 3>>>>]
Bare(f) == [f EXCEPT !.k = <<>>, !.ups = <<>>, !.lineinfo = <<>>, !.abslines = <<>>, !.locvars = <<>>]
Sources == {<<>>, <<6, 7>>}
Functions ==
  {Leaf(s) : s \in Sources} \cup {Bare(Leaf(s)) : s \in Sources}
  \cup {[Bare(Leaf(s)) EXCEPT !.protos = <<Leaf(t), Bare(Leaf(s))>>] : s, t \in Sources}

ChunksInit ==
  /\ answer = <<>>
  /\ \/ \E f \in Functions, strip \in BOOLEAN, fail \in {0, 1, 2, 3, 7, 12}, cut \in {1, 3, 5, 99} :
          job = [fn |-> "dump", f |-> f, strip |-> strip, fail |-> fail, cut |-> cut]
     \/ \E n \in 0 .. 5 : \E s \in [1 .. n -> {0} \cup (1 .. 3)] \cup
                                  {Bom \o t : t \in [1 .. n -> {0, 1, 2, 3}]} \cup
                                  {SubSeq(Bom, 1, 2) \o t : t \in [1 .. n -> {0, 3}]},
           modes \in {{"t"}, {"b"}, {"b", "t"}}, bufsiz \in {1, 2} :
          n < 5 /\ job = [fn |-> "loadfile", file |-> s, modes |-> modes, bufsiz |-> bufsiz]
     \/ \E a, b \in {<<>>, <<0>>, <<1, 2>>}, modes \in {{"t"}, {"b"}, {"b", "t"}} :
          job = [fn |-> "load", blocks |-> <<a, b>>, modes |-> modes]

\* an instance that does nothing
NoReactor ==
  /\ vm = "aborted" /\ held = {} /\ finished = {} /\ last = [call |-> "none", status |-> "ok"]
  /\ L = [stack |-> [t \in Threads \cup {Main} |-> <<>>], status |-> [t \in Threads |-> "ok"],
          error |-> Nil, program |-> Nil]

NoProgram == machine = [status |-> "none"] /\ asked = <<>>

PartsInit ==
  \/ (NumbersInit \/ ListsInit \/ MatchInit \/ PackInit \/ TextInit \/ ChunksInit)
       /\ NoSort /\ NoReactor /\ NoProgram
  \/ NoJob /\ SortsInit /\ NoReactor /\ NoProgram
  \/ NoJob /\ NoSort /\ Init /\ NoProgram
  \/ NoJob /\ NoSort /\ NoReactor /\ Comp!Init
program == <<machine, asked>>
PartsNext ==
  \/ NumbersNext /\ UNCHANGED <<sort, vars, program>>
  \/ TableLibNext /\ UNCHANGED <<sort, vars, program>>
  \/ MatchNext /\ UNCHANGED <<sort, vars, program>>
  \/ PackNext /\ UNCHANGED <<sort, vars, program>>
  \/ TextNext /\ UNCHANGED <<sort, vars, program>>
  \/ ChunksNext /\ UNCHANGED <<sort, vars, program>>
  \/ SortNext /\ UNCHANGED <<jobVars, vars, program>>
  \/ Next /\ UNCHANGED <<jobVars, sort, program>>
  \/ Comp!Next /\ UNCHANGED <<jobVars, sort, vars>>
PartsSpec == PartsInit /\ [][PartsNext]_<<jobVars, sort, vars, program>>

\* The table library: table.insert, remove, move, concat and unpack do to a
\* list what they say for every position an integer can hold, and sort, with
\* whatever comparison, stays inside the list, keeps its elements and ends.
ListsKept == ListsExact /\ SortSafe

\* Strings: every position means the bytes or the character the manual says,
\* in the string and utf8 libraries, and UTF-8 is decoded exactly if valid.
StringsExact == PositionsExact /\ Utf8Exact

\* What is written is read back: string.pack and unpack, lua_dump and lua_load.
RoundTrips == PackRoundTrip /\ ChunksExact

\* The compiler and the machine that runs its code: see MCCompiler.
CodeMeansProgram == Comp!CodeMeansProgram
RefusesOnlyBad   == Comp!RefusesOnlyBad
WithinFrame      == Comp!WithinFrame
=============================================================================
