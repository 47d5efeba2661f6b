------------------------------ MODULE MCCompiler ------------------------------
EXTENDS VM, Semantics

\* trees
n_(i)       == [e |-> "int", n |-> i]
s_(x)       == [e |-> "str", s |-> x]
x_(x)       == [e |-> "name", x |-> x]
nil_        == [e |-> "nil"]
dots        == [e |-> "vararg"]
bin(op, p, q) == [e |-> "bin", op |-> op, a |-> p, b |-> q]
un(op, p)   == [e |-> "un", op |-> op, a |-> p]
at(p, q)    == [e |-> "index", a |-> p, key |-> q]
call(f, as) == [e |-> "call", a |-> f, args |-> as]
fun(ps, va, body) == [e |-> "func", f |-> [params |-> ps, vararg |-> va, body |-> body]]
tab(items)  == [e |-> "table", items |-> [i \in DOMAIN items |-> [key |-> <<>>, v |-> items[i]]]]

var(x)           == [x |-> x, attr |-> "reg"]
let(xs, es)      == [st |-> "local", xs |-> [i \in DOMAIN xs |-> var(xs[i])], es |-> es]
letas(x, attr, p) == [st |-> "local", xs |-> <<[x |-> x, attr |-> attr]>>, es |-> <<p>>]
set(ls, es)      == [st |-> "assign", lhs |-> ls, es |-> es]
do(f, as)        == [st |-> "call", a |-> call(f, as)]
emit(as)         == do(x_("emit"), as)
if(p, body, else) == [st |-> "if", arms |-> <<[c |-> p, body |-> body]>>, els |-> else]
while(p, body)   == [st |-> "while", c |-> p, body |-> body]
repeat(body, p)  == [st |-> "repeat", c |-> p, body |-> body]
block(body)      == [st |-> "do", body |-> body]
label(x)         == [st |-> "label", x |-> x]
goto(x)          == [st |-> "goto", x |-> x]
break            == [st |-> "break"]
ret(es)          == [st |-> "return", es |-> es]

A_ == x_("a")
B_ == x_("b")
Prologue == <<let(<<"a", "b">>, <<dots>>)>>
Obj      == [t |-> "obj", s |-> "O"]
Inputs   == {<<NilVal, IntVal(1)>>, <<False, IntVal(2)>>, <<IntVal(2), NilVal>>, <<IntVal(1), IntVal(2)>>, <<Obj, IntVal(2)>>,
             <<IntVal(1), Obj>>}
Plain    == {<<NilVal, IntVal(1)>>, <<IntVal(2), False>>, <<IntVal(1), IntVal(2)>>}

-----------------------------------------------------------------------------
\* expressions of up to two operators, over variables, a global and constants
\* that fit an operand and that do not
Atoms == {A_, B_, nil_, n_(1), n_(9), x_("g")}
Some  == {A_, B_, n_(1)}
Ops   == {"and", "or", "eq", "ne", "lt", "ge", "concat"}
Logic == {"and", "or", "eq", "gt"}
Small == {bin(op, p, q) : op \in Ops, p, q \in Atoms} \cup {un("not", p) : p \in Atoms}
Sums  == {bin(op, p, q) : op \in Arith, p, q \in Atoms} \cup {un(op, p) : op \in {"unm", "bnot", "len"}, p \in Atoms}
    \cup {bin(op, p, n_(0)) : op \in {"idiv", "mod"}, p \in Some} \cup {un("len", s_("abc")), un("len", tab(<<n_(1), n_(2)>>))}
    \cup {bin("concat", p, bin("concat", q, r)) : p, q, r \in {A_, B_, s_("x")}}
Large == {bin(op, bin(o, p, q), r) : op \in Logic, o \in Logic, p, q, r \in Some}
    \cup {bin(op, p, bin(o, q, r)) : op \in Logic, o \in Logic, p, q, r \in Some}
    \cup {un("not", bin(o, p, q)) : o \in Logic, p, q \in Some}
    \cup {bin(o, un("not", p), q) : o \in Logic, p, q \in Some}
Chains == {bin(op, bin(o, bin(l, p, q), r), n_(1)) : op, o, l \in {"and", "or"}, p, q, r \in {A_, B_}}

Value(p)  == {<<emit(<<p>>)>>, <<set(<<A_>>, <<p>>), emit(<<A_>>)>>, <<let(<<"c">>, <<p>>), ret(<<x_("c"), p>>)>>}
Chosen(p) == <<if(p, <<emit(<<n_(1)>>)>>, <<<<emit(<<n_(2)>>)>>>>)>>
Choice(p) == {Chosen(p),
              <<while(p, <<emit(<<n_(1)>>), if(x_("w"), <<break>>, <<>>),
                set(<<A_, x_("w")>>, <<nil_, n_(1)>>)>>)>>}
OfExpressions ==
  LET Start == Prologue \o <<set(<<x_("g")>>, <<n_(2)>>)>>
  IN  {Start \o c : c \in UNION {Value(p) \cup Choice(p) : p \in Small}}
      \cup {Start \o c : c \in UNION {Value(p) : p \in Sums}}

OfLongOnes ==
  {Prologue \o c : c \in UNION {{<<emit(<<p>>)>>, Chosen(p)} : p \in Large}}
      \cup {Prologue \o <<emit(<<p>>), if(p, <<emit(<<A_>>)>>, <<>>)>> : p \in Chains}

-----------------------------------------------------------------------------
\* loops whose body has a variable of its own, perhaps captured, perhaps to be
\* closed, and which are left in every way
I_ == x_("i")
T_ == x_("t")
Inc(x) == set(<<x>>, <<bin("add", x, n_(1))>>)
Exits_ == {break, goto("out"), goto("next"), ret(<<I_>>), block(<<letas("z", "close", x_("B")), goto("out")>>)}
Capture == set(<<at(T_, I_)>>, <<fun(<<>>, FALSE, <<ret(<<x_("x")>>)>>)>>)
LoopBody(attr, captured, exit) ==
  <<Inc(I_), IF attr = "reg" THEN let(<<"x">>, <<I_>>) ELSE letas("x", attr, x_("A"))>>
  \o captured
  \o (IF attr = "reg" THEN <<set(<<x_("x")>>, <<bin("add", x_("x"), n_(10))>>)>> ELSE <<>>)
  \o <<if(bin("eq", I_, n_(2)), <<exit>>, <<>>), emit(<<I_>>), label("next")>>
Loops(body) ==
  {<<while(bin("lt", I_, n_(3)), body)>>, <<repeat(body, bin("ge", I_, n_(3)))>>,
   <<repeat(body, bin("and", x_("x"), bin("eq", I_, n_(3))))>>,
   <<[st |-> "fornum", x |-> "j", init |-> n_(3), limit |-> n_(1), step |-> <<un("unm", n_(1))>>, body |-> body]>>,
   <<[st |-> "fornum", x |-> "j", init |-> n_(1), limit |-> n_(3), step |-> <<>>, body |-> body]>>,
   <<[st |-> "forlist", vars |-> <<"j", "k">>, es |-> <<x_("iter"), n_(3), nil_, x_("B")>>, body |-> body]>>,
   <<while(n_(1), <<label("top"), block(body), if(bin("lt", I_, n_(3)), <<goto("top")>>, <<>>), break>>)>>}
After == <<label("out"), if(at(T_, n_(1)), <<emit(<<call(at(T_, n_(1)), <<>>)>>)>>, <<>>),
           if(at(T_, n_(2)), <<emit(<<call(at(T_, n_(2)), <<>>)>>)>>, <<>>)>>
OfLoops ==
  {<<let(<<"t", "i">>, <<tab(<<>>), n_(0)>>), block(loop), After[1], After[2], After[3]>> :
     loop \in UNION {Loops(LoopBody(attr, captured, exit)) :
                       attr \in {"reg", "close"}, captured \in {<<>>, <<Capture>>, <<block(<<let(<<"y">>, <<>>), Capture>>)>>}, exit \in Exits_}}

-----------------------------------------------------------------------------
\* assignments to a table, its index and its fields at once, by variables and by
\* upvalues
Targets == {T_, I_, at(T_, I_), at(T_, s_("x")), at(T_, n_(1)), at(at(T_, n_(3)), I_), x_("g")}
Assigned(ls, es) ==
  <<set(ls, es), emit(<<I_, x_("g"), at(x_("u"), n_(1)), at(x_("u"), s_("x")), at(x_("u"), n_(2)),
                       at(at(x_("u"), n_(3)), n_(1))>>)>>
OfAssignments ==
  LET new == tab(<<n_(7)>>)
      V(l) == IF l = T_ THEN new ELSE n_(2)
      Setup == <<let(<<"t", "i">>, <<tab(<<n_(4), n_(5), tab(<<n_(6)>>)>>), n_(1)>>), let(<<"u">>, <<T_>>)>>
      Two == {Assigned(<<p, q>>, <<V(p), V(q)>>) : p, q \in Targets}
      Three == {Assigned(<<p, q, r>>, <<V(p), V(q), V(r)>>) : p, q, r \in Targets \ {x_("g"), at(T_, n_(1))}}
      Few == {Assigned(<<p, q>>, es) : p \in {at(T_, I_), x_("g")}, q \in {I_, at(T_, s_("x"))},
                es \in {<<n_(8)>>, <<n_(8), n_(9), n_(1)>>, <<call(x_("emit"), <<n_(8), n_(9)>>)>>,
                        <<n_(8), call(x_("emit"), <<n_(9), n_(9)>>)>>}}
      Inner(b) == <<do([e |-> "paren", a |-> fun(<<>>, FALSE, b)], <<>>)>>
  IN  {Setup \o b : b \in Two \cup Three \cup Few} \cup {Setup \o Inner(b) : b \in Two \cup Few}

-----------------------------------------------------------------------------
\* lists: variable arguments, constructors, calls that return what they are given
Lists == {<<dots>>, <<n_(1), dots>>, <<dots, n_(1)>>, <<x_("e")>>, <<call(x_("f"), <<dots>>)>>,
          <<call(x_("f"), <<dots>>), n_(5)>>, <<n_(1), n_(2), n_(3), call(x_("f"), <<n_(4), dots>>)>>,
          <<[e |-> "paren", a |-> call(x_("f"), <<dots>>)], nil_, nil_>>, <<>>}
Prelude == <<let(<<"e">>, <<>>), [st |-> "localfunc", x |-> "f", f |->
               [params |-> <<"p">>, vararg |-> TRUE, body |-> <<emit(<<x_("p"), dots>>), ret(<<dots, x_("p")>>)>>]]>>
Uses(l) ==
  {<<emit(l)>>, <<ret(l)>>, <<ret(<<call(x_("f"), l)>>)>>, <<ret(<<call(x_("emit"), l)>>)>>,
   <<do(fun(<<"p", "q">>, TRUE, <<let(<<"k">>, <<fun(<<>>, FALSE, <<ret(<<x_("q")>>)>>)>>),
                                   ret(<<call(x_("f"), <<x_("q"), call(x_("k"), <<>>)>>)>>)>>), l)>>,
   <<let(<<"p", "q">>, l), let(<<"r">>, <<>>), emit(<<x_("p"), x_("q"), x_("r")>>)>>,
   <<let(<<"t">>, <<[e |-> "table", items |-> tab(l).items \o
        <<[key |-> <<s_("x")>>, v |-> n_(3)], [key |-> <<A_>>, v |-> dots]>>]>>),
     emit(<<at(T_, n_(1)), at(T_, n_(2)), at(T_, n_(3)), at(T_, n_(4)), at(T_, n_(5)), at(T_, s_("x"))>>)>>,
   <<let(<<"o">>, <<[e |-> "table", items |-> <<>>]>>),
     [st |-> "func", a |-> at(x_("o"), s_("m")), ismethod |-> TRUE,
      f |-> [params |-> <<"p">>, vararg |-> TRUE, body |-> <<ret(<<x_("p"), bin("eq", x_("self"), x_("o")), dots>>)>>]],
     ret(<<[e |-> "method", a |-> x_("o"), x |-> "m", args |-> l]>>)>>,
   <<do([e |-> "paren", a |-> fun(<<"p", "q">>, TRUE, <<letas("z", "close", x_("A")),
          ret(<<call(x_("f"), <<x_("q"), dots>>)>>)>>)], l)>>}
  \cup {<<[st |-> "forlist", vars |-> <<"k">>, es |-> <<fun(<<"s", "c">>, FALSE,
         <<if(x_("c"), <<ret(<<>>)>>, <<>>), ret(<<n_(1)>>)>>)>> \o l, body |-> b]>> : b \in {<<>>, <<emit(<<x_("k")>>)>>}}
OfLists == {<<let(<<"a">>, <<n_(9)>>)>> \o Prelude \o u : u \in UNION {Uses(l) : l \in Lists}}

\* scopes: constants, shadowing, upvalues through several functions
C_(x) == fun(<<>>, FALSE, <<ret(<<x>>)>>)
OfScopes ==
  {Prologue \o b : b \in
    UNION {{<<letas("x", "const", v), emit(<<x_("x"), bin("add", x_("x"), n_(1)), call(C_(x_("x")), <<>>)>>)>>,
            <<letas("x", "const", v), let(<<"y">>, <<x_("x")>>), letas("z", "const", x_("x")),
              if(x_("z"), <<emit(<<x_("y"), bin("eq", x_("x"), x_("z"))>>)>>, <<>>),
              let(<<"w">>, <<bin("and", x_("z"), x_("y"))>>), emit(<<x_("w"), un("not", x_("x"))>>)>>} :
              v \in {n_(1), n_(9), s_("k"), nil_, A_, bin("add", n_(1), n_(1)), [e |-> "true"]}}
    \cup {<<let(<<"x">>, <<n_(1)>>), block(<<let(<<"x">>, <<n_(2)>>), set(<<A_>>, <<C_(x_("x"))>>), Inc(x_("x"))>>),
            let(<<"f">>, <<fun(<<>>, FALSE, <<ret(<<fun(<<"y">>, FALSE, <<set(<<x_("x")>>, <<bin("add", x_("x"), x_("y"))>>),
                               ret(<<x_("x"), B_>>)>>)>>)>>)>>),
            emit(<<call(A_, <<>>), call(call(x_("f"), <<>>), <<n_(4)>>)>>), emit(<<x_("x")>>)>>,
          <<let(<<"x", "y">>, <<>>), block(<<let(<<"z">>, <<>>), goto("end"), let(<<"w">>, <<n_(1)>>), label("end")>>),
            set(<<x_("y")>>, <<fun(<<>>, FALSE, <<set(<<x_("x")>>, <<n_(3)>>)>>)>>), do(x_("y"), <<>>), emit(<<x_("x")>>)>>,
          <<if(B_, <<emit(<<n_(1)>>)>>, <<<<label("l"), label("m"), emit(<<n_(2)>>), if(A_, <<set(<<A_>>, <<nil_>>), goto("l")>>, <<>>)>>>>)>>,
          <<[st |-> "if", arms |-> <<[c |-> A_, body |-> <<emit(<<n_(1)>>)>>], [c |-> bin("eq", B_, n_(2)), body |-> <<emit(<<n_(2)>>)>>]>>,
             els |-> <<<<emit(<<n_(3)>>)>>>>], emit(<<n_(4)>>)>>,
          <<while(B_, <<if(A_, <<break, emit(<<n_(3)>>)>>, <<>>), set(<<A_>>, <<n_(1)>>), emit(<<A_>>)>>), emit(<<A_>>)>>,
          <<letas("z", "close", A_), emit(<<B_>>)>>}}

\* chunks the compiler must refuse
Bad ==
  {<<goto("l")>>, <<break>>, <<label("l"), label("l")>>, <<letas("x", "const", n_(1)), set(<<x_("x")>>, <<n_(2)>>)>>,
   <<letas("x", "close", nil_), do(fun(<<>>, FALSE, <<set(<<x_("x")>>, <<n_(2)>>)>>), <<>>)>>,
   <<goto("l"), let(<<"x">>, <<>>), label("l"), emit(<<>>)>>,
   <<repeat(<<if(A_, <<goto("l")>>, <<>>), let(<<"x">>, <<>>), label("l")>>, x_("x"))>>,
   <<let(<<"f">>, <<fun(<<>>, FALSE, <<ret(<<dots>>)>>)>>)>>, <<block(<<label("l")>>), goto("l")>>,
   <<while(A_, <<do(fun(<<>>, FALSE, <<break>>), <<>>)>>)>>,
   <<[st |-> "local", xs |-> <<[x |-> "x", attr |-> "close"], [x |-> "y", attr |-> "close"]>>, es |-> <<nil_>>]>>}

-----------------------------------------------------------------------------
CONSTANTS
  Compiler(_),        \* Compile
  Reference(_, _)     \* Meaning

VARIABLE asked    \* what the program given means, and whether it is refused

Given(bodies, arguments) ==
  \E b \in bodies :
    LET fs == Compiler(b)
    IN  \E a \in arguments :
          /\ NewChunk(fs, a)
          /\ asked = IF b \in Bad THEN [bad |-> TRUE] ELSE [bad |-> FALSE, means |-> Reference(b, a)]

Init ==
  \/ Given(OfExpressions \cup OfScopes, Inputs)
  \/ Given(OfLongOnes, Plain)
  \/ Given(OfLoops \cup OfAssignments \cup Bad, {<<>>})
  \/ Given(OfLists, {[j \in 1 .. n |-> IntVal(j)] : n \in {0, 1, 3}})
Next ==
  \/ LoadValue /\ UNCHANGED asked
  \/ TableGet /\ UNCHANGED asked
  \/ TableSet /\ UNCHANGED asked
  \/ Operate /\ UNCHANGED asked
  \/ CallMetamethod /\ UNCHANGED asked
  \/ Unary /\ UNCHANGED asked
  \/ Test /\ UNCHANGED asked
  \/ ForLoop /\ UNCHANGED asked
  \/ CallFunction /\ UNCHANGED asked
  \/ TailCall /\ UNCHANGED asked
  \/ ReturnFrom /\ UNCHANGED asked
  \/ Closing /\ UNCHANGED asked
  \/ Closure /\ UNCHANGED asked
  \/ Vararg /\ UNCHANGED asked
Spec == Init /\ [][Next]_<<m, asked>>

\* The code shows the host what the program means, whatever registers, jumps,
\* upvalues and moves of the stack it uses: the values in order, the variables
\* closed, and the error if it fails.
CodeMeansProgram ==
  m.status \in {"done", "error"} /\ ~asked.bad =>
    m.trace = asked.means.trace /\ (m.status = "error") = asked.means.err

\* The compiler refuses a chunk only for a goto, a break, a constant or a vararg
\* that the language does not allow, and then always.
RefusesOnlyBad == m.status \in {"rejected", "done", "error"} => (m.status = "rejected") = asked.bad

\* No instruction reaches past the registers its function declared (maxstacksize),
\* the calls of a generic 'for' included.
WithinFrame ==
  m.status = "run" =>
    LET n == CASE I.op \in {"CALL", "TAILCALL", "SETLIST"} -> I.a + Max({I.b, 1})
               [] I.op = "LOADNIL" -> I.a + I.b + 1
               [] I.op \in {"TFORPREP", "TFORCALL", "TFORLOOP"} -> I.a + 4 + Max({3, I.c})
               [] I.op \in {"FORPREP", "FORLOOP"} -> I.a + 4
               [] I.op = "SELF" -> I.a + 2
               [] I.op = "RETURN" -> IF I.b = 1 THEN 0 ELSE I.a + Max({I.b - 1, 0})
               [] I.op = "CONCAT" -> I.a + I.b
               [] I.op \in {"JMP", "SETTABUP", "MMBIN", "VARARGPREP", "CLOSE", "RETURN0"} -> 0
               [] OTHER -> I.a + 1
    IN  n <= P.maxstack
=============================================================================
