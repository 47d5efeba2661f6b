--------------------------------- MODULE Values ---------------------------------
(***************************************************************************)
(* The values a program computes with, and the functions the host gives it: *)
(* what the language and the machine that runs its code have in common.     *)
(* Arithmetic is on integers, the bitwise kind on small naturals; another    *)
(* operand has a metamethod or is an error.                                 *)
(***************************************************************************)
EXTENDS Integers, Sequences, SequencesExt, FiniteSets, FiniteSetsExt, Bitwise

IntVal(n) == [t |-> "int", n |-> n]
StrVal(x) == [t |-> "str", s |-> x]
NilVal       == [t |-> "nil"]
True      == [t |-> "true"]
False     == [t |-> "false"]
Bool(b)   == IF b THEN True ELSE False
Err       == [t |-> "error"]       \* what an operation that fails returns

IsFalse(v) == v.t \in {"nil", "false"}
Falsy      == {NilVal, False}

\* luaO_rawarith, the comparisons and the concatenation of values
FloorDiv(a, b) == IF b > 0 THEN a \div b ELSE (-a) \div (-b)
Shift(a, n)    == IF n >= 0 THEN a * 2^n ELSE a \div 2^(-n)
Fold(op, a, b) ==
  CASE op = "add" -> a + b
    [] op = "sub" -> a - b
    [] op = "mul" -> a * b
    [] op = "idiv" -> FloorDiv(a, b)
    [] op = "mod"  -> a - FloorDiv(a, b) * b
    [] op = "band" -> a & b
    [] op = "shl"  -> Shift(a, b)
    [] op = "shr"  -> Shift(a, -b)
    [] op = "unm"  -> -a
    [] op = "bnot" -> -a - 1
Defined(op, b) == op \in {"idiv", "mod"} => b # 0
Arithmetic(op, a, b) ==
  IF a.t # "int" \/ b.t # "int" THEN Err
  ELSE IF Defined(op, b.n) THEN IntVal(Fold(op, a.n, b.n)) ELSE Err
Compare(op, a, b) ==
  IF a.t # "int" \/ b.t # "int" THEN Err ELSE Bool(IF op = "lt" THEN a.n < b.n ELSE a.n <= b.n)
Text(v) == IF v.t = "int" THEN ToString(v.n) ELSE v.s
Join(a, b) == IF {a.t, b.t} \subseteq {"int", "str"} THEN StrVal(Text(a) \o Text(b)) ELSE Err

\* a table is a function from its keys
RawGet(t, k)    == IF k \in DOMAIN t THEN t[k] ELSE NilVal
RawSet(t, k, v) == [x \in (DOMAIN t \cup {k}) \ (IF v = NilVal THEN {k} ELSE {}) |-> IF x = k THEN v ELSE t[x]]

\* the length of a string, and of a table that is a sequence
Length(v, t) == IF v.t = "str" THEN IntVal(Len(v.s)) ELSE IntVal(Cardinality({k \in DOMAIN t : k.t = "int"}))

\* what the host sees of a value
Shown(v) == IF v.t \in {"table", "fn"} THEN [t |-> v.t] ELSE v

\* an object of the host has a metamethod for every event, which shows the event
\* and its operands in their order
HasMeta(a, b)   == "obj" \in {a.t, b.t}
Event(op, a, b) == <<op, Shown(a), Shown(b)>>
Answer(op, a)   == IF op \in {"lt", "le"} THEN Bool(a.t = "obj") ELSE IntVal(3)

\* host functions: emit(...) shows its arguments and returns them; iter(n, i)
\* counts to n; an object shows its name when it is closed
External(name, args) ==
  CASE name = "emit" -> args
    [] name = "iter" -> LET i == IF args[2] = NilVal THEN 0 ELSE args[2].n
                        IN  IF i < args[1].n THEN <<IntVal(i + 1), IntVal(10 * (i + 1))>> ELSE <<NilVal>>
Traced(name, args) == IF name = "emit" THEN <<<<"emit">> \o [i \in DOMAIN args |-> Shown(args[i])]>> ELSE <<>>
Globals == [k \in {StrVal("emit"), StrVal("iter"), StrVal("A"), StrVal("B")} |->
              IF k.s \in {"A", "B"} THEN [t |-> "obj", s |-> k.s] ELSE [t |-> "c", s |-> k.s]]
=============================================================================
