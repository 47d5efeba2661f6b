-------------------------------- MODULE Numbers --------------------------------
(***************************************************************************)
(* Numbers: integers of IntBits bits that wrap around, floats with a       *)
(* mantissa of Mantissa bits, the comparisons between the two that must be *)
(* exact although neither can hold all of the other, and the arithmetic    *)
(* and loops that must not overflow (lvm.c, lobject.c, lmathlib.c).        *)
(*                                                                         *)
(* A float is counted in halves: the integers it cannot hold and the       *)
(* fractions are what the code must get right.  Exponents do not overflow. *)
(***************************************************************************)
EXTENDS Integers, Sequences, SequencesExt, FiniteSets, Job

CONSTANTS
  IntBits,     \* width of a lua_Integer
  Mantissa     \* bits in the mantissa of a lua_Number

ASSUME NumbersAssumption ==
  /\ IntBits \in Nat /\ Mantissa \in Nat
  /\ 1 < Mantissa /\ Mantissa < IntBits - 1     \* some integers do not fit

MaxInteger == 2^(IntBits - 1) - 1
MinInteger == -MaxInteger - 1
LuaInteger == MinInteger .. MaxInteger
Unsigned(i) == i % 2^IntBits                          \* l_castS2U
Signed(u)   == LET m == Unsigned(u)
               IN  IF m > MaxInteger THEN m - 2^IntBits ELSE m

Integer(i)  == [tag |-> "int", v |-> i]
Float(h)    == [tag |-> "flt", v |-> h]               \* h halves
Infinity(s) == [tag |-> "inf", v |-> s]               \* s is its sign
NaN         == [tag |-> "nan", v |-> 0]

Magnitude(x) == IF x < 0 THEN -x ELSE x

\* the nearest float to a number of halves, ties to even
Nearest(h) ==
  LET e    == CHOOSE n \in 0 .. 2 * IntBits :
                /\ Magnitude(h) < 2^(Mantissa + n)
                /\ n > 0 => Magnitude(h) >= 2^(Mantissa + n - 1)
      q    == Magnitude(h) \div 2^e
      r    == 2 * (Magnitude(h) % 2^e)
      m    == (IF r > 2^e \/ (r = 2^e /\ q % 2 = 1) THEN q + 1 ELSE q) * 2^e
  IN  IF h < 0 THEN -m ELSE m

CastNum(i) == Float(Nearest(2 * i))                   \* cast_num

\* a float's place in the order of the floats; NaN has none
Place(f)      == IF f.tag = "inf" THEN f.v * 2^(3 * IntBits) ELSE f.v
NumLT(f, g)   == f.tag # "nan" /\ g.tag # "nan" /\ Place(f) < Place(g)
NumLE(f, g)   == f.tag # "nan" /\ g.tag # "nan" /\ Place(f) <= Place(g)
Zero          == Float(0)

-----------------------------------------------------------------------------
\* Conversions

\* <<the integer>> or <<>>
NumberToInteger(n) == IF MinInteger <= n /\ n < -MinInteger THEN <<n>> ELSE <<>>

FloatToInteger(f, mode) ==
  LET floor == f.v \div 2
  IN  IF f.tag # "flt" THEN <<>>
      ELSE IF f.v % 2 = 0 THEN NumberToInteger(floor)
      ELSE CASE mode = "eq"    -> <<>>
             [] mode = "ceil"  -> NumberToInteger(floor + 1)
             [] mode = "floor" -> NumberToInteger(floor)

ToIntegerNS(x, mode) == IF x.tag = "int" THEN <<x.v>> ELSE FloatToInteger(x, mode)
ToNumber(x)          == IF x.tag = "int" THEN CastNum(x.v) ELSE x

-----------------------------------------------------------------------------
\* Comparisons

\* every integer in [-2^Mantissa, 2^Mantissa] is a float
IntFitsFloat(i) == Unsigned(2^Mantissa + Unsigned(i)) <= 2 * 2^Mantissa

\* -- mutant: the integer is rounded to a float
LTIntFloat_Cast(i, f) == NumLT(CastNum(i), f)

LTIntFloat(i, f) ==
  LET fi == FloatToInteger(f, "ceil")
  IN  IF IntFitsFloat(i) THEN NumLT(CastNum(i), f)
      ELSE IF fi # <<>> THEN i < fi[1]
      ELSE NumLT(Zero, f)

LEIntFloat(i, f) ==
  LET fi == FloatToInteger(f, "floor")
  IN  IF IntFitsFloat(i) THEN NumLE(CastNum(i), f)
      ELSE IF fi # <<>> THEN i <= fi[1]
      ELSE NumLT(Zero, f)

LTFloatInt(f, i) ==
  LET fi == FloatToInteger(f, "floor")
  IN  IF IntFitsFloat(i) THEN NumLT(f, CastNum(i))
      ELSE IF fi # <<>> THEN fi[1] < i
      ELSE NumLT(f, Zero)

LEFloatInt(f, i) ==
  LET fi == FloatToInteger(f, "ceil")
  IN  IF IntFitsFloat(i) THEN NumLE(f, CastNum(i))
      ELSE IF fi # <<>> THEN fi[1] <= i
      ELSE NumLT(f, Zero)

LTNum(l, r) ==
  CASE l.tag = "int" /\ r.tag = "int" -> l.v < r.v
    [] l.tag = "int" /\ r.tag # "int" -> LTIntFloat(l.v, r)
    [] l.tag # "int" /\ r.tag = "int" -> LTFloatInt(l, r.v)
    [] OTHER                          -> NumLT(l, r)

LENum(l, r) ==
  CASE l.tag = "int" /\ r.tag = "int" -> l.v <= r.v
    [] l.tag = "int" /\ r.tag # "int" -> LEIntFloat(l.v, r)
    [] l.tag # "int" /\ r.tag = "int" -> LEFloatInt(l, r.v)
    [] OTHER                          -> NumLE(l, r)

EqualNum(l, r) ==
  CASE l.tag = "int" /\ r.tag = "int" -> l.v = r.v
    [] l.tag # "int" /\ r.tag # "int" -> NumLE(l, r) /\ NumLE(r, l)
    [] OTHER -> /\ ToIntegerNS(l, "eq") # <<>>
                /\ ToIntegerNS(l, "eq") = ToIntegerNS(r, "eq")

-----------------------------------------------------------------------------
\* Integer arithmetic; an error is <<>>

\* C's division truncates
Quotient(m, n)  == LET q == Magnitude(m) \div Magnitude(n)
                   IN  IF (m < 0) # (n < 0) THEN -q ELSE q
Remainder(m, n) == m - n * Quotient(m, n)
\* n is 0 or -1
Special(n)      == Unsigned(Unsigned(n) + 1) <= 1

IDiv(m, n) ==
  IF Special(n) THEN IF n = 0 THEN <<>> ELSE <<Signed(0 - Unsigned(m))>>
  ELSE <<IF (m < 0) # (n < 0) /\ Remainder(m, n) # 0
         THEN Quotient(m, n) - 1 ELSE Quotient(m, n)>>

Mod(m, n) ==
  LET r == Remainder(m, n)
  IN  IF Special(n) THEN IF n = 0 THEN <<>> ELSE <<0>>
      ELSE <<IF r # 0 /\ (r < 0) # (n < 0) THEN r + n ELSE r>>

\* shifts are logical; a negative distance shifts the other way
ShiftLeft(x, y) ==
  IF y <= -IntBits \/ y >= IntBits THEN 0
  ELSE IF y < 0 THEN Signed(Unsigned(x) \div 2^(-y))
  ELSE Signed(Unsigned(x) * 2^y)
ShiftRight(x, y) == ShiftLeft(x, Signed(0 - Unsigned(y)))

IntArith(op, m, n) ==
  CASE op = "add"  -> <<Signed(Unsigned(m) + Unsigned(n))>>
    [] op = "sub"  -> <<Signed(Unsigned(m) - Unsigned(n))>>
    [] op = "mul"  -> <<Signed(Unsigned(m) * Unsigned(n))>>
    [] op = "idiv" -> IDiv(m, n)
    [] op = "mod"  -> Mod(m, n)
    [] op = "shl"  -> <<ShiftLeft(m, n)>>
    [] op = "shr"  -> <<ShiftRight(m, n)>>

\* luaO_rawarith: floats join in only where the operation allows them
Arith(op, x, y) ==
  IF x.tag = "int" /\ y.tag = "int" THEN IntArith(op, x.v, y.v)
  ELSE IF op \in {"shl", "shr"} /\ ToIntegerNS(x, "eq") # <<>> /\ ToIntegerNS(y, "eq") # <<>>
  THEN IntArith(op, ToIntegerNS(x, "eq")[1], ToIntegerNS(y, "eq")[1])
  ELSE <<>>

-----------------------------------------------------------------------------
\* Numeric for loops

\* <<the integer limit>>, or <<>> when the loop must not run
ForLimit(init, lim, step) ==
  LET p     == ToIntegerNS(lim, IF step < 0 THEN "ceil" ELSE "floor")
      large == NumLT(Zero, ToNumber(lim))    \* out of the integers, or NaN
      limit == IF p # <<>> THEN p
               ELSE IF large THEN IF step < 0 THEN <<>> ELSE <<MaxInteger>>
               ELSE IF step > 0 THEN <<>> ELSE <<MinInteger>>
  IN  IF limit = <<>> \/ (IF step > 0 THEN init > limit[1] ELSE init < limit[1])
      THEN <<>> ELSE limit

\* how many times the body runs again
ForCount(init, limit, step) ==
  IF step > 0 THEN Unsigned(Unsigned(limit) - Unsigned(init)) \div Unsigned(step)
  ELSE Unsigned(Unsigned(init) - Unsigned(limit))
         \div Unsigned(Unsigned(-(step + 1)) + 1)

\* the loop's registers; <<>> if it must be skipped
ForPrep(init, lim, step) ==
  IF init.tag = "int" /\ step.tag = "int"
  THEN LET limit == ForLimit(init.v, lim, step.v)
       IN  IF limit = <<>> THEN <<>>
           ELSE <<[idx |-> init, count |-> ForCount(init.v, limit[1], step.v), step |-> step]>>
  ELSE LET i == ToNumber(init)  l == ToNumber(lim)  s == ToNumber(step)
       IN  IF IF NumLT(Zero, s) THEN NumLT(l, i) ELSE NumLT(i, l) THEN <<>>
           ELSE <<[idx |-> i, count |-> l, step |-> s]>>

NumAdd(f, g) ==
  CASE f.tag = "nan" \/ g.tag = "nan" -> NaN
    [] f.tag = "inf" /\ g.tag = "inf" -> IF f.v = g.v THEN f ELSE NaN
    [] f.tag = "inf" /\ g.tag = "flt" -> f
    [] f.tag = "flt" /\ g.tag = "inf" -> g
    [] f.tag = "flt" /\ g.tag = "flt" -> Float(Nearest(f.v + g.v))

\* OP_FORLOOP; <<>> ends the loop
ForLoop(r) ==
  IF r.step.tag = "int"
  THEN IF r.count = 0 THEN <<>>
       ELSE <<[r EXCEPT !.count = @ - 1,
                        !.idx.v = Signed(Unsigned(@) + Unsigned(r.step.v))]>>
  ELSE LET idx == NumAdd(r.idx, r.step)
       IN  IF IF NumLT(Zero, r.step) THEN NumLE(idx, r.count) ELSE NumLE(r.count, idx)
           THEN <<[r EXCEPT !.idx = idx]>> ELSE <<>>

\* the values of the control variable, as far as a loop is followed
MaxIterations == 2^IntBits + 1
ForValues(init, lim, step) ==
  LET Goes(rs) == rs # <<>> /\ Len(rs) < MaxIterations /\ ForLoop(Last(rs)) # <<>>
      Again(rs, k) == IF Goes(rs) THEN Append(rs, ForLoop(Last(rs))[1]) ELSE rs
      rs == FoldLeft(Again, ForPrep(init, lim, step), [k \in 1 .. MaxIterations |-> k])
  IN  [k \in DOMAIN rs |-> rs[k].idx]

-----------------------------------------------------------------------------
\* Reading a numeral as an integer, and random integers in a range

MaxBy10 == MaxInteger \div 10
MaxLast == MaxInteger % 10

\* a decimal numeral that does not fit is not an integer (<<>>, it may be read
\* as a float); a hexadecimal one wraps around
StrToInt(neg, hex, digits) ==
  LET Full(a, d) == a >= MaxBy10 /\ (a > MaxBy10 \/ d > MaxLast + (IF neg THEN 1 ELSE 0))
      Read(a, d) == IF a = <<>> THEN <<>>
                    ELSE IF hex THEN <<Unsigned(a[1] * 16 + d)>>
                    ELSE IF Full(a[1], d) THEN <<>> ELSE <<a[1] * 10 + d>>
      a == FoldLeft(Read, <<0>>, digits)
  IN  IF digits = <<>> \/ a = <<>> THEN <<>>
      ELSE <<Signed(IF neg THEN 0 - a[1] ELSE a[1])>>

Bits(n)     == {b \in 0 .. IntBits - 1 : (n \div 2^b) % 2 = 1}
FromBits(B) == LET f[b \in Nat] == IF b = 0 THEN 0
                                   ELSE 2 * f[b - 1] + (IF IntBits - b \in B THEN 1 ELSE 0)
               IN  f[IntBits]

\* the smallest 2^b - 1 not smaller than n: every set bit is copied downwards
\* 1, 2, 4, ... places
FillBits(n) ==
  LET Copy(B, s) == B \cup {b \in 0 .. IntBits - 1 : b + s \in B}
  IN  FromBits(FoldLeft(Copy, Bits(n), <<1, 2, 4, 8, 16, 32>>))

\* the random bits projected into [0, n]; <<>> asks for other bits
Project(ran, n) ==
  LET r == FromBits(Bits(ran) \cap Bits(FillBits(n)))
  IN  IF r > n THEN <<>> ELSE <<r>>

\* math.random(low, up), for every value of the generator
Random(low, up) ==
  LET p(ran) == Project(ran, Unsigned(Unsigned(up) - Unsigned(low)))
  IN  [ran \in 0 .. 2^IntBits - 1 |->
         IF p(ran) = <<>> THEN <<>> ELSE <<Signed(p(ran)[1] + Unsigned(low))>>]

-----------------------------------------------------------------------------
\* The calls

NumbersNext ==
  \/ Return("compare", [lt |-> LTNum(job.a, job.b), le |-> LENum(job.a, job.b),
                        eq |-> EqualNum(job.a, job.b)])
  \/ Return("arith", Arith(job.op, job.a, job.b))
  \/ Return("for", ForValues(job.init, job.limit, job.step))
  \/ Return("str2int", StrToInt(job.neg, job.hex, job.digits))
  \/ Return("random", Random(job.low, job.up))

-----------------------------------------------------------------------------
\* What the results mean

\* a number's exact value in halves
Exact(x) == IF x.tag = "int" THEN 2 * x.v ELSE Place(x)

\* Comparing an integer with a float compares their mathematical values,
\* although the integer may have no float and the float no integer
\* (LTintfloat and the others); NaN compares with nothing.
ComparesExactly ==
  LET a == job.a  b == job.b  r == answer[1]
      ordered == a.tag # "nan" /\ b.tag # "nan"
  IN  /\ r.lt = (ordered /\ Exact(a) < Exact(b))
      /\ r.le = (ordered /\ Exact(a) <= Exact(b))
      /\ r.eq = (ordered /\ Exact(a) = Exact(b))

\* Division and modulus round towards minus infinity and agree with each
\* other also for the smallest integer; a shift moves bits and never wraps.
ArithmeticExact ==
  LET q == IDiv(job.a.v, job.b.v)  m == Mod(job.a.v, job.b.v)  n == job.b.v
      i == ToIntegerNS(job.a, "eq")  j == ToIntegerNS(job.b, "eq")
  IN  CASE job.op \in {"idiv", "mod"} /\ job.a.tag = "int" /\ job.b.tag = "int" ->
             IF n = 0 THEN answer[1] = <<>>
             ELSE /\ answer[1] = IF job.op = "idiv" THEN q ELSE m
                  /\ {q[1], m[1]} \subseteq LuaInteger
                  /\ Signed(n * q[1] + m[1]) = job.a.v
                  /\ IF n > 0 THEN m[1] \in 0 .. n - 1 ELSE m[1] \in n + 1 .. 0
        [] job.op \in {"shl", "shr"} /\ i # <<>> /\ j # <<>> ->
             LET up == IF job.op = "shl" THEN j[1] ELSE -j[1]
             IN  /\ answer[1][1] \in LuaInteger
                 /\ Bits(Unsigned(answer[1][1])) =
                      {b + up : b \in Bits(Unsigned(i[1]))} \cap (0 .. IntBits - 1)
        [] OTHER -> answer[1] # <<>> => answer[1][1] \in LuaInteger

\* A loop over integers takes exactly the values init, init + step, ... that
\* do not pass the limit, whatever that is, and never wraps around at the ends
\* of the integers (forlimit, forprep).  (A NaN as the limit of a descending
\* loop is taken for a limit below all integers, and is left out.)  A loop over
\* floats stays within its limit.
LoopExact ==
  LET s == job.step  r == answer[1]
      within(x) == IF NumLT(Zero, ToNumber(s)) THEN Exact(x) <= Exact(job.limit)
                                               ELSE Exact(x) >= Exact(job.limit)
      value(k)  == Integer(job.init.v + k * s.v)
  IN  IF job.init.tag = "int" /\ s.tag = "int"
      THEN job.limit.tag # "nan" =>
             /\ \A k \in 1 .. Len(r) : r[k] = value(k - 1) /\ within(r[k])
             /\ value(Len(r)).v \in LuaInteger => ~within(value(Len(r)))
      ELSE job.limit.tag # "nan" => \A k \in 1 .. Len(r) : within(r[k])

\* A decimal numeral is read as an integer exactly when the integer exists, the
\* smallest one included; a hexadecimal one is read modulo 2^IntBits.
NumeralExact ==
  LET base == IF job.hex THEN 16 ELSE 10
      abs  == FoldLeft(LAMBDA a, d : a * base + d, 0, job.digits)
      v    == IF job.neg THEN -abs ELSE abs
  IN  IF job.digits = <<>> \/ (~job.hex /\ v \notin LuaInteger) THEN answer[1] = <<>>
      ELSE answer[1] = <<IF job.hex THEN Signed(v) ELSE v>>

\* A random integer lies in its interval, even one wider than the integers,
\* and every integer of it is drawn by equally many values of the generator.
RandomUniform ==
  LET hits(v) == Cardinality({ran \in DOMAIN answer[1] : answer[1][ran] = <<v>>})
  IN  /\ \A v \in LuaInteger : hits(v) > 0 <=> v \in job.low .. job.up
      /\ \A v \in job.low .. job.up : hits(v) = hits(job.low)

\* Numbers are exact: see the five statements above.
NumbersExact ==
  /\ Returned({"compare"}) => ComparesExactly
  /\ Returned({"arith"})   => ArithmeticExact
  /\ Returned({"for"})     => LoopExact
  /\ Returned({"str2int"}) => NumeralExact
  /\ Returned({"random"})  => RandomUniform
=============================================================================
