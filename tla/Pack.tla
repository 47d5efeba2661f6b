---------------------------------- MODULE Pack ----------------------------------
(***************************************************************************)
(* string.pack, packsize and unpack (lstrlib.c): integers of any size in   *)
(* either byte order, with sign extension and overflow checks, counted and *)
(* terminated strings, and alignment that depends on all that came before. *)
(*                                                                         *)
(* A byte has ByteBits bits; a format is the sequence of its options, each *)
(* with its size already read.  A float is the bytes of its value.         *)
(***************************************************************************)
EXTENDS Integers, Sequences, SequencesExt, FiniteSets, Job

CONSTANTS
  ByteBits,     \* NB
  IntSize,      \* SZINT, bytes in a lua_Integer
  SizeTSize,    \* sizeof(size_t)
  FloatSize,    \* sizeof(lua_Number)
  MaxIntSize,   \* MAXINTSIZE
  MaxSize       \* MAXSIZE, the largest size that packsize returns

ASSUME PackAssumption ==
  /\ {ByteBits, IntSize, SizeTSize, FloatSize, MaxIntSize, MaxSize} \subseteq Nat \ {0}
  /\ SizeTSize <= IntSize /\ IntSize <= MaxIntSize

Byte      == 0 .. 2^ByteBits - 1
Space(sz) == 2^(ByteBits * sz)                 \* the values of sz bytes
PackInts  == -(Space(IntSize) \div 2) .. Space(IntSize) \div 2 - 1
ToSigned(u) == IF u >= Space(IntSize) \div 2 THEN u - Space(IntSize) ELSE u

Native == [little |-> TRUE, maxalign |-> 1]    \* initheader

\* bytes in order of weight, from or to the format's order
Ordered(h, bytes) == IF h.little THEN bytes ELSE Reverse(bytes)

Repeat(x, n) == [i \in 1 .. n |-> x]

\* -- mutant: no sign extension past the size of an integer
PackInt_NoExtension(n, size) ==
  [i \in 1 .. size |-> ((n % Space(IntSize)) \div Space(i - 1)) % Space(1)]

\* the bytes of n, lowest first; those past a lua_Integer repeat the sign
PackInt(n, size) ==
  [i \in 1 .. size |->
     IF i > IntSize /\ n < 0 THEN Space(1) - 1
     ELSE ((n % Space(IntSize)) \div Space(i - 1)) % Space(1)]

\* <<the integer>>; <<>> if it does not fit
UnpackInt(bytes, signed) ==
  LET size  == Len(bytes)
      low   == IF size <= IntSize THEN bytes ELSE SubSeq(bytes, 1, IntSize)
      res   == FoldRight(LAMBDA b, r : r * Space(1) + b, low, 0)
      fill  == IF ~signed \/ ToSigned(res) >= 0 THEN 0 ELSE Space(1) - 1
  IN  IF size < IntSize
      THEN <<IF signed /\ res >= Space(size) \div 2 THEN res - Space(size) ELSE res>>
      ELSE IF \E i \in IntSize + 1 .. size : bytes[i] # fill THEN <<>>
      ELSE <<ToSigned(res)>>

\* the option that stands first in a format: its size, and the header after it
OptionSize(o) == CASE o.opt \in {"int", "uint", "string", "char"} -> o.size
                   [] o.opt = "number" -> FloatSize
                   [] o.opt = "padding" -> 1
                   [] OTHER -> 0
Header(h, o) == CASE o.opt = "little"  -> [h EXCEPT !.little = TRUE]
                  [] o.opt = "big"     -> [h EXCEPT !.little = FALSE]
                  [] o.opt = "maxalign" -> [h EXCEPT !.maxalign = o.size]
                  [] OTHER -> h
SizeInLimits(o) == o.opt \in {"int", "uint", "string", "maxalign"} => o.size \in 1 .. MaxIntSize

PowerOf2(n) == \E k \in 0 .. n : n = 2^k

\* how many bytes bring the total to a multiple of align
Padding(align, total) == (align - (total % align)) % align

\* getdetails: an error is ok = FALSE.  'X' takes the alignment of the option
\* behind it, which it consumes.
Details(h, total, fmt) ==
  LET o     == fmt[1]
      x     == o.opt = "alignto"
      next  == IF x /\ Len(fmt) > 1 THEN fmt[2] ELSE o
      size  == OptionSize(o)
      align == IF x THEN OptionSize(next) ELSE size
      used  == IF align > h.maxalign THEN h.maxalign ELSE align
      none  == align <= 1 \/ o.opt = "char"
      bad   == \/ ~SizeInLimits(o) \/ ~SizeInLimits(next)
               \/ x /\ (Len(fmt) = 1 \/ next.opt = "char" \/ align = 0)
               \/ ~none /\ ~PowerOf2(used)
  IN  [ok |-> ~bad, opt |-> o.opt, size |-> size,
       pad |-> IF none \/ bad THEN 0 ELSE Padding(used, total),
       h |-> Header(Header(h, o), next),
       rest |-> SubSeq(fmt, IF x THEN 3 ELSE 2, Len(fmt))]

NoValue == {"padding", "alignto", "little", "big", "maxalign"}

\* the bytes an option makes of an argument; <<>> is an error
PackValue(d, v) ==
  LET Fits(lo, hi) == d.size >= IntSize \/ (lo <= v.n /\ v.n < hi)
      Num(n)       == Ordered(d.h, PackInt(n, d.size))
  IN  CASE d.opt = "int"  -> IF Fits(-(Space(d.size) \div 2), Space(d.size) \div 2)
                             THEN <<Num(v.n)>> ELSE <<>>
        [] d.opt = "uint" -> IF Fits(0, Space(d.size))
                             THEN <<Ordered(d.h, PackInt(v.n % Space(IntSize), d.size))>> ELSE <<>>
        [] d.opt = "number" -> <<Ordered(d.h, v.s)>>
        [] d.opt = "char"   -> IF Len(v.s) > d.size THEN <<>>
                               ELSE <<v.s \o Repeat(0, d.size - Len(v.s))>>
        [] d.opt = "string" -> IF d.size < SizeTSize /\ Len(v.s) >= Space(d.size) THEN <<>>
                               ELSE <<Num(Len(v.s)) \o v.s>>
        [] d.opt = "zstr"   -> IF \E i \in DOMAIN v.s : v.s[i] = 0 THEN <<>>
                               ELSE <<Append(v.s, 0)>>
        [] d.opt = "padding" -> <<<<0>>>>
        [] OTHER             -> <<<<>>>>

RECURSIVE PackFrom(_, _, _, _), SizeFrom(_, _, _), UnpackFrom(_, _, _, _, _), UnpackOption(_, _, _, _)

\* str_pack: <<the bytes>>, or <<>> for an error
PackFrom(h, fmt, args, out) ==
  IF fmt = <<>> THEN <<out>>
  ELSE LET d    == Details(h, Len(out), fmt)
           none == d.opt \in NoValue
           v    == PackValue(d, IF none THEN [n |-> 0, s |-> <<>>] ELSE args[1])
       IN  IF ~d.ok \/ v = <<>> THEN <<>>
           ELSE PackFrom(d.h, d.rest, IF none THEN args ELSE Tail(args),
                         out \o Repeat(0, d.pad) \o v[1])

\* str_packsize
SizeFrom(h, fmt, total) ==
  IF fmt = <<>> THEN <<total>>
  ELSE LET d    == Details(h, total, fmt)
           size == d.size + d.pad
       IN  IF ~d.ok \/ d.opt \in {"string", "zstr"} \/ total > MaxSize - size THEN <<>>
           ELSE SizeFrom(d.h, d.rest, total + size)

\* str_unpack: <<the values, the next position>>, or <<>> for an error
UnpackFrom(h, fmt, data, pos, vals) ==
  IF fmt = <<>> THEN <<vals, pos + 1>> ELSE UnpackOption(Details(h, pos, fmt), data, pos, vals)

UnpackOption(d, data, pos, vals) ==
  LET at    == pos + d.pad
      left  == Len(data) - at - d.size
      bytes == SubSeq(data, at + 1, at + d.size)
      int   == UnpackInt(Ordered(d.h, bytes), d.opt = "int")
      size  == int[1] % Space(SizeTSize)                       \* (size_t)
      zeros == {i \in at + 1 .. Len(data) : data[i] = 0}
      Num(n)    == [n |-> n, s |-> <<>>]
      Str(a, b) == [n |-> 0, s |-> SubSeq(data, a, b)]
      Go(v, p)  == UnpackFrom(d.h, d.rest, data, p, Append(vals, v))
  IN  CASE ~d.ok \/ d.pad + d.size > Len(data) - pos -> <<>>
        [] d.ok /\ d.pad + d.size <= Len(data) - pos ->
             CASE d.opt \in {"int", "uint"} ->
                    IF int = <<>> THEN <<>> ELSE Go(Num(int[1]), at + d.size)
               [] d.opt = "number" -> Go([n |-> 0, s |-> Ordered(d.h, bytes)], at + d.size)
               [] d.opt = "char"   -> Go(Str(at + 1, at + d.size), at + d.size)
               [] d.opt = "string" ->
                    IF int = <<>> \/ (int # <<>> /\ size > left) THEN <<>>
                    ELSE Go(Str(at + d.size + 1, at + d.size + size), at + d.size + size)
               [] d.opt = "zstr" ->
                    IF zeros = {} THEN <<>> ELSE Go(Str(at + 1, Min(zeros) - 1), Min(zeros))
               [] OTHER -> UnpackFrom(d.h, d.rest, data, at + d.size, vals)

PackNext ==
  \/ Return("str_pack", PackFrom(Native, job.fmt, job.args, <<>>))
  \/ Return("str_unpack", UnpackFrom(Native, job.fmt, job.data, job.pos, <<>>))

-----------------------------------------------------------------------------
\* the options that have a value: not those that follow 'X'
Takes(fmt) ==
  LET is == {i \in DOMAIN fmt : /\ fmt[i].opt \notin NoValue
                                /\ i > 1 => fmt[i - 1].opt # "alignto"}
  IN  [k \in 1 .. Cardinality(is) |-> fmt[SetToSortSeq(is, LAMBDA i, j : i < j)[k]]]

Back(o, v) == IF o.opt = "char" THEN [v EXCEPT !.s = @ \o Repeat(0, o.size - Len(@))] ELSE v

\* What was packed unpacks to the same values and ends where the bytes end, in
\* either byte order and whatever the alignment; no shorter string unpacks; and
\* packsize tells the length of a fixed format, unless that exceeds MaxSize.
\* What unpacks from any bytes stays inside them, and packs to the same bytes if
\* these hold only integers.
PackRoundTrip ==
  LET takes == Takes(job.fmt)
      out   == answer[1]
  IN  /\ Returned({"str_pack"}) /\ out # <<>> =>
           LET bytes == out[1]
               kept  == [i \in DOMAIN takes |-> Back(takes[i], job.args[i])]
           IN  /\ UnpackFrom(Native, job.fmt, bytes, 0, <<>>) = <<kept, Len(bytes) + 1>>
               /\ \A n \in 0 .. Len(bytes) - 1 :
                    UnpackFrom(Native, job.fmt, SubSeq(bytes, 1, n), 0, <<>>) = <<>>
               /\ (\A i \in DOMAIN job.fmt : job.fmt[i].opt \notin {"string", "zstr"}) =>
                    SizeFrom(Native, job.fmt, 0) = IF Len(bytes) > MaxSize THEN <<>> ELSE <<Len(bytes)>>
      /\ Returned({"str_unpack"}) /\ out # <<>> =>
           /\ out[2] <= Len(job.data) + 1
           /\ (\A i \in DOMAIN job.fmt : job.fmt[i].opt \in {"int", "uint", "little", "big"}) =>
                PackFrom(Native, job.fmt, out[1], <<>>) = <<SubSeq(job.data, job.pos + 1, out[2] - 1)>>
=============================================================================
