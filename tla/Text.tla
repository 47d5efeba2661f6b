---------------------------------- MODULE Text ----------------------------------
(***************************************************************************)
(* Positions in strings (lstrlib.c) and UTF-8 (lutf8lib.c, luaO_utf8esc).  *)
(*                                                                         *)
(* A position is a lua_Integer of PosBits bits, a size a size_t of SizeBits *)
(* bits, which wraps around.  A string is the sequence of its bytes; offsets *)
(* into it count from 0 and the byte at its end is the final '\0'.         *)
(***************************************************************************)
EXTENDS Integers, Sequences, SequencesExt, FiniteSets, FiniteSetsExt, Job

CONSTANTS
  PosBits,     \* width of a lua_Integer
  SizeBits,    \* width of a size_t
  MaxText      \* MAXSIZE, INT_MAX, the longest result

ASSUME TextAssumption ==
  /\ SizeBits \in Nat \ {0} /\ PosBits \in Nat /\ PosBits >= SizeBits
  /\ MaxText \in 1 .. 2^SizeBits - 1

Positions == -2^(PosBits - 1) .. 2^(PosBits - 1) - 1
SizeT(n)  == n % 2^SizeBits

Outside  == -1                    \* what lies around a string
At(s, i) == IF i = Len(s) THEN 0 ELSE IF i \in 0 .. Len(s) - 1 THEN s[i + 1] ELSE Outside
Slice(s, start, len) == [k \in 1 .. len |-> At(s, start + k - 1)]

\* an initial position, clipped to [1, inf)
PosRelatI(pos, len) ==
  CASE pos > 0    -> SizeT(pos)
    [] pos = 0 \/ pos < -len -> 1
    [] OTHER      -> SizeT(len + SizeT(pos) + 1)

\* a final position, clipped to [0, len]
GetEndPos(pos, len) ==
  CASE pos > len  -> len
    [] pos \in 0 .. len -> pos
    [] pos < -len -> 0
    [] OTHER      -> SizeT(len + SizeT(pos) + 1)

Sub(s, i, j) ==
  LET start == PosRelatI(i, Len(s))
      end   == GetEndPos(j, Len(s))
  IN  IF start <= end THEN Slice(s, start - 1, end - start + 1) ELSE <<>>

\* <<the bytes>>, or <<>> for an error
Bytes(s, i, j, intMax) ==
  LET start == PosRelatI(i, Len(s))
      end   == GetEndPos(j, Len(s))
  IN  CASE start > end -> <<<<>>>>
        [] end - start >= intMax -> <<>>
        [] OTHER -> <<Slice(s, start - 1, end - start + 1)>>

\* <<the room it asks for, the bytes it writes>>
Rep(s, n, sep) ==
  LET l == Len(s)  lsep == Len(sep)
      total == SizeT(SizeT(SizeT(n) * l) + SizeT(SizeT(n - 1) * lsep))
  IN  IF n <= 0 THEN <<0, <<>>>>
      ELSE IF SizeT(l + lsep) < l \/ SizeT(l + lsep) > MaxText \div n THEN <<>>
      ELSE <<total, FlattenSeq([k \in 1 .. n - 1 |-> s \o sep]) \o s>>

\* lmemfind: from offset 'at', look for the first byte, then compare the rest
RECURSIVE MemFind(_, _, _)
MemFind(text, what, at) ==
  LET last == Len(text) - Len(what)              \* no match can start after it
      hits == {k \in at .. last : At(text, k) = At(what, 0)}
  IN  CASE what = <<>> -> at
        [] what # <<>> /\ hits = {} -> -1
        [] what # <<>> /\ hits # {} ->
             LET k == Min(hits)
             IN  IF Slice(text, k + 1, Len(what) - 1) = Tail(what) THEN k
                 ELSE MemFind(text, what, k + 1)

\* str_find_aux, plain: the position of the match, 0 for none
FindPlain(text, what, init) ==
  LET start == PosRelatI(init, Len(text)) - 1
      at    == MemFind(text, what, start)
  IN  IF start > Len(text) \/ at < 0 THEN 0 ELSE at + 1

-----------------------------------------------------------------------------
\* UTF-8

MaxUnicode == 1114111             \* 10FFFF
MaxUtf     == 2147483647          \* 7FFFFFFF
Surrogates == 55296 .. 57343      \* D800 .. DFFF
IsCont(b)  == b \in 128 .. 191

\* the bytes of a code, written from the last to the first: mfb is the most that
\* fits in the first byte
RECURSIVE Escape(_, _, _)
Escape(x, mfb, conts) ==
  LET more == <<128 + (x % 64)>> \o conts
      rest == x \div 64
      fits == mfb \div 2
  IN  IF rest > fits THEN Escape(rest, fits, more)
      ELSE <<256 - 2 * (fits + 1) + rest>> \o more
Utf8Esc(x) == IF x < 128 THEN <<x>> ELSE Escape(x, 63, <<>>)

\* the least code of each length
Limits == <<128, 2048, 65536, 2097152, 67108864>>

\* how many continuation bytes a first byte calls for
Count(c) == Cardinality({k \in 1 .. 7 : c >= 256 - 2^(7 - k)})

\* -- mutant: overlong sequences are not refused
Decode_Overlong(s, i, strict) ==
  LET c     == At(s, i)
      count == Count(c)
      res   == FoldLeft(LAMBDA r, k : r * 64 + (At(s, i + k) - 128), c % 2^(6 - count),
                        [k \in 1 .. count |-> k])
  IN  IF c < 128 THEN <<c, i + 1>>
      ELSE IF count \notin 1 .. 5 \/ (\E k \in 1 .. count : ~IsCont(At(s, i + k))) THEN <<>>
      ELSE IF strict /\ (res > MaxUnicode \/ res \in Surrogates) THEN <<>>
      ELSE <<res, i + 1 + count>>

\* utf8_decode at offset i: <<the code, the next offset>>, <<>> if invalid
Decode(s, i, strict) ==
  LET c     == At(s, i)
      count == Count(c)
      res   == FoldLeft(LAMBDA r, k : r * 64 + (At(s, i + k) - 128), c % 2^(6 - count),
                        [k \in 1 .. count |-> k])
  IN  IF c < 128 THEN <<c, i + 1>>
      ELSE IF count \notin 1 .. 5 \/ (\E k \in 1 .. count : ~IsCont(At(s, i + k))) THEN <<>>
      ELSE IF res < Limits[count] THEN <<>>
      ELSE IF strict /\ (res > MaxUnicode \/ res \in Surrogates) THEN <<>>
      ELSE <<res, i + 1 + count>>

UPosRelat(pos, len) ==
  IF pos >= 0 THEN pos ELSE IF SizeT(-SizeT(pos)) > len THEN 0 ELSE len + pos + 1

\* the codes of the sequences that start in [at, end): <<codes, where it stopped>>,
\* the last is 'end' or further unless a sequence there is invalid
RECURSIVE Codes(_, _, _, _, _)
Codes(s, at, end, strict, codes) ==
  IF at >= end THEN <<codes, at>>
  ELSE LET d == Decode(s, at, strict)
       IN  IF d = <<>> THEN <<codes, at>> ELSE Codes(s, d[2], end, strict, Append(codes, d[1]))

\* utflen: the count, or the position of the first invalid byte
UtfLen(s, i, j, lax) ==
  LET posi == UPosRelat(i, Len(s)) - 1
      posj == UPosRelat(j, Len(s)) - 1
      c    == Codes(s, posi, posj + 1, ~lax, <<>>)
  IN  IF posi < 0 \/ posi > Len(s) \/ posj >= Len(s) THEN [error |-> TRUE]
      ELSE [error |-> FALSE, n |-> Len(c[1]), bad |-> IF c[2] > posj THEN 0 ELSE c[2] + 1]

\* codepoint: <<the codes>>, or <<>> for an error
CodePoint(s, i, j, lax) ==
  LET posi == UPosRelat(i, Len(s))
      pose == UPosRelat(j, Len(s))
      c    == Codes(s, posi - 1, pose, ~lax, <<>>)
  IN  IF posi < 1 \/ pose > Len(s) THEN <<>>
      ELSE IF posi > pose THEN <<<<>>>>
      ELSE IF c[2] < pose THEN <<>> ELSE <<c[1]>>

\* the next offset up to 'stop' that does not hold a continuation byte
RECURSIVE Skip(_, _, _, _)
Skip(s, i, step, stop) ==
  IF i # stop /\ IsCont(At(s, i)) THEN Skip(s, i + step, step, stop) ELSE i

\* byteoffset: <<the position>>, <<0>> for no such character, <<>> for an error
RECURSIVE Walk(_, _, _)
Walk(s, posi, n) ==
  CASE n < 0 /\ posi > 0      -> Walk(s, Skip(s, posi - 1, -1, 0), n + 1)
    [] n > 0 /\ posi < Len(s) -> Walk(s, Skip(s, posi + 1, 1, Len(s)), n - 1)
    [] OTHER -> IF n = 0 THEN posi + 1 ELSE 0
Offset(s, n, i) ==
  LET posi == UPosRelat(i, Len(s)) - 1
  IN  IF posi < 0 \/ posi > Len(s) THEN <<>>
      ELSE IF n = 0 THEN <<Skip(s, posi, -1, 0) + 1>>
      ELSE IF IsCont(At(s, posi)) THEN <<>>
      ELSE <<Walk(s, posi, IF n > 0 THEN n - 1 ELSE n)>>

\* iter_aux: <<position, code>>, <<>> at the end, <<"error">>
IterAux(s, n, strict) ==
  LET at == IF n \in 0 .. Len(s) - 1 THEN Skip(s, n, 1, Len(s)) ELSE Len(s)
      d  == Decode(s, at, strict)
  IN  IF at >= Len(s) THEN <<>>
      ELSE IF d = <<>> THEN <<"error">>
      ELSE IF IsCont(At(s, d[2])) THEN <<"error">> ELSE <<at + 1, d[1]>>

\* a whole loop over utf8.codes: the answers of iter_aux, up to an error
RECURSIVE Iterate(_, _, _, _)
Iterate(s, n, strict, seen) ==
  LET r == IterAux(s, n, strict)
  IN  CASE r = <<>>        -> seen
        [] r = <<"error">> -> Append(seen, r)
        [] OTHER           -> Iterate(s, r[1], strict, Append(seen, r))
IterCodes(s, strict) == IF IsCont(At(s, 0)) THEN <<<<"error">>>> ELSE Iterate(s, 0, strict, <<>>)

TextNext ==
  \/ Return("sub", Sub(job.s, job.i, job.j))
  \/ Return("byte", Bytes(job.s, job.i, job.j, 2))
  \/ Return("rep", Rep(job.s, job.i, job.sep))
  \/ Return("plain", FindPlain(job.s, job.what, job.i))
  \/ Return("char", Utf8Esc(job.code))
  \/ Return("len", UtfLen(job.s, job.i, job.j, job.lax))
  \/ Return("codepoint", CodePoint(job.s, job.i, job.j, job.lax))
  \/ Return("offset", Offset(job.s, job.n, job.i))
  \/ Return("codes", IterCodes(job.s, ~job.lax))

-----------------------------------------------------------------------------
\* What must hold

\* a position of the manual's words: from the end if it is negative
Absolute(i, len) == IF i < 0 THEN len + i + 1 ELSE i
Between(s, i, j) ==
  LET a == Max({1, Absolute(i, Len(s))})
      z == Min({Len(s), Absolute(j, Len(s))})
  IN  IF a > z THEN <<>> ELSE SubSeq(s, a, z)

\* Negative, zero and too large positions never read around the string; 'rep'
\* writes as much as it asked for, and nothing wraps around; the plain search
\* finds the first occurrence.  (Positions that a size_t holds.)
PositionsExact ==
  LET s == job.s  r == answer[1]
  IN  /\ Returned({"sub"}) /\ job.i < 2^SizeBits => r = Between(s, job.i, job.j)
      /\ Returned({"byte"}) /\ job.i < 2^SizeBits =>
           LET b == Between(s, job.i, job.j) IN r = IF Len(b) > 2 THEN <<>> ELSE <<b>>
      /\ Returned({"rep"}) =>
           IF r # <<>> THEN Len(r[2]) = r[1] /\ r[1] <= MaxText
           ELSE job.i * (Len(s) + Len(job.sep)) > MaxText
      /\ Returned({"plain"}) /\ job.i < 2^SizeBits =>
           LET a    == Max({1, IF job.i < 0 THEN Absolute(job.i, Len(s)) ELSE job.i})
               hits == {k \in a .. Len(s) + 1 :
                          k + Len(job.what) <= Len(s) + 1 /\
                          SubSeq(s, k, k + Len(job.what) - 1) = job.what}
           IN  r = IF hits = {} THEN 0 ELSE Min(hits)

\* what the first k bytes at offset i would encode
Sequences_(s, i) ==
  {k \in 1 .. 6 : /\ i + k <= Len(s) /\ \A m \in 1 .. k - 1 : IsCont(At(s, i + m))
                  /\ Count(At(s, i)) = k - 1 /\ ~IsCont(At(s, i))}
CodeOf(s, i, k) ==
  FoldLeft(LAMBDA r, m : r * 64 + (At(s, i + m) % 64),
           IF k = 1 THEN At(s, i) ELSE At(s, i) % 2^(7 - k), [m \in 1 .. k - 1 |-> m])
ValidAt(s, i, strict) ==
  {k \in Sequences_(s, i) :
     LET c == CodeOf(s, i, k)
     IN  Utf8Esc(c) = SubSeq(s, i + 1, i + k)
         /\ (strict => c <= MaxUnicode /\ c \notin Surrogates)}

Starts(s) == {i \in 0 .. Len(s) : ~IsCont(At(s, i))}

\* A code decodes from its own bytes, and only the shortest form of a code (that
\* is a character, when strict) decodes; 'len', 'codepoint' and 'codes' agree on
\* what is valid; 'offset' counts the starts of characters.
Utf8Exact ==
  LET s == job.s  r == answer[1]
  IN  /\ Returned({"char"}) =>
           /\ Decode(r, 0, FALSE) = <<job.code, Len(r)>>
           /\ (Decode(r, 0, TRUE) # <<>>) = (job.code <= MaxUnicode /\ job.code \notin Surrogates)
      /\ Returned({"len"}) /\ ~r.error /\ r.bad = 0 /\ job.i = 1 /\ job.j = -1 =>
           LET cs == CodePoint(s, 1, -1, job.lax)[1]
           IN  /\ r.n = Len(cs) /\ FlattenSeq([k \in DOMAIN cs |-> Utf8Esc(cs[k])]) = s
      /\ Returned({"len"}) /\ ~r.error /\ r.bad # 0 => ValidAt(s, r.bad - 1, ~job.lax) = {}
      /\ Returned({"codes"}) /\ s # <<>> =>
           LET all == CodePoint(s, 1, -1, job.lax)
           IN  IF all = <<>> THEN Last(r) = <<"error">>
               ELSE [k \in DOMAIN r |-> r[k][2]] = all[1]
      /\ Returned({"offset"}) /\ r # <<>> /\ job.n > 0 =>
           LET from == UPosRelat(job.i, Len(s)) - 1
           IN  IF r = <<0>> THEN Cardinality({k \in Starts(s) : k >= from}) < job.n
               ELSE Cardinality({k \in Starts(s) : k \in from .. r[1] - 1}) = job.n
=============================================================================
