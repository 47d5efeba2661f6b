--------------------------------- MODULE Chunks ---------------------------------
(***************************************************************************)
(* Precompiled chunks (ldump.c, lundump.c), the buffered stream they are   *)
(* read through (lzio.c), and what is put before it: lua_load's choice of  *)
(* text or binary, and files with a BOM or a first-line comment (lauxlib.c). *)
(*                                                                         *)
(* A byte holds ChunkBits bits of a size and a mark.  A prototype is a     *)
(* record; an instruction or a number is one byte, a string a sequence of  *)
(* bytes or Null.                                                          *)
(***************************************************************************)
EXTENDS Integers, Sequences, SequencesExt, FiniteSets, FiniteSetsExt, Job

CONSTANTS
  ChunkBits,    \* 7
  IntLimit,     \* INT_MAX
  SizeLimit     \* MAX_SIZET

ASSUME ChunksAssumption ==
  ChunkBits \in Nat /\ ChunkBits >= 2 /\ {IntLimit, SizeLimit} \subseteq Nat

Group      == 2^ChunkBits
ChunkBytes == 0 .. 2 * Group - 1
Null       == <<-1>>

Signature  == 1                               \* LUA_SIGNATURE[0], ESC
NewLine    == 2
Hash       == 3
Bom        == <<4, 5, 6>>
ChunkHeader == <<Signature, 2, 5, 0, 3>>      \* signature, version, format, data, sizes

-----------------------------------------------------------------------------
\* ldump.c: the blocks given to the writer

Block(b) == IF b = <<>> THEN <<>> ELSE <<b>>

RECURSIVE Groups(_)
Groups(x) == IF x < Group THEN <<x>> ELSE Append(Groups(x \div Group), x % Group)
DumpSize(x) == LET g == Groups(x) IN Block([g EXCEPT ![Len(g)] = @ + Group])

DumpString(s) == IF s = Null THEN DumpSize(0) ELSE DumpSize(Len(s) + 1) \o Block(s)

DumpAll(seq, Dump(_)) == FlattenSeq([i \in DOMAIN seq |-> Dump(seq[i])])
DumpVector(seq, Dump(_)) == DumpSize(Len(seq)) \o DumpAll(seq, Dump)

Tags == <<"nil", "false", "true", "flt", "int", "str">>
DumpConstant(k) ==
  Block(<<CHOOSE t \in DOMAIN Tags : Tags[t] = k.t>>) \o
  CASE k.t \in {"flt", "int"} -> Block(<<k.v>>)
    [] k.t = "str"            -> DumpString(k.v)
    [] OTHER                  -> <<>>

DumpDebug(f, strip) ==
  LET Info(seq) == IF strip THEN <<>> ELSE seq
      Line(a)   == DumpSize(a[1]) \o DumpSize(a[2])
      Var(v)    == DumpString(v[1]) \o DumpSize(v[2]) \o DumpSize(v[3])
      Name(u)   == DumpString(u.name)
  IN  DumpSize(Len(Info(f.lineinfo))) \o Block(Info(f.lineinfo)) \o DumpVector(Info(f.abslines), Line)
      \o DumpVector(Info(f.locvars), Var) \o DumpVector(Info(f.ups), Name)

RECURSIVE DumpFunction(_, _, _)
DumpFunction(f, psource, strip) ==
  LET Up(u)   == DumpAll(u.desc, LAMBDA b : Block(<<b>>))
      Inner(p) == DumpFunction(p, f.source, strip)
  IN  DumpString(IF strip \/ f.source = psource THEN Null ELSE f.source)
      \o DumpSize(f.lines[1]) \o DumpSize(f.lines[2])
      \o DumpAll(f.bytes, LAMBDA b : Block(<<b>>))
      \o DumpSize(Len(f.code)) \o Block(f.code)
      \o DumpVector(f.k, DumpConstant) \o DumpVector(f.ups, Up) \o DumpVector(f.protos, Inner)
      \o DumpDebug(f, strip)

\* luaU_dump with a writer that fails at its k-th block (0: never): nothing is
\* written after that
Dump(f, strip, k) ==
  LET blocks == <<ChunkHeader, <<Len(f.ups)>>>> \o DumpFunction(f, Null, strip)
  IN  IF k \in DOMAIN blocks THEN [ok |-> FALSE, out |-> FlattenSeq(SubSeq(blocks, 1, k - 1))]
      ELSE [ok |-> TRUE, out |-> FlattenSeq(blocks)]

-----------------------------------------------------------------------------
\* lzio.c: 'now' is what is left of the block, 'later' what the reader will give

Stream(blocks) == [now |-> <<>>, later |-> blocks]
Done(z, v) == [ok |-> TRUE, z |-> z, v |-> v]
Fail       == [ok |-> FALSE]
\* what is read decides what to read next; an error stops the load
Chain(r, Next(_, _)) == IF ~r.ok THEN Fail ELSE Next(r.z, r.v)

\* the reader is called: an empty block is the end
Fill(z) ==
  IF z.later = <<>> THEN Fail
  ELSE IF Head(z.later) = <<>> THEN Fail
  ELSE Done([now |-> Head(z.later), later |-> Tail(z.later)], 0)

\* luaZ_read: n bytes, of as many blocks as it takes
RECURSIVE ZRead(_, _)
ZRead(z, n) ==
  LET m == Min({n, Len(z.now)})
      r == ZRead([z EXCEPT !.now = SubSeq(@, m + 1, Len(@))], n - m)
  IN  IF n = 0 THEN Done(z, <<>>)
      ELSE IF z.now = <<>>
      THEN LET f == Fill(z) IN IF ~f.ok THEN Fail ELSE ZRead(f.z, n)
      ELSE IF ~r.ok THEN Fail ELSE Done(r.z, SubSeq(z.now, 1, m) \o r.v)

\* zgetc: luaZ_fill takes the first byte of a new block
ZGetC(z) ==
  Chain(IF z.now = <<>> THEN Fill(z) ELSE Done(z, 0),
        LAMBDA q, v : Done([q EXCEPT !.now = Tail(@)], q.now[1]))

-----------------------------------------------------------------------------
\* lundump.c: each reader takes a stream and returns a value and the rest

\* one more value after those read so far
Field(r, Load(_)) == Chain(r, LAMBDA q, vs : Chain(Load(q), LAMBDA p, v : Done(p, Append(vs, v))))
Begin(z) == Done(z, <<>>)

LoadByte(z) == ZGetC(z)

RECURSIVE LoadUnsigned(_, _, _)
LoadUnsigned(z, x, limit) ==
  Chain(LoadByte(z), LAMBDA q, b :
    LET y == x * Group + (b % Group)
    IN  IF x >= limit THEN Fail ELSE IF b < Group THEN LoadUnsigned(q, y, limit) ELSE Done(q, y))
LoadInt(z)  == LoadUnsigned(z, 0, IntLimit \div Group)
LoadSize(z) == LoadUnsigned(z, 0, SizeLimit \div Group)

LoadStringN(z) == Chain(LoadSize(z), LAMBDA q, n : IF n = 0 THEN Done(q, Null) ELSE ZRead(q, n - 1))
LoadString(z)  == Chain(LoadStringN(z), LAMBDA q, v : IF v = Null THEN Fail ELSE Done(q, v))

Times(z, n, Load(_)) == FoldLeft(LAMBDA r, i : Field(r, Load), Begin(z), [i \in 1 .. n |-> i])
LoadVector(z, Load(_)) == Chain(LoadInt(z), LAMBDA q, n : Times(q, n, Load))
LoadBytes(z) == Chain(LoadInt(z), LAMBDA q, n : ZRead(q, n))     \* one block

AfterTag(z, t) ==
  CASE t \notin DOMAIN Tags -> Fail                              \* (an assertion)
    [] t \in DOMAIN Tags ->
         Chain(CASE Tags[t] \in {"flt", "int"} -> LoadByte(z)
                 [] Tags[t] = "str"            -> LoadString(z)
                 [] OTHER                      -> Done(z, 0),
               LAMBDA q, v : Done(q, [t |-> Tags[t], v |-> v]))
LoadConstant(z) == Chain(LoadByte(z), AfterTag)

LoadUpvalue(z) == Times(z, 3, LoadByte)
LoadLine(z)    == Times(z, 2, LoadInt)
LoadVar(z)     == Field(Field(Field(Begin(z), LoadStringN), LoadInt), LoadInt)

\* if there are names, there is one for each upvalue
LoadNames(z, n) ==
  Chain(LoadInt(z), LAMBDA q, some :
    IF some = 0 THEN Done(q, [i \in 1 .. n |-> Null]) ELSE Times(q, n, LoadStringN))

Source(v, psource) == IF v[1] = Null THEN psource ELSE v[1]
Built(z, v, psource) ==
  Done(z, [source |-> Source(v, psource), lines |-> v[2], bytes |-> v[3], code |-> v[4], k |-> v[5],
           ups |-> [i \in DOMAIN v[6] |-> [desc |-> v[6][i], name |-> v[11][i]]],
           protos |-> v[7], lineinfo |-> v[8], abslines |-> v[9], locvars |-> v[10]])

\* two lines, three bytes, the code, the constants, the upvalues; the functions
\* inside; then the debug information
RECURSIVE LoadFunction(_, _)
LoadProtos(r, psource) ==
  Field(r, LAMBDA q : LoadVector(q, LAMBDA t : LoadFunction(t, Source(r.v, psource))))
LoadFunction(z, psource) ==
  LET h == Field(Field(Field(Begin(z), LoadStringN), LoadLine), LoadUpvalue)
      k == Field(Field(h, LoadBytes), LAMBDA q : LoadVector(q, LoadConstant))
      p == LoadProtos(Field(k, LAMBDA q : LoadVector(q, LoadUpvalue)), psource)
      d == Field(Field(Field(p, LoadBytes), LAMBDA q : LoadVector(q, LoadLine)),
                 LAMBDA q : LoadVector(q, LoadVar))
      n == Chain(d, LAMBDA q, v : Field(Done(q, v), LAMBDA t : LoadNames(t, Len(v[6]))))
  IN  Chain(n, LAMBDA q, v : Built(q, v, psource))

\* the first byte is read and checked already
Undump(z) ==
  Chain(ZRead(z, Len(ChunkHeader) - 1), LAMBDA q, h :
    IF h # Tail(ChunkHeader) THEN Fail ELSE Chain(LoadByte(q), LAMBDA p, n : LoadFunction(p, Null)))

\* f_parser: <<"binary", the function>>, <<"text", what the lexer reads>>, <<>> for an
\* error; an empty chunk is text
RECURSIVE Rest(_)
Rest(z) == LET c == ZGetC(z) IN IF ~c.ok THEN <<>> ELSE <<c.v>> \o Rest(c.z)
Loaded(f) == IF f.ok THEN <<"binary", f.v>> ELSE <<>>
Parser(blocks, modes) ==
  LET c == ZGetC(Stream(blocks))
      binary == c.ok /\ (c.ok => c.v = Signature)
  IN  IF (IF binary THEN "b" ELSE "t") \notin modes THEN <<>>
      ELSE IF binary THEN Loaded(Undump(c.z)) ELSE <<"text", Rest(Stream(blocks))>>

-----------------------------------------------------------------------------
\* luaL_loadfilex

Eof == -1
GetC(s) == IF s = <<>> THEN <<Eof, s>> ELSE <<s[1], Tail(s)>>

\* <<character, rest>>: an incomplete BOM leaves its first character
SkipBom(s) ==
  LET matched == {n \in 0 .. Min({3, Len(s)}) : SubSeq(s, 1, n) = SubSeq(Bom, 1, n)}
      n == Max(matched)
  IN  CASE n = 0 -> GetC(s)
        [] n = 3 -> GetC(SubSeq(s, 4, Len(s)))
        [] OTHER -> <<Bom[1], SubSeq(s, n + 2, Len(s))>>

RECURSIVE SkipLine(_)
SkipLine(s) == LET c == GetC(s) IN IF c[1] \in {Eof, NewLine} THEN c[2] ELSE SkipLine(c[2])

SkipComment(s) ==
  LET c == SkipBom(s)
  IN  IF c[1] = Hash THEN [line |-> TRUE, c |-> GetC(SkipLine(c[2]))] ELSE [line |-> FALSE, c |-> c]

\* what is read before comes first, then the file in blocks of 'bufsiz'; a binary
\* file is opened again, and loses the newline
FileBlocks(s, bufsiz) ==
  LET r == SkipComment(s)
      first == IF r.c[1] # Eof THEN <<r.c[1]>> ELSE <<>>
      pre == IF r.line /\ r.c[1] # Signature THEN <<NewLine>> \o first ELSE first
      n == (Len(r.c[2]) + bufsiz - 1) \div bufsiz
  IN  Block(pre) \o [i \in 1 .. n |-> SubSeq(r.c[2], (i - 1) * bufsiz + 1, Min({i * bufsiz, Len(r.c[2])}))]

LoadFile(s, modes, bufsiz) == Parser(FileBlocks(s, bufsiz), modes)

Cut(s, n) == [i \in 1 .. (Len(s) + n - 1) \div n |-> SubSeq(s, (i - 1) * n + 1, Min({i * n, Len(s)}))]

ChunksNext ==
  \/ Return("dump", Dump(job.f, job.strip, job.fail))
  \/ Return("load", Parser(job.blocks, job.modes))
  \/ Return("loadfile", LoadFile(job.file, job.modes, job.bufsiz))

-----------------------------------------------------------------------------
\* What must hold

RECURSIVE Stripped(_)
Stripped(f) ==
  [f EXCEPT !.source = Null, !.lineinfo = <<>>, !.abslines = <<>>, !.locvars = <<>>,
            !.ups = [i \in DOMAIN @ |-> [@[i] EXCEPT !.name = Null]],
            !.protos = [i \in DOMAIN @ |-> Stripped(@[i])]]

\* the file without its BOM and first-line comment, whose newline stays
Content(s) ==
  LET b  == IF Len(s) >= 3 /\ SubSeq(s, 1, 3) = Bom THEN SubSeq(s, 4, Len(s)) ELSE s
      nl == {i \in DOMAIN b : b[i] = NewLine}
      line == IF b = <<>> THEN FALSE ELSE b[1] = Hash
  IN  [line |-> line, text |-> IF ~line THEN b ELSE IF nl = {} THEN <<NewLine>> ELSE SubSeq(b, Min(nl), Len(b))]

\* A dumped function loads as it was, without its debug information if that was
\* stripped, however the reader cuts it into blocks; what a writer that failed
\* has got, as every proper prefix, does not load; a file loads as its content,
\* binary or not, and only if the mode allows that.
ChunksExact ==
  LET r == answer[1]
      Both == {"b", "t"}
  IN  /\ Returned({"dump"}) =>
           IF r.ok
           THEN /\ Parser(Cut(r.out, job.cut), Both) =
                     <<"binary", IF job.strip THEN Stripped(job.f) ELSE job.f>>
                /\ Parser(Cut(r.out, job.cut), {"t"}) = <<>>
                /\ \A n \in 1 .. Len(r.out) - 1 :
                     Parser(Cut(SubSeq(r.out, 1, n), job.cut), Both) = <<>>
                /\ LoadFile(<<Hash, 0, NewLine>> \o r.out, Both, job.cut) = Parser(<<r.out>>, Both)
           ELSE r.out # <<>> => Parser(<<r.out>>, Both) = <<>>
      /\ Returned({"load"}) /\ r # <<>> /\ job.modes = {"t"} => r[1] = "text"
      /\ Returned({"loadfile"}) =>
           LET c    == Content(job.file)
               code == IF c.line THEN Tail(c.text) ELSE c.text
               StartsWith(b) == IF code = <<>> THEN FALSE ELSE code[1] = b
           IN  IF StartsWith(Bom[1]) /\ ~c.line          \* half a BOM
               THEN r # <<>> => r[1] = "text" /\ r[2][1] = Bom[1]
               ELSE r = IF "t" \notin job.modes \/ StartsWith(Signature) THEN <<>>
                        ELSE <<"text", c.text>>
=============================================================================
