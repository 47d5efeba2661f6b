------------------------------ MODULE Strings ------------------------------
(***************************************************************************)
(* The string table (lstring.c) and the cache of luaS_new, while the table *)
(* is resized, allocations fail and the collector, in incremental mode,    *)
(* frees strings.  A short string is named by its text; what refers to     *)
(* strings, apart from the program's variables, is left to the collector:  *)
(* at the end of a cycle any string not held may be dead.                  *)
(***************************************************************************)
EXTENDS Naturals, Sequences, FiniteSets, SequencesExt, FiniteSetsExt

CONSTANTS
  Texts,         \* of short strings
  MemErrMsg,     \* one of them, of the string g->memerrmsg
  Hash(_),       \* luaS_hash
  MinStrTabSize,
  MaxStrTabSize, \* MAXSTRTB
  CacheM,        \* STRCACHE_M; the cache has one row here
  MaxHeld        \* strings the program's variables hold (a bound)

ASSUME StringsAssumption ==
  /\ IsFiniteSet(Texts) /\ MemErrMsg \in Texts /\ \A t \in Texts : Hash(t) \in Nat
  /\ {MinStrTabSize, MaxStrTabSize, CacheM, MaxHeld} \subseteq Nat \ {0}

VARIABLE str
\* str: the table (hash: its chains, size, nuse), the row of the cache, all the
\* strings there are, the dead ones, those held, and sweeping: an atomic step
\* has been and the sweep has not ended

-----------------------------------------------------------------------------
\* move the strings of the first osize chains to where they belong in nsize
TableRehash(vect, osize, nsize) ==
  LET Chain(v, t)   == [v EXCEPT ![Hash(t) % nsize] = <<t>> \o @]
      Rehash(v, i)  == FoldLeft(Chain, [v EXCEPT ![i] = <<>>], v[i])
      cleared       == [i \in DOMAIN vect |-> IF i \in osize .. nsize - 1 THEN <<>> ELSE vect[i]]
  IN  FoldLeft(Rehash, cleared, [i \in 1 .. osize |-> i - 1])
Block(vect, size) == [i \in 0 .. size - 1 |-> IF i \in DOMAIN vect THEN vect[i] ELSE <<>>]

LuaS_Remove(s, t) ==
  [s EXCEPT !.hash[Hash(t) % s.size] = SelectSeq(@, LAMBDA x : x # t), !.nuse = @ - 1,
            !.all = @ \ {t}, !.dead = @ \ {t}]

ClearCache(s, white) == [s EXCEPT !.cache = [j \in DOMAIN @ |-> IF @[j] \in white THEN MemErrMsg ELSE @[j]]]

\* An allocation that fails at first ("retry", "fail") is tried again after an
\* emergency collection, which finds the strings D dead and leaves the size of the
\* table alone (checkSizes, gcemergency).
TryAgain(s, mem, D) ==
  IF mem = "ok" THEN s
  ELSE [FoldSet(LAMBDA t, k : LuaS_Remove(k, t), ClearCache(s, D), s.dead \cup (D \cap s.all)) EXCEPT !.sweeping = FALSE]

\* luaS_resize
Grow(s, nsize, mem, D) ==
  LET k == TryAgain(s, mem, D)
  IN  IF mem # "fail" THEN [k EXCEPT !.hash = TableRehash(Block(@, nsize), k.size, nsize), !.size = nsize] ELSE k
\* a mutant: what cannot shrink stays depopulated
Shrink_Depopulated(s, nsize, ok) ==
  [s EXCEPT !.hash = IF ok THEN Block(TableRehash(@, s.size, nsize), nsize) ELSE TableRehash(@, s.size, nsize),
            !.size = IF ok THEN nsize ELSE @]
Shrink(s, nsize, ok) ==
  LET vect == TableRehash(s.hash, s.size, nsize)
  IN  IF ok THEN [s EXCEPT !.hash = Block(vect, nsize), !.size = nsize]
      ELSE [s EXCEPT !.hash = TableRehash(vect, nsize, s.size)]

\* internshrstr: the string table afterwards, and whether there is a string
Intern(s, t, m1, m2, D) ==
  LET found == \E i \in DOMAIN s.hash[Hash(t) % s.size] : s.hash[Hash(t) % s.size][i] = t
      g     == IF s.nuse >= s.size /\ s.size <= MaxStrTabSize \div 2 THEN Grow(s, 2 * s.size, m1, D) ELSE s
      list  == Hash(t) % g.size
      c     == TryAgain(g, m2, D)
  IN  CASE found -> <<[s EXCEPT !.dead = @ \ {t}], TRUE>>
        [] ~found /\ m2 = "fail" -> <<c, FALSE>>
        [] ~found /\ m2 # "fail" -> <<[c EXCEPT !.hash[list] = <<t>> \o @, !.nuse = @ + 1, !.all = @ \cup {t}], TRUE>>

\* luaS_new: when there is no memory for the string, the row has been shifted
NewString(s, t, m1, m2, D) ==
  LET r == Intern([s EXCEPT !.cache = <<@[1]>> \o Front(@)], t, m1, m2, D)
  IN  IF t \in ToSet(s.cache) THEN <<s, TRUE>>
      ELSE IF r[2] THEN <<[r[1] EXCEPT !.cache[1] = t], TRUE>> ELSE r

-----------------------------------------------------------------------------
Loose == str.all \ (str.held \cup {MemErrMsg})     \* which may be garbage
HeldRoom == Cardinality(str.held) < MaxHeld
Take(r, t) == str' = IF r[2] THEN [r[1] EXCEPT !.held = @ \cup {t}] ELSE r[1]

\* luaS_newlstr and luaS_new
NewLStr(t, m1, m2, D) == HeldRoom /\ Take(Intern(str, t, m1, m2, D), t)
NewStr(t, m1, m2, D)     == HeldRoom /\ Take(NewString(str, t, m1, m2, D), t)
DropString(t)      == t \in str.held /\ str' = [str EXCEPT !.held = @ \ {t}]

\* atomic: the strings D are not marked
StringsDie(D) ==
  ~str.sweeping /\ str' = [ClearCache(str, D) EXCEPT !.sweeping = TRUE, !.dead = D]
\* sweeplist, freeobj
SweepString(t) == str.sweeping /\ str' = LuaS_Remove(str, t)
\* GCSswpend: checkSizes, in a step that allows no emergency collection
SweepEnd(ok) ==
  /\ str.sweeping /\ str.dead = {}
  /\ LET k == [str EXCEPT !.sweeping = FALSE]
     IN  str' = IF k.nuse < k.size \div 4 THEN Shrink(k, k.size \div 2, ok) ELSE k

StringsInit ==
  str = [hash |-> [i \in 0 .. MinStrTabSize - 1 |-> IF i = Hash(MemErrMsg) % MinStrTabSize THEN <<MemErrMsg>> ELSE <<>>],
         size |-> MinStrTabSize, nuse |-> 1, cache |-> [j \in 1 .. CacheM |-> MemErrMsg],
         all |-> {MemErrMsg}, dead |-> {}, held |-> {}, sweeping |-> FALSE]

StringsNext ==
  \/ \E t \in Texts, m1, m2 \in {"ok", "retry", "fail"} : \E D \in SUBSET (IF {m1, m2} = {"ok"} THEN {} ELSE Loose) :
       NewLStr(t, m1, m2, D) \/ NewStr(t, m1, m2, D)
  \/ \E t \in str.held : DropString(t)
  \/ \E D \in SUBSET Loose : StringsDie(D)
  \/ \E t \in str.dead : SweepString(t)
  \/ \E ok \in BOOLEAN : SweepEnd(ok)

\* Wherever an allocation fails and whatever is collected meanwhile: each string
\* is once in the chain where it is looked for, so that no text has two strings,
\* the count is true, and what the program and the cache hold is not about to be freed.
Interned ==
  /\ DOMAIN str.hash = 0 .. str.size - 1
  /\ \A i \in DOMAIN str.hash : IsInjective(str.hash[i]) /\ \A t \in ToSet(str.hash[i]) : Hash(t) % str.size = i
  /\ UNION {ToSet(str.hash[i]) : i \in DOMAIN str.hash} = str.all
  /\ str.nuse = Cardinality(str.all)
  /\ str.held \cup ToSet(str.cache) \subseteq str.all \ str.dead
=============================================================================
