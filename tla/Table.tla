-------------------------------- MODULE Table --------------------------------
(***************************************************************************)
(* Lua tables (ltable.c): an array part and a hash part of nodes chained   *)
(* through relative offsets, filled from a free pointer that only moves    *)
(* down, rebuilt by a rehash when it is exhausted; keys that the collector *)
(* marks dead in place; traversal by 'next'; and the length, whose last    *)
(* answer is kept in 'alimit' at the price of the array's size.            *)
(*                                                                         *)
(* Positions count from 1.  A table that uses 'dummynode' has node = <<>>. *)
(* Metamethods, the 'flags' cache of absent ones and the barrier are left  *)
(* out; keys that are floats are normalised before (luaV_flttointeger).    *)
(* The allocator can always make a block smaller.                          *)
(***************************************************************************)
EXTENDS Integers, Sequences, FiniteSets, SequencesExt, FiniteSetsExt

CONSTANTS
  IntKeys,      \* integer keys
  StrKeys,      \* keys hashed by a power of two (strings)
  PtrKeys,      \* keys hashed by a modulo (objects)
  Hash,         \* hash of each string and object
  Values, Nil, NoTraversal,
  Weak,         \* the collector may remove entries
  IntBits,      \* width of a lua_Integer
  MaxASize,     \* largest array part
  InitSizes     \* <<array, hash>> sizes a constructor may ask for

Keys         == IntKeys \cup StrKeys \cup PtrKeys
Collectable  == StrKeys \cup PtrKeys
IsInteger(k) == k \notin Collectable
MaxInteger   == 2^(IntBits - 1) - 1
Unsigned(i)  == i % 2^IntBits

ASSUME KeysAssumption ==
  /\ IntBits \in Nat \ {0} /\ MaxASize \in 1 .. MaxInteger
  /\ IntKeys \subseteq (-MaxInteger - 1) .. MaxInteger
  /\ Hash \in [Collectable -> Nat] /\ Nil \notin Keys \cup Values
  /\ NoTraversal \notin Keys \cup {Nil} /\ Weak \in BOOLEAN
  /\ InitSizes \subseteq Nat \X Nat

VARIABLES
  t,        \* the table
  control,  \* the key a traversal has reached (Nil: it begins), or NoTraversal
  answer    \* the last operation: its name, key and value, and the keys whose
            \* entries a collection in it removed

vars == <<t, control, answer>>

Node  == [key : Keys \cup {Nil}, dead : BOOLEAN, val : Values \cup {Nil}, next : Int]
LuaTable == [array : Seq(Values \cup {Nil}), alimit : Nat, isreal : BOOLEAN,
             node : Seq(Node), lastfree : Nat]

-----------------------------------------------------------------------------
\* Sizes

IsPow2(n)   == n = 0 \/ \E i \in 0 .. IntBits : n = 2^i
CeilLog2(n) == CHOOSE i \in 0 .. n : 2^i >= n /\ \A j \in 0 .. i - 1 : 2^j < n

LimitEqualsASize(h) == h.isreal \/ IsPow2(h.alimit)
RealASize(h)        == IF LimitEqualsASize(h) THEN h.alimit ELSE 2^CeilLog2(h.alimit)
IsPow2RealASize(h)  == ~h.isreal \/ IsPow2(h.alimit)
SetLimitToSize(h)   == [h EXCEPT !.alimit = RealASize(h), !.isreal = TRUE]

-----------------------------------------------------------------------------
\* Lookup

MainPosition(n, k) ==
  LET odd == IF Len(n) = 1 THEN 1 ELSE Len(n) - 1   \* (size - 1) | 1
  IN  1 + CASE k \in StrKeys -> Hash[k] % Len(n)
            [] k \in PtrKeys -> Hash[k] % odd
            [] OTHER -> Unsigned(k) % odd

\* the positions a search for k looks at; cut off in case it does not end
Chain(n, k) ==
  LET f[c \in Seq(Nat)] == IF n[Last(c)].next = 0 \/ Len(c) > Len(n) THEN c
                           ELSE f[Append(c, Last(c) + n[Last(c)].next)]
  IN  IF n = <<>> THEN <<>> ELSE f[<<MainPosition(n, k)>>]

\* -- mutant: a dead key is never found
EqualKey_NoDead(k, nd, deadok) == nd.key = k /\ ~nd.dead

EqualKey(k, nd, deadok) == nd.key = k /\ (nd.dead => deadok)

\* the first node of the chain with this key; 0 if there is none
FindNode(n, k, deadok) ==
  LET f[i \in Nat] == IF EqualKey(k, n[i], deadok) THEN i
                      ELSE IF n[i].next = 0 THEN 0 ELSE f[i + n[i].next]
  IN  IF n = <<>> THEN 0 ELSE f[MainPosition(n, k)]

\* x & y
And(x, y) ==
  LET f[a \in Nat, b \in Nat] ==
        IF a = 0 THEN 0 ELSE (a % 2) * (b % 2) + 2 * f[a \div 2, b \div 2]
  IN  f[x, y]

\* luaH_getint's two tests for a key in the array part: below 'alimit', or
\* between it and the real size (the "Xmilia trick", without that size)
BelowLimit(h, k) == Unsigned(k - 1) < h.alimit
PastLimit(h, k)  ==
  ~h.isreal /\ And(Unsigned(k - 1), Unsigned(-h.alimit)) < h.alimit  \* ~(alimit - 1)

InArray(h, k) == IsInteger(k) /\ (BelowLimit(h, k) \/ PastLimit(h, k))

Get(h, k) == IF InArray(h, k) THEN h.array[k]
             ELSE LET i == FindNode(h.node, k, FALSE)
                  IN  IF i = 0 THEN Nil ELSE h.node[i].val
Absent(h, k) == ~InArray(h, k) /\ FindNode(h.node, k, FALSE) = 0

\* a search may move the limit
Searched(h, k) == IF IsInteger(k) /\ ~BelowLimit(h, k) /\ PastLimit(h, k)
                  THEN [h EXCEPT !.alimit = k] ELSE h

-----------------------------------------------------------------------------
\* Insertion

\* the free pointer goes down to a node never used; 0 if there is none
FreePos(h) == LET free == {i \in 1 .. h.lastfree - 1 : h.node[i].key = Nil}
              IN  IF free = {} THEN 0 ELSE Max(free)

\* luaH_newkey needs no rehash
HasRoom(h, k) ==
  h.node # <<>> /\ (h.node[MainPosition(h.node, k)].val = Nil \/ FreePos(h) # 0)

\* -- mutant: the offset of the next node is not corrected
InsertNode_OldOffset(h, k, v) ==
  LET n      == h.node
      mp     == MainPosition(n, k)
      f      == FreePos(h)
      othern == MainPosition(n, n[mp].key)  \* of the node that is in the way
      prev   == CHOOSE i \in Range(Chain(n, n[mp].key)) : i + n[i].next = mp
      Entry(nd) == [nd EXCEPT !.key = k, !.dead = FALSE, !.val = v]
  IN  IF n[mp].val = Nil
      THEN [h EXCEPT !.node[mp] = Entry(@)]
      ELSE [h EXCEPT !.lastfree = f, !.node =
             IF othern # mp
             THEN [n EXCEPT   \* move it
                    ![prev].next = f - prev,
                    ![f]  = [n[mp] EXCEPT !.next = IF @ = 0 THEN 0 ELSE @ + (mp - f)],
                    ![mp] = [Entry(@) EXCEPT !.next = 0]]
             ELSE [n EXCEPT   \* chain the new one behind it
                    ![f]  = [Entry(@) EXCEPT !.next = IF n[mp].next = 0 THEN @
                                                      ELSE n[mp].next],
                    ![mp].next = f - mp]]

InsertNode(h, k, v) ==
  LET n      == h.node
      mp     == MainPosition(n, k)
      f      == FreePos(h)
      othern == MainPosition(n, n[mp].key)  \* of the node that is in the way
      prev   == CHOOSE i \in Range(Chain(n, n[mp].key)) : i + n[i].next = mp
      Entry(nd) == [nd EXCEPT !.key = k, !.dead = FALSE, !.val = v]
  IN  IF n[mp].val = Nil
      THEN [h EXCEPT !.node[mp] = Entry(@)]
      ELSE [h EXCEPT !.lastfree = f, !.node =
             IF othern # mp
             THEN [n EXCEPT   \* move it
                    ![prev].next = f - prev,
                    ![f]  = [n[mp] EXCEPT !.next = IF @ = 0 THEN 0 ELSE @ + (mp - f)],
                    ![mp] = [Entry(@) EXCEPT !.next = 0]]
             ELSE [n EXCEPT   \* chain the new one behind it
                    ![f]  = [Entry(@) EXCEPT !.next = IF n[mp].next = 0 THEN @
                                                      ELSE (mp + n[mp].next) - f],
                    ![mp].next = f - mp]]

\* luaH_set where there is room
Store(h, k, v) ==
  IF InArray(h, k) THEN [Searched(h, k) EXCEPT !.array[k] = v]
  ELSE LET i == FindNode(h.node, k, FALSE)
       IN  IF i # 0 THEN [h EXCEPT !.node[i].val = v]
           ELSE IF v = Nil THEN h ELSE InsertNode(h, k, v)

-----------------------------------------------------------------------------
\* Rehash

FreeNode == [key |-> Nil, dead |-> FALSE, val |-> Nil, next |-> 0]
NodeVector(size) == IF size = 0 THEN <<>> ELSE [i \in 1 .. 2^CeilLog2(size) |-> FreeNode]

\* luaH_set of each entry that is not empty, in order
StoreAll(h, entries) ==
  LET f[i \in 0 .. Len(entries)] ==
        IF i = 0 THEN h
        ELSE IF entries[i].val = Nil THEN f[i - 1]
        ELSE Store(f[i - 1], entries[i].key, entries[i].val)
  IN  f[Len(entries)]

\* -- mutant: the nodes of the old hash part are not inserted again
Resize_ForgetsNodes(h, newasize, nhsize) ==
  LET oldasize == RealASize(h)
      nodes    == NodeVector(nhsize)
      kept     == [array |-> SubSeq(h.array, 1, IF newasize < oldasize THEN newasize ELSE oldasize),
                   alimit |-> newasize, isreal |-> TRUE,
                   node |-> nodes, lastfree |-> Len(nodes) + 1]
      vanish   == SubSeq([i \in 1 .. oldasize |-> [key |-> i, val |-> h.array[i]]],
                         newasize + 1, oldasize)
      shrunk   == StoreAll(kept, vanish)
  IN  [shrunk EXCEPT !.array = [i \in 1 .. newasize |-> IF i <= Len(@) THEN @[i] ELSE Nil]]

Resize(h, newasize, nhsize) ==
  LET oldasize == RealASize(h)
      nodes    == NodeVector(nhsize)
      kept     == [array |-> SubSeq(h.array, 1, IF newasize < oldasize THEN newasize ELSE oldasize),
                   alimit |-> newasize, isreal |-> TRUE,
                   node |-> nodes, lastfree |-> Len(nodes) + 1]
      vanish   == SubSeq([i \in 1 .. oldasize |-> [key |-> i, val |-> h.array[i]]],
                         newasize + 1, oldasize)
      shrunk   == StoreAll(kept, vanish)
      grown    == [shrunk EXCEPT !.array = [i \in 1 .. newasize |-> IF i <= Len(@) THEN @[i] ELSE Nil]]
  IN  StoreAll(grown, h.node)

\* keys with a value, the new one included
InUse(h, k) == {i \in 1 .. Len(h.array) : h.array[i] # Nil}
               \cup {h.node[i].key : i \in {j \in DOMAIN h.node : h.node[j].val # Nil}} \cup {k}
ArrayKeys(h, k, n) == InUse(h, k) \cap IntKeys \cap 1 .. n

\* the largest size of which more than half is used
ComputeSizes(h, k) ==
  LET sizes == {2^i : i \in 0 .. IntBits - 1} \cap 1 .. MaxASize
      used  == {n \in sizes : Cardinality(ArrayKeys(h, k, n)) > n \div 2}
  IN  IF used = {} THEN 0 ELSE Max(used)

\* the sizes are those of h; an emergency collection may have made g of it
\* before the parts are moved
Rehash(h, g, k) ==
  LET asize == ComputeSizes(h, k)
  IN  Resize(SetLimitToSize(g), asize,
             Cardinality(InUse(h, k)) - Cardinality(ArrayKeys(h, k, asize)))

-----------------------------------------------------------------------------
\* Length

BinSearch(present(_), i0, j0) ==
  LET f[i \in Nat, j \in Nat] ==
        IF j - i > 1 THEN LET m == (i + j) \div 2
                          IN  IF present(m) THEN f[m, j] ELSE f[i, m]
        ELSE i
  IN  f[i0, j0]

HashSearch(h, j0) ==
  LET present(i) == Get(h, i) # Nil
      f[j \in Nat] ==   \* j is present
        IF j <= MaxInteger \div 2
        THEN IF present(2 * j) THEN f[2 * j] ELSE BinSearch(present, j, 2 * j)
        ELSE IF present(MaxInteger) THEN MaxInteger
             ELSE BinSearch(present, j, MaxInteger)
  IN  f[IF j0 = 0 THEN 1 ELSE j0]

\* -- mutant: any length is left as a hint
GetN_AnyHint(h) ==
  LET limit    == h.alimit
      real     == RealASize(h)
      full(i)  == h.array[i] # Nil
      plain(b) == [n |-> b, t |-> h]
      hint(b)  == [n |-> b, t |-> [h EXCEPT !.alimit = b, !.isreal = FALSE]]
      search   == BinSearch(full, 0, limit)
      last     == IF LimitEqualsASize(h) THEN limit ELSE real
  IN  IF limit > 0 /\ ~full(limit) THEN
        IF limit >= 2 /\ full(limit - 1) THEN
          hint(limit - 1)
        ELSE IF IsPow2RealASize(h) /\ search > real \div 2 THEN hint(search) ELSE plain(search)
      ELSE IF ~LimitEqualsASize(h) /\ ~full(limit + 1) THEN plain(limit)
      ELSE IF ~LimitEqualsASize(h) /\ ~full(real) THEN hint(BinSearch(full, limit, real))
      ELSE IF h.node = <<>> \/ Get(h, last + 1) = Nil THEN plain(last)
      ELSE plain(HashSearch(h, last))

\* -- mutant: the hash part is searched without looking at its first key
GetN_NotNext(h) ==
  LET limit    == h.alimit
      real     == RealASize(h)
      full(i)  == h.array[i] # Nil
      plain(b) == [n |-> b, t |-> h]
      hint(b)  == [n |-> b, t |-> [h EXCEPT !.alimit = b, !.isreal = FALSE]]
      search   == BinSearch(full, 0, limit)
      last     == IF LimitEqualsASize(h) THEN limit ELSE real
  IN  IF limit > 0 /\ ~full(limit) THEN
        IF limit >= 2 /\ full(limit - 1) THEN
          IF IsPow2RealASize(h) /\ ~IsPow2(limit - 1) THEN hint(limit - 1) ELSE plain(limit - 1)
        ELSE IF IsPow2RealASize(h) /\ search > real \div 2 THEN hint(search) ELSE plain(search)
      ELSE IF ~LimitEqualsASize(h) /\ ~full(limit + 1) THEN plain(limit)
      ELSE IF ~LimitEqualsASize(h) /\ ~full(real) THEN hint(BinSearch(full, limit, real))
      ELSE IF h.node = <<>> THEN plain(last)
      ELSE plain(HashSearch(h, last))

\* #t, and the table with the hint it leaves for the next time
GetN(h) ==
  LET limit    == h.alimit
      real     == RealASize(h)
      full(i)  == h.array[i] # Nil
      plain(b) == [n |-> b, t |-> h]
      hint(b)  == [n |-> b, t |-> [h EXCEPT !.alimit = b, !.isreal = FALSE]]
      search   == BinSearch(full, 0, limit)
      last     == IF LimitEqualsASize(h) THEN limit ELSE real
  IN  IF limit > 0 /\ ~full(limit) THEN
        IF limit >= 2 /\ full(limit - 1) THEN
          IF IsPow2RealASize(h) /\ ~IsPow2(limit - 1) THEN hint(limit - 1) ELSE plain(limit - 1)
        ELSE IF IsPow2RealASize(h) /\ search > real \div 2 THEN hint(search) ELSE plain(search)
      ELSE IF ~LimitEqualsASize(h) /\ ~full(limit + 1) THEN plain(limit)
      ELSE IF ~LimitEqualsASize(h) /\ ~full(real) THEN hint(BinSearch(full, limit, real))
      ELSE IF h.node = <<>> \/ Get(h, last + 1) = Nil THEN plain(last)
      ELSE plain(HashSearch(h, last))

-----------------------------------------------------------------------------
\* Traversal: array part first, then the nodes

NotFound == -1
FindIndex(h, k) ==
  IF k = Nil THEN 0
  ELSE IF IsInteger(k) /\ k \in 1 .. RealASize(h) THEN k
  ELSE LET i == FindNode(h.node, k, TRUE)
       IN  IF i = 0 THEN NotFound ELSE RealASize(h) + i

KeyAt(h, i)   == IF i <= Len(h.array) THEN i ELSE h.node[i - Len(h.array)].key
ValueAt(h, i) == IF i <= Len(h.array) THEN h.array[i] ELSE h.node[i - Len(h.array)].val
After(h, k)   == {i \in FindIndex(h, k) + 1 .. RealASize(h) + Len(h.node) : ValueAt(h, i) # Nil}

-----------------------------------------------------------------------------
\* The program and the collector

Empty == [array |-> <<>>, alimit |-> 0, isreal |-> TRUE, node |-> <<>>, lastfree |-> 1]

Answers(op, k, v, lost) == answer' = [op |-> op, key |-> k, val |-> v, lost |-> lost]

Init == /\ \E s \in InitSizes : t = Resize(Empty, s[1], s[2])
        /\ control = NoTraversal
        /\ answer = [op |-> "new", key |-> Nil, val |-> Nil, lost |-> {}]

\* the collector removes some entries of a weak table, and marks dead the
\* keys of empty entries
Clear(h, S) ==
  [h EXCEPT
    !.array = [i \in DOMAIN @ |-> IF i \in S THEN Nil ELSE @[i]],
    !.node  = [i \in DOMAIN @ |->
                 LET v == IF @[i].key \in S THEN Nil ELSE @[i].val
                 IN  [@[i] EXCEPT !.val = v,
                                  !.dead = @ \/ (v = Nil /\ h.node[i].key \in Collectable)]]]
Losable == IF Weak THEN SUBSET {k \in Keys : Get(t, k) # Nil} ELSE {{}}
Collect == \E S \in Losable : /\ t' = Clear(t, S) /\ UNCHANGED control
                            /\ Answers("collect", Nil, Nil, S)

\* an assignment to a new key makes a traversal undefined
Continues(k, v) == control' = IF Get(t, k) = Nil /\ v # Nil THEN NoTraversal ELSE control

NeedsRehash(k, v) == v # Nil /\ Absent(t, k) /\ ~HasRoom(t, k)

Grow(k, v) ==
  /\ Continues(k, v)
  /\ \/ t' = Store(Rehash(t, t, k), k, v) /\ Answers("set", k, v, {})
     \/ \E S \in Losable : /\ t' = Store(Rehash(t, Clear(t, S), k), k, v)
                           /\ Answers("set", k, v, S)

\* the memory for the new parts is not there, not even after a collection
GrowFails(k, v) ==
  \E S \in Losable : /\ t' = [SetLimitToSize(Clear(t, S)) EXCEPT !.lastfree = 1]
                     /\ UNCHANGED control /\ Answers("fail", k, v, S)

Set(k, v) == IF NeedsRehash(k, v) THEN Grow(k, v) \/ GrowFails(k, v)
             ELSE t' = Store(t, k, v) /\ Continues(k, v) /\ Answers("set", k, v, {})

Read(k) == t' = Searched(t, k) /\ UNCHANGED control /\ Answers("get", k, Get(t, k), {})

Length  == t' = GetN(t).t /\ UNCHANGED control /\ Answers("length", Nil, Nil, {})

\* next(t, nil), next(t, control)
Begin   == /\ control = NoTraversal /\ control' = Nil /\ UNCHANGED t
           /\ Answers("begin", Nil, Nil, {})

NextKey ==
  LET found == FindIndex(t, control) # NotFound
      i     == Min(After(t, control))
  IN  /\ control # NoTraversal /\ UNCHANGED t
      /\ IF found /\ After(t, control) # {}
           THEN control' = KeyAt(t, i) /\ Answers("next", KeyAt(t, i), ValueAt(t, i), {})
           ELSE control' = NoTraversal /\ Answers(IF found THEN "end" ELSE "invalid", Nil, Nil, {})

Next == \/ Collect \/ Length \/ Begin \/ NextKey
        \/ \E k \in Keys, v \in Values \cup {Nil} : Set(k, v)
        \/ \E k \in Keys : Read(k)

Spec == Init /\ [][Next]_vars

-----------------------------------------------------------------------------
\* Properties

\* Only collectable keys die, and only in empty entries; the free pointer
\* stays inside the nodes, whose number is a power of 2 (lmod relies on it).
TypeOK ==
  /\ t \in LuaTable /\ control \in Keys \cup {Nil, NoTraversal}
  /\ answer.key \in Keys \cup {Nil} /\ answer.val \in Values \cup {Nil} /\ answer.lost \subseteq Keys
  /\ Len(t.array) <= MaxASize /\ t.lastfree \in 1 .. Len(t.node) + 1
  /\ t.node = <<>> \/ IsPow2(Len(t.node))
  /\ \A i \in DOMAIN t.node : t.node[i].dead => t.node[i].key \in Collectable /\ t.node[i].val = Nil

\* The size of the array part can be told from the limit, whatever hints
\* lookups and lengths have left in it (luaH_realasize): it is given back to
\* the allocator, and bounds every traversal.
RealSizeKnown == RealASize(t) = Len(t.array)

\* Every search ends: the chains, linked by relative offsets that insertion
\* corrects when it moves a node, stay inside the nodes and have no cycle.
SearchesEnd ==
  /\ \A i \in DOMAIN t.node : i + t.node[i].next \in DOMAIN t.node
  /\ \A k \in Keys : Len(Chain(t.node, k)) <= Len(t.node)

\* #t is a border at any moment: present, or zero, and followed by an absent
\* key, or the largest integer (manual 3.4.7).
LengthIsBorder ==
  LET n          == GetN(t).n
      present(i) == i \in IntKeys /\ Get(t, i) # Nil
  IN  /\ n \in 0 .. MaxInteger
      /\ n = 0 \/ present(n)
      /\ n = MaxInteger \/ ~present(n + 1)

\* 'next' finds the key it is given, even when its entry has been removed and
\* its key marked dead since ("invalid key to 'next'").
KeyIsFound == control \in Keys => FindIndex(t, control) # NotFound

\* A table is a map, and a traversal visits every key once: each operation does
\* to the entries what its answer says and nothing else, in spite of the moves
\* and the reuse of dead nodes by insertion, of a rehash, with a collection or
\* an allocation failure in its middle, of lookups through the limit hints, and
\* of entries that change under a traversal.
AbstractMap == INSTANCE Map WITH
  content <- [k \in Keys |-> Get(t, k)], weak <- Weak,
  todo    <- IF control = NoTraversal THEN NoTraversal
             ELSE {KeyAt(t, i) : i \in After(t, control)}
ImplementsMap == AbstractMap!Spec
=============================================================================
