---------------------------- MODULE LuaGC_proofs ----------------------------
(***************************************************************************)
(* Theorems about the incremental collector, for every heap, every program *)
(* and every value of the constants.                                       *)
(***************************************************************************)
EXTENDS LuaGC, SequenceTheorems, FiniteSetTheorems, WellFoundedInduction, TLAPS

-----------------------------------------------------------------------------
(* Sequences and positions *)

LEMMA SmallestElement ==
  ASSUME NEW T \in SUBSET Nat, T # {}
  PROVE  \E x \in T : \A y \in T : x <= y
<1> DEFINE R == {ss \in Nat \X Nat : ss[1] < ss[2]}
<1>1. IsWellFoundedOn(R, Nat)
  BY NatLessThanWellFounded, Zenon DEF OpToRel
<1>2. \E x \in T : \A y \in T : <<y, x>> \notin R
  <2> HIDE DEF R
  <2> QED BY <1>1, WFMin
<1>3. \A x, y \in T : <<y, x>> \notin R => x <= y
  OBVIOUS
<1> QED BY <1>2, <1>3 DEF R

LEMMA ElemsMember ==
  ASSUME NEW s \in Seq(Obj)
  PROVE  \A x : x \in Elems(s) <=> \E i \in 1 .. Len(s) : s[i] = x
  BY DEF Elems

LEMMA IndexProperties ==
  ASSUME NEW s \in Seq(Obj), NEW o
  PROVE  /\ o \in Elems(s) => Index(s, o) \in 1 .. Len(s) /\ s[Index(s, o)] = o
         /\ o \notin Elems(s) => Index(s, o) = Len(s) + 1
  BY DEF Index, Elems

LEMMA UnlinkedProperties ==
  ASSUME NEW s \in Seq(Obj), NEW i \in 1 .. Len(s)
  PROVE  /\ Unlinked(s, i) \in Seq(Obj)
         /\ Len(Unlinked(s, i)) = Len(s) - 1
         /\ \A j \in 1 .. Len(s) - 1 :
              Unlinked(s, i)[j] = IF j < i THEN s[j] ELSE s[j + 1]
<1> DEFINE front == SubSeq(s, 1, i - 1)
           back  == SubSeq(s, i + 1, Len(s))
<1>1. /\ front \in Seq(Obj) /\ Len(front) = i - 1
      /\ \A j \in 1 .. i - 1 : front[j] = s[j]
  BY SubSeqProperties
<1>2. /\ back \in Seq(Obj) /\ Len(back) = Len(s) - i
      /\ \A j \in 1 .. Len(s) - i : back[j] = s[i + j]
  BY SubSeqProperties
<1>3. Unlinked(s, i) = front \o back
  BY DEF Unlinked
<1> HIDE DEF front, back
<1>4. front \o back \in Seq(Obj) /\ Len(front \o back) = Len(s) - 1
  BY <1>1, <1>2
<1>5. ASSUME NEW j \in 1 .. Len(s) - 1
      PROVE  (front \o back)[j] = IF j < i THEN s[j] ELSE s[j + 1]
  <2>1. (front \o back)[j] = IF j <= Len(front) THEN front[j] ELSE back[j - Len(front)]
    BY <1>1, <1>2, ConcatProperties
  <2> QED BY <1>1, <1>2, <2>1
<1> QED BY <1>3, <1>4, <1>5

LEMMA UnlinkedElems ==
  ASSUME NEW s \in Seq(Obj), NEW i \in 1 .. Len(s)
  PROVE  /\ Elems(Unlinked(s, i)) \subseteq Elems(s)
         /\ Elems(s) \ {s[i]} \subseteq Elems(Unlinked(s, i))
<1>1. \A j \in 1 .. Len(s) - 1 : Unlinked(s, i)[j] = IF j < i THEN s[j] ELSE s[j + 1]
  BY UnlinkedProperties
<1>2. DOMAIN Unlinked(s, i) = 1 .. Len(s) - 1
  BY UnlinkedProperties
<1>3. ASSUME NEW k \in 1 .. Len(s), k # i
      PROVE  \E j \in 1 .. Len(s) - 1 : Unlinked(s, i)[j] = s[k]
  <2>1. CASE k < i  BY <2>1, <1>1
  <2>2. CASE k > i
    <3>1. k - 1 \in 1 .. Len(s) - 1 /\ ~(k - 1 < i)
      BY <2>2
    <3>2. Unlinked(s, i)[k - 1] = s[(k - 1) + 1]
      BY <3>1, <1>1
    <3> QED BY <3>1, <3>2
  <2> QED BY <1>3, <2>1, <2>2
<1>4. \A j \in 1 .. Len(s) - 1 : \E k \in 1 .. Len(s) : Unlinked(s, i)[j] = s[k]
  <2> SUFFICES ASSUME NEW j \in 1 .. Len(s) - 1
               PROVE  \E k \in 1 .. Len(s) : Unlinked(s, i)[j] = s[k]
    OBVIOUS
  <2>1. CASE j < i   BY <2>1, <1>1
  <2>2. CASE ~(j < i)
    <3>1. j + 1 \in 1 .. Len(s)  OBVIOUS
    <3> QED BY <2>2, <3>1, <1>1
  <2> QED BY <2>1, <2>2
<1>5. Unlinked(s, i) \in Seq(Obj) /\ Len(Unlinked(s, i)) = Len(s) - 1
  BY UnlinkedProperties
<1>6. \A x : x \in Elems(Unlinked(s, i)) <=> \E j \in 1 .. Len(s) - 1 : Unlinked(s, i)[j] = x
  BY <1>5, ElemsMember
<1>7. \A x : x \in Elems(s) <=> \E j \in 1 .. Len(s) : s[j] = x
  BY ElemsMember
<1> HIDE DEF Unlinked, Elems
<1>8. ASSUME NEW x \in Elems(Unlinked(s, i)) PROVE x \in Elems(s)
  BY <1>4, <1>6, <1>7
<1>9. ASSUME NEW x \in Elems(s), x # s[i] PROVE x \in Elems(Unlinked(s, i))
  BY <1>3, <1>6, <1>7, <1>9
<1> QED BY <1>8, <1>9

LEMMA PrependProperties ==
  ASSUME NEW s \in Seq(Obj), NEW o \in Obj
  PROVE  /\ <<o>> \o s \in Seq(Obj)
         /\ Len(<<o>> \o s) = Len(s) + 1
         /\ \A j \in 1 .. Len(s) + 1 : (<<o>> \o s)[j] = IF j = 1 THEN o ELSE s[j - 1]
         /\ Elems(<<o>> \o s) = Elems(s) \cup {o}
<1>1. <<o>> \in Seq(Obj) /\ Len(<<o>>) = 1 /\ <<o>>[1] = o
  OBVIOUS
<1>2. <<o>> \o s \in Seq(Obj) /\ Len(<<o>> \o s) = Len(s) + 1
  BY <1>1, ConcatProperties
<1>3. ASSUME NEW j \in 1 .. Len(s) + 1
      PROVE  (<<o>> \o s)[j] = IF j = 1 THEN o ELSE s[j - 1]
  BY <1>1, ConcatProperties
<1>4. ASSUME NEW k \in 1 .. Len(s) PROVE (<<o>> \o s)[k + 1] = s[k]
  BY <1>3
<1>5. \A x : x \in Elems(<<o>> \o s) <=> \E j \in 1 .. Len(s) + 1 : (<<o>> \o s)[j] = x
  BY <1>2, ElemsMember
<1>6. \A x : x \in Elems(s) <=> \E j \in 1 .. Len(s) : s[j] = x
  BY ElemsMember
<1>7. \A j \in 1 .. Len(s) + 1 : j = 1 \/ j - 1 \in 1 .. Len(s)
  OBVIOUS
<1>8. \A j \in 1 .. Len(s) : j + 1 \in 1 .. Len(s) + 1
  OBVIOUS
<1>9. (<<o>> \o s)[1] = o /\ 1 \in 1 .. Len(s) + 1
  BY <1>3
<1> HIDE DEF Elems
<1>10. \A x : x \in Elems(<<o>> \o s) <=> x = o \/ x \in Elems(s)
  BY <1>3, <1>4, <1>5, <1>6, <1>7, <1>8, <1>9
<1> QED BY <1>2, <1>3, <1>10

LEMMA AppendElems ==
  ASSUME NEW s \in Seq(Obj), NEW o \in Obj
  PROVE  Append(s, o) \in Seq(Obj) /\ Elems(Append(s, o)) = Elems(s) \cup {o}
  BY AppendProperties DEF Elems

LEMMA HeadTailElems ==
  ASSUME NEW s \in Seq(Obj), s # <<>>
  PROVE  /\ Head(s) \in Obj /\ Tail(s) \in Seq(Obj)
         /\ Elems(s) = Elems(Tail(s)) \cup {Head(s)}
<1> DEFINE t == Tail(s)
           h == Head(s)
<1>1. /\ h \in Obj /\ t \in Seq(Obj) /\ h = s[1] /\ Len(t) = Len(s) - 1
      /\ Len(s) >= 1 /\ \A i \in 1 .. Len(s) - 1 : t[i] = s[i + 1]
  OBVIOUS
<1>2. /\ \A i \in 1 .. Len(s) : i = 1 \/ (i - 1 \in 1 .. Len(s) - 1 /\ (i - 1) + 1 = i)
      /\ \A i \in 1 .. Len(s) - 1 : i + 1 \in 1 .. Len(s)
      /\ 1 \in 1 .. Len(s)
  BY <1>1
<1> HIDE DEF t, h
<1>3. \A x : x \in Elems(s) <=> \E i \in 1 .. Len(s) : s[i] = x
  BY ElemsMember
<1>4. \A x : x \in Elems(t) <=> \E i \in 1 .. Len(s) - 1 : t[i] = x
  <2>1. \A x : x \in Elems(t) <=> \E i \in 1 .. Len(t) : t[i] = x
    BY <1>1, ElemsMember
  <2> QED BY <1>1, <2>1
<1>5. ASSUME NEW x \in Elems(s) PROVE x \in Elems(t) \cup {h}
  <2>1. PICK i \in 1 .. Len(s) : s[i] = x
    BY <1>3, <1>5
  <2>2. CASE i = 1
    BY <1>1, <2>1, <2>2
  <2>3. CASE i # 1
    <3>1. i - 1 \in 1 .. Len(s) - 1 /\ t[i - 1] = s[(i - 1) + 1] /\ (i - 1) + 1 = i
      BY <1>1, <1>2, <2>3
    <3> QED BY <1>4, <2>1, <3>1
  <2> QED BY <2>2, <2>3
<1>6. ASSUME NEW x \in Elems(t) \cup {h} PROVE x \in Elems(s)
  BY <1>1, <1>2, <1>3, <1>4, <1>6
<1> QED BY <1>1, <1>5, <1>6 DEF t, h

LEMMA ConcatElems ==
  ASSUME NEW s \in Seq(Obj), NEW t \in Seq(Obj)
  PROVE  s \o t \in Seq(Obj) /\ Elems(s \o t) = Elems(s) \cup Elems(t)
<1>1. s \o t \in Seq(Obj) /\ Len(s \o t) = Len(s) + Len(t)
  BY ConcatProperties
<1>2. \A j \in 1 .. Len(s) + Len(t) :
         (s \o t)[j] = IF j <= Len(s) THEN s[j] ELSE t[j - Len(s)]
  BY ConcatProperties
<1>3. ASSUME NEW k \in 1 .. Len(t) PROVE (s \o t)[Len(s) + k] = t[k]
  BY <1>2
<1>4. \A x : x \in Elems(s \o t) <=> \E j \in 1 .. Len(s) + Len(t) : (s \o t)[j] = x
  BY <1>1, ElemsMember
<1>5. /\ \A x : x \in Elems(s) <=> \E j \in 1 .. Len(s) : s[j] = x
      /\ \A x : x \in Elems(t) <=> \E j \in 1 .. Len(t) : t[j] = x
  BY ElemsMember
<1>6. /\ \A j \in 1 .. Len(s) + Len(t) :
           IF j <= Len(s) THEN j \in 1 .. Len(s) ELSE j - Len(s) \in 1 .. Len(t)
      /\ \A j \in 1 .. Len(t) : Len(s) + j \in 1 .. Len(s) + Len(t)
      /\ \A j \in 1 .. Len(s) : j \in 1 .. Len(s) + Len(t) /\ j <= Len(s)
  OBVIOUS
<1> HIDE DEF Elems
<1>7. ASSUME NEW x \in Elems(s \o t) PROVE x \in Elems(s) \cup Elems(t)
  BY <1>2, <1>4, <1>5, <1>6
<1>8. ASSUME NEW x \in Elems(s) \cup Elems(t) PROVE x \in Elems(s \o t)
  BY <1>2, <1>3, <1>4, <1>5, <1>6
<1> QED BY <1>1, <1>7, <1>8

-----------------------------------------------------------------------------
(* Types.  Beside TypeOK, induction needs that the sweep pointer leads into *)
(* a list: the next field it designates is that of a header or of an object *)
(* still linked.                                                            *)

SweepgcLinked ==
  closing # "done" /\ sweepgc \in Obj => \E l \in ListName : sweepgc \in Elems(list[l])
TypeInv == TypeOK /\ SweepgcLinked

Heaps == [Obj -> Colours]

LEMMA MarkedType ==
  ASSUME NEW m \in Heaps, NEW S \in SUBSET Obj
  PROVE  Marked(m, S) \in Heaps /\ Linked(m, S) \subseteq Obj
  BY DEF Marked, Linked, Reached, Heaps, Colours, ObjOfKind

LEMMA RefsType ==
  ASSUME TypeOK
  PROVE  \A o \in Obj : Refs(o) \subseteq Obj /\ OpenUpvals(o) \subseteq Obj /\ Stack(o) \subseteq Obj
<1>1. \A e \in Entry : Objs(e) \subseteq Obj
  BY DEF Entry, Objs
<1>2. \A x \in Obj : Refs(x) \subseteq Obj
  BY <1>1 DEF TypeOK, Refs
<1> QED
  BY <1>2 DEF Stack, OpenUpvals

LEMMA OtherWhiteType ==
  ASSUME TypeOK
  PROVE  OtherWhite \in Whites /\ Whites \subseteq Colours
  BY DEF OtherWhite, Whites, Colours, TypeOK

LEMMA SweptType ==
  ASSUME TypeOK, NEW D, NEW W, Swept(D, W)
  PROVE  /\ mark' \in [Obj -> Colours] /\ fields' \in [Obj -> SUBSET Entry]
         /\ owner' \in [Obj -> Obj \cup {Nil}] /\ mode' \in [Obj -> Modes]
  BY DEF Swept, TypeOK, Colours, Whites, Modes

LEMMA BehindType ==
  ASSUME TypeOK, NEW p, p \in ListName \/ \E l \in ListName : p \in Elems(list[l])
  PROVE  /\ ListOf(p) \in ListName /\ Behind(p) \in 0 .. Len(list[ListOf(p)])
         /\ p \notin ListName => Behind(p) >= 1 /\ list[ListOf(p)][Behind(p)] = p
<1>1. ListOf(p) \in ListName /\ (p = ListOf(p) \/ p \in Elems(list[ListOf(p)]))
  BY DEF ListOf
<1>2. list[ListOf(p)] \in Seq(Obj)
  BY <1>1 DEF TypeOK
<1>3. CASE p \in ListName
  BY <1>1, <1>2, <1>3 DEF Behind
<1>4. CASE p \notin ListName
  <2>1. p \in Elems(list[ListOf(p)])
    BY <1>1, <1>4
  <2>2. Behind(p) \in 1 .. Len(list[ListOf(p)]) /\ list[ListOf(p)][Behind(p)] = p
    BY <2>1, <1>2, <1>4, IndexProperties DEF Behind
  <2> QED BY <2>2, <1>1, <1>2
<1> QED BY <1>3, <1>4

LEMMA SweepToLiveType ==
  ASSUME TypeOK, NEW p, p \in ListName \/ \E l \in ListName : p \in Elems(list[l]),
         NEW r, r = SweepToLive(p)
  PROVE  /\ r.dead \subseteq Obj /\ r.live \subseteq Obj
         /\ r.list \in [ListName -> Seq(Obj)]
         /\ r.sweepgc \in Obj \cup {Nil}
         /\ r.sweepgc \in Obj => r.sweepgc \in Elems(r.list[ListOf(p)])
         /\ \A l \in ListName \ {ListOf(p)} : r.list[l] = list[l]
<1> DEFINE l == ListOf(p)
           s == list[l]
           n == Behind(p)
           live == {i \in n+1 .. Len(s) : ~IsDead(s[i])}
           stop == IF live = {} THEN Len(s) + 1
                   ELSE CHOOSE i \in live : \A j \in live : i <= j
           kept == SubSeq(s, 1, n) \o SubSeq(s, stop, Len(s))
<1>1. l \in ListName /\ n \in 0 .. Len(s) /\ s \in Seq(Obj)
  BY BehindType DEF TypeOK
<1>2. stop \in n+1 .. Len(s)+1
  <2>1. CASE live = {}
    BY <1>1, <2>1
  <2>2. CASE live # {}
    <3>1. live \in SUBSET Nat
      BY <1>1
    <3>2. \E i \in live : \A j \in live : i <= j
      <4> HIDE DEF live
      <4> QED BY <3>1, <2>2, SmallestElement
    <3>3. stop \in live
      BY <3>2, <2>2
    <3> QED BY <3>3, <1>1
  <2> QED BY <2>1, <2>2
<1>3. r = [dead    |-> {s[i] : i \in n+1 .. stop-1},
           live    |-> {s[i] : i \in live \cap {stop}},
           sweepgc |-> IF stop >= Len(s) THEN Nil ELSE s[stop],
           list    |-> [list EXCEPT ![l] = kept]]
  BY DEF SweepToLive
<1>4. live \subseteq 1 .. Len(s)
  BY <1>1
<1> HIDE DEF stop, live, n, s, l
<1>5. r.dead \subseteq Obj
  <2>1. \A i \in n+1 .. stop-1 : s[i] \in Obj
    BY <1>1, <1>2
  <2> QED BY <2>1, <1>3
<1>6. r.live \subseteq Obj
  <2>1. \A i \in live : s[i] \in Obj
    BY <1>1, <1>4
  <2> QED BY <2>1, <1>3
<1>7. SubSeq(s, 1, n) \in Seq(Obj) /\ SubSeq(s, stop, Len(s)) \in Seq(Obj)
  BY <1>1, <1>2
<1>8. kept \in Seq(Obj)
  BY <1>7, ConcatElems
<1>9. r.sweepgc \in Obj \cup {Nil}
  BY <1>1, <1>2, <1>3
<1>10. r.sweepgc \in Obj => r.sweepgc \in Elems(kept)
  <2> SUFFICES ASSUME r.sweepgc \in Obj PROVE r.sweepgc \in Elems(SubSeq(s, stop, Len(s)))
    BY <1>7, ConcatElems
  <2>1. stop < Len(s) /\ r.sweepgc = s[stop]
    BY <1>1, <1>2, <1>3, ConstantsAssumption
  <2>2. Len(SubSeq(s, stop, Len(s))) >= 1 /\ SubSeq(s, stop, Len(s))[1] = s[stop]
    BY <2>1, <1>1, <1>2
  <2> DEFINE t == SubSeq(s, stop, Len(s))
  <2>3. t \in Seq(Obj) /\ Len(t) >= 1 /\ t[1] = r.sweepgc
    BY <2>1, <2>2, <1>7
  <2> HIDE DEF t
  <2>4. \A x : x \in Elems(t) <=> \E i \in 1 .. Len(t) : t[i] = x
    BY <2>3, ElemsMember
  <2> QED BY <2>3, <2>4 DEF t
<1> HIDE DEF kept
<1>11. list \in [ListName -> Seq(Obj)]
  BY DEF TypeOK
<1>12. r.list = [list EXCEPT ![l] = kept]
  BY <1>3
<1>13. r.list \in [ListName -> Seq(Obj)] /\ r.list[l] = kept
       /\ \A k \in ListName \ {l} : r.list[k] = list[k]
  BY <1>1, <1>8, <1>11, <1>12
<1> QED BY <1>5, <1>6, <1>9, <1>10, <1>13 DEF l

LEMMA TypeInit == Init => TypeInv
<1> SUFFICES ASSUME Init PROVE TypeInv
  OBVIOUS
<1> DEFINE start == {MainThread} \cup RootTables
<1>1. RootTables \subseteq Obj /\ MainThread \in Obj /\ Nil \notin Obj
  BY ConstantsAssumption DEF ObjOfKind
<1>2. Cardinality(RootTables) \in Nat
  BY <1>1, FS_CardinalityType, FS_Subset, ConstantsAssumption
<1>3. list \in [ListName -> Seq(Obj)]
  <2>1. PICK s \in [1 .. Cardinality(RootTables) -> RootTables] :
          list = [l \in ListName |-> IF l = "allgc" THEN Append(s, MainThread) ELSE <<>>]
    BY DEF Init
  <2>2. s \in Seq(Obj)
    BY <1>1, <1>2
  <2>3. Append(s, MainThread) \in Seq(Obj)
    BY <1>1, <2>2, AppendElems
  <2>4. <<>> \in Seq(Obj)
    OBVIOUS
  <2> QED BY <2>1, <2>3, <2>4
<1>4. mark \in [Obj -> Colours] /\ fields \in [Obj -> SUBSET Entry] /\ mode \in [Obj -> Modes]
  BY DEF Init, Colours
<1>5. sweepgc = Nil
  BY DEF Init
<1>6. full \in Seq([emergency : BOOLEAN, phase : {"topause", "tofinish"}])
  BY DEF Init
<1> QED
  BY <1>1, <1>3, <1>4, <1>5, <1>6 DEF Init, TypeInv, TypeOK, SweepgcLinked, Whites

\* marking from a set of roots changes colours only
LEMMA TypeMark ==
  ASSUME TypeInv, NEW S \in SUBSET Obj, mark' = Marked(mark, S)
  PROVE  mark' \in [Obj -> Colours] /\ Linked(mark, S) \subseteq Obj
  BY MarkedType DEF TypeInv, TypeOK, Heaps

LEMMA TypePropagateMark ==
  ASSUME TypeInv, NEW o \in Obj,
         TraverseStrong(o) \/ TraverseWeakValue(o) \/ TraverseEphemeron(o)
           \/ TraverseAllWeak(o) \/ TraverseThread(o)
  PROVE  /\ mark' \in [Obj -> Colours] /\ gray' \subseteq Obj /\ grayagain' \subseteq Obj
         /\ weak' \subseteq Obj /\ ephemeron' \subseteq Obj /\ allweak' \subseteq Obj
         /\ twups' \subseteq Obj
<1> USE DEF TypeInv
<1>1. ASSUME NEW c \in {"black", "gray"}, NEW S \in SUBSET Obj, Visit(o, c, S)
      PROVE  mark' \in [Obj -> Colours] /\ gray' \subseteq Obj
  <2>1. [mark EXCEPT ![o] = c] \in Heaps
    BY DEF TypeOK, Heaps, Colours
  <2> QED BY <1>1, <2>1, MarkedType DEF Visit, TypeOK, Heaps
<1>2. Refs(o) \subseteq Obj /\ Stack(o) \cup OpenUpvals(o) \subseteq Obj
  BY RefsType
<1>3. /\ {e[1] : e \in fields[o]} \ {Nil} \subseteq Obj
      /\ {e[2] : e \in fields[o]} \ {Nil} \subseteq Obj
      /\ EphemeronMarks(o) \subseteq Obj
  BY DEF TypeOK, Entry, EphemeronMarks
<1>4. gray \subseteq Obj /\ grayagain \subseteq Obj /\ weak \subseteq Obj /\ ephemeron \subseteq Obj
      /\ allweak \subseteq Obj /\ twups \subseteq Obj
  BY DEF TypeOK
<1>5. CASE TraverseStrong(o)
  BY <1>1, <1>2, <1>4, <1>5 DEF TraverseStrong
<1>6. CASE TraverseWeakValue(o)
  BY <1>1, <1>3, <1>4, <1>6 DEF TraverseWeakValue, Strings, ObjOfKind
<1>7. CASE TraverseEphemeron(o)
  BY <1>1, <1>3, <1>4, <1>7 DEF TraverseEphemeron, Strings, ObjOfKind
<1>8. CASE TraverseAllWeak(o)
  BY <1>1, <1>4, <1>8 DEF TraverseAllWeak
<1>9. CASE TraverseThread(o)
  BY <1>1, <1>2, <1>4, <1>9 DEF TraverseThread
<1> QED BY <1>5, <1>6, <1>7, <1>8, <1>9


LEMMA TypeEnterSweep ==
  ASSUME TypeInv, EnterSweep
  PROVE  /\ mark' \in [Obj -> Colours] /\ fields' \in [Obj -> SUBSET Entry]
         /\ owner' \in [Obj -> Obj \cup {Nil}] /\ mode' \in [Obj -> Modes]
         /\ tofin' \subseteq Obj /\ list' \in [ListName -> Seq(Obj)]
         /\ sweepgc' \in Obj \cup {Nil} /\ gcstate' = "swpallgc"
         /\ sweepgc' \in Obj => \E l \in ListName : sweepgc' \in Elems(list'[l])
<1> USE DEF TypeInv
<1> DEFINE r == SweepToLive("allgc")
<1>1. "allgc" \in ListName
  BY DEF ListName
<1>2. ListOf("allgc") \in ListName
  BY <1>1, BehindType
<1>3. /\ r.list \in [ListName -> Seq(Obj)] /\ r.sweepgc \in Obj \cup {Nil}
      /\ r.sweepgc \in Obj => r.sweepgc \in Elems(r.list[ListOf("allgc")])
  <2> HIDE DEF r
  <2> QED BY <1>1, SweepToLiveType DEF r
<1>4. Swept(r.dead, r.live) /\ sweepgc' = r.sweepgc /\ list' = r.list /\ tofin' = tofin \ r.dead
      /\ gcstate' = "swpallgc"
  BY DEF EnterSweep
<1> HIDE DEF r
<1>5. tofin' \subseteq Obj
  BY <1>4 DEF TypeOK
<1> QED BY <1>2, <1>3, <1>4, <1>5, SweptType

LEMMA TypeGCTM ==
  ASSUME TypeInv, GCTM
  PROVE  TypeInv'
<1> USE DEF TypeInv, SweepgcLinked, heapVars, grayVars, atomicVars, sweepVars, runVars
<1> DEFINE t == list["tobefnz"]
           o == Head(t)
<1>1. t \in Seq(Obj) /\ t # <<>> /\ list["allgc"] \in Seq(Obj)
  BY DEF GCTM, TypeOK, ListName
<1>2. o \in Obj /\ Tail(t) \in Seq(Obj) /\ Elems(t) \subseteq Elems(Tail(t)) \cup {o}
  BY <1>1, HeadTailElems
<1>3. /\ <<o>> \o list["allgc"] \in Seq(Obj)
      /\ Elems(<<o>> \o list["allgc"]) = Elems(list["allgc"]) \cup {o}
  BY <1>1, <1>2, PrependProperties
<1>4. list' = [list EXCEPT !["tobefnz"] = Tail(t), !["allgc"] = <<o>> \o list["allgc"]]
  BY DEF GCTM, TypeOK, ListName
<1>5. /\ list'["tobefnz"] = Tail(t) /\ list'["finobj"] = list["finobj"]
      /\ list'["allgc"] = <<o>> \o list["allgc"]
      /\ list' \in [ListName -> Seq(Obj)]
  BY <1>2, <1>3, <1>4 DEF TypeOK, ListName
<1>6. tofin' \subseteq Obj /\ mark' \in [Obj -> Colours]
  BY <1>2 DEF GCTM, TypeOK, Repainted, Whites, Colours
<1>7. /\ fields' \in [Obj -> SUBSET Entry] /\ savedtop' \subseteq Entry
      /\ finalizing' \in {"call", "loop"} /\ gcstp' \subseteq {"usr", "gc", "cls"}
  <2>1. <<Nil, o>> \in Entry
    BY <1>2 DEF Entry
  <2> HIDE DEF o
  <2>2. CASE /\ finalizing' = "call" /\ savedtop' = fields[running]
             /\ fields' = [fields EXCEPT ![running] = @ \cup {<<Nil, o>>}]
             /\ gcstp' = gcstp \cup {"gc"}
    BY <2>1, <2>2 DEF TypeOK
  <2>3. CASE finalizing' = "loop" /\ UNCHANGED <<savedtop, fields, gcstp>>
    BY <2>3 DEF TypeOK
  <2> QED BY <2>2, <2>3 DEF GCTM, o
<1>8. /\ UNCHANGED <<mode, owner, gcstate, currentwhite, sweepgc, running, full, closing>>
      /\ UNCHANGED <<gray, grayagain, weak, ephemeron, allweak, twups>>
      /\ UNCHANGED <<at, again, todo, changed, orig, scan>>
  BY DEF GCTM
<1>9. SweepgcLinked'
  <2> HIDE DEF t, o
  <2> QED BY <1>2, <1>3, <1>5, <1>8 DEF ListName, t
<1> HIDE DEF t, o
<1>10. TypeOK'
  BY <1>5, <1>6, <1>7, <1>8 DEF TypeOK
<1> QED BY <1>8, <1>9, <1>10

LEMMA TypeClearBy ==
  ASSUME TypeInv, NEW values, NEW keys, ClearBy(values, keys)
  PROVE  mark' \in [Obj -> Colours] /\ fields' \in [Obj -> SUBSET Entry]
<1> USE DEF TypeInv
<1>1. \A S : Strings(S) \subseteq Obj
  BY DEF Strings, ObjOfKind
<1>2. \A S \in SUBSET Obj : Marked(mark, S) \in [Obj -> Colours]
  BY MarkedType DEF TypeOK, Heaps
<1>3. mark' \in [Obj -> Colours]
  BY <1>1, <1>2 DEF ClearBy
<1>4. fields' \in [Obj -> SUBSET Entry]
  BY DEF ClearBy, TypeOK
<1> QED BY <1>3, <1>4

LEMMA TypeCollector == TypeInv /\ CollectorStep => TypeInv'
<1> SUFFICES ASSUME TypeInv, CollectorStep PROVE TypeInv'
  OBVIOUS
<1> USE DEF TypeInv, SweepgcLinked, heapVars, grayVars, atomicVars, sweepVars, runVars
<1>1. CASE RestartCollection
  <2> DEFINE roots == {MainThread} \cup RootTables \cup BeingFnz
  <2>1. roots \in SUBSET Obj
    <3>1. BeingFnz \subseteq Obj
      BY DEF BeingFnz, Elems, TypeOK, ListName
    <3> QED BY <3>1, ConstantsAssumption DEF ObjOfKind
  <2>2. mark' = Marked(mark, roots) /\ gray' = Linked(mark, roots)
    BY <1>1 DEF RestartCollection
  <2>3. mark' \in [Obj -> Colours] /\ gray' \subseteq Obj
    BY <2>1, <2>2, TypeMark
  <2>4. full' \in Seq([emergency : BOOLEAN, phase : {"topause", "tofinish"}])
    <3>1. CASE full = <<>>
      BY <1>1, <3>1 DEF RestartCollection
    <3>2. CASE full # <<>>
      <4>1. full' = [full EXCEPT ![1] = [full[1] EXCEPT !.phase = "tofinish"]]
        BY <1>1, <3>2 DEF RestartCollection
      <4>2. full \in Seq([emergency : BOOLEAN, phase : {"topause", "tofinish"}])
            /\ 1 \in 1 .. Len(full)
        BY <3>2 DEF TypeOK
      <4>3. [full[1] EXCEPT !.phase = "tofinish"]
              \in [emergency : BOOLEAN, phase : {"topause", "tofinish"}]
        <5>1. full[1] \in [emergency : BOOLEAN, phase : {"topause", "tofinish"}]
          BY <4>2, ElementOfSeq
        <5> QED BY <5>1
      <4> DEFINE R == [emergency : BOOLEAN, phase : {"topause", "tofinish"}]
                 e == [full[1] EXCEPT !.phase = "tofinish"]
      <4> HIDE DEF R, e
      <4>4. full' = [full EXCEPT ![1] = e] /\ full \in Seq(R) /\ e \in R /\ 1 \in 1 .. Len(full)
        BY <4>1, <4>2, <4>3 DEF R, e
      <4>5. full' \in Seq(R)
        BY <4>4, ExceptSeq
      <4> QED BY <4>5 DEF R
    <3> QED BY <3>1, <3>2 DEF TypeOK
  <2>5. TypeOK'
    BY <1>1, <2>3, <2>4 DEF RestartCollection, TypeOK
  <2> QED BY <1>1, <2>5 DEF RestartCollection
<1>2. CASE Propagate
  <2>1. /\ mark' \in [Obj -> Colours] /\ gray' \subseteq Obj /\ grayagain' \subseteq Obj
        /\ weak' \subseteq Obj /\ ephemeron' \subseteq Obj /\ allweak' \subseteq Obj
        /\ twups' \subseteq Obj
    BY <1>2, TypePropagateMark DEF Propagate, PropagateMark
  <2>2. TypeOK'
    BY <1>2, <2>1 DEF Propagate, TypeOK
  <2> QED BY <1>2, <2>2 DEF Propagate
<1>3. CASE EnterAtomic
  <2>1. TypeOK'
    BY <1>3 DEF EnterAtomic, TypeOK
  <2> QED BY <1>3, <2>1 DEF EnterAtomic
<1>4. CASE AtomicStart
  <2> DEFINE roots == {running} \cup RootTables
  <2>1. roots \in SUBSET Obj
    BY ConstantsAssumption DEF TypeOK, ObjOfKind
  <2>2. mark' = Marked(mark, roots) /\ gray' = gray \cup Linked(mark, roots)
    BY <1>4 DEF AtomicStart
  <2>3. mark' \in [Obj -> Colours] /\ gray' \subseteq Obj
    BY <2>1, <2>2, TypeMark DEF TypeOK
  <2> HIDE DEF roots
  <2>4. TypeOK'
    BY <1>4, <2>3 DEF AtomicStart, TypeOK
  <2> QED BY <1>4, <2>4 DEF AtomicStart
<1>5. CASE AtomicPropagate
  <2>1. /\ mark' \in [Obj -> Colours] /\ gray' \subseteq Obj /\ grayagain' \subseteq Obj
        /\ weak' \subseteq Obj /\ ephemeron' \subseteq Obj /\ allweak' \subseteq Obj
        /\ twups' \subseteq Obj
    BY <1>5, TypePropagateMark DEF AtomicPropagate, PropagateMark
  <2>2. TypeOK'
    BY <1>5, <2>1 DEF AtomicPropagate, TypeOK
  <2> QED BY <1>5, <2>2 DEF AtomicPropagate
<1>6. CASE AtomicRemarkUpvals
  <2> DEFINE keep == {t \in twups : ~IsWhite(t) /\ OpenUpvals(t) # {}}
             roots == Remarked(twups \ keep)
  <2>1. roots \in SUBSET Obj
    <3>1. \A t \in twups : OpenUpvals(t) \subseteq Obj
      BY RefsType DEF TypeOK
    <3>2. {x \in UNION {OpenUpvals(t) : t \in twups \ keep} : ~IsWhite(x)} \subseteq Obj
      BY <3>1
    <3> QED BY <3>2, RefsType DEF Remarked
  <2>2. mark' = Marked(mark, roots) /\ gray' = Linked(mark, roots) /\ twups' = keep
    BY <1>6 DEF AtomicRemarkUpvals
  <2>3. mark' \in [Obj -> Colours] /\ gray' \subseteq Obj
    BY <2>1, <2>2, TypeMark DEF TypeOK
  <2>4. twups' \subseteq Obj
    BY <2>2 DEF TypeOK
  <2> HIDE DEF roots
  <2>5. TypeOK'
    BY <1>6, <2>3, <2>4 DEF AtomicRemarkUpvals, TypeOK
  <2> QED BY <1>6, <2>5 DEF AtomicRemarkUpvals
<1>7. CASE AtomicGrayAgain
  <2>1. TypeOK'
    BY <1>7 DEF AtomicGrayAgain, AtomicAt, TypeOK
  <2> QED BY <1>7, <2>1 DEF AtomicGrayAgain
<1>8. CASE ConvergePass
  <2>1. TypeOK'
    BY <1>8 DEF ConvergePass, AtomicAt, TypeOK
  <2> QED BY <1>8, <2>1 DEF ConvergePass
<1>9. ASSUME NEW o \in Obj, ConvergeVisit(o) PROVE TypeInv'
  <2>1. /\ mark' \in [Obj -> Colours] /\ gray' \subseteq Obj /\ grayagain' \subseteq Obj
        /\ weak' \subseteq Obj /\ ephemeron' \subseteq Obj /\ allweak' \subseteq Obj
        /\ twups' \subseteq Obj
    BY <1>9, TypePropagateMark DEF ConvergeVisit
  <2>2. TypeOK'
    BY <1>9, <2>1 DEF ConvergeVisit, TypeOK
  <2> QED BY <1>9, <2>2 DEF ConvergeVisit
<1>10. CASE AtomicClearValues
  <2>1. mark' \in [Obj -> Colours] /\ fields' \in [Obj -> SUBSET Entry]
    BY <1>10, TypeClearBy DEF AtomicClearValues
  <2>2. TypeOK'
    BY <1>10, <2>1 DEF AtomicClearValues, TypeOK
  <2> QED BY <1>10, <2>2 DEF AtomicClearValues
<1>11. CASE AtomicSeparate
  <2> DEFINE f == list["finobj"]
  <2>1. f \in Seq(Obj) /\ list["tobefnz"] \in Seq(Obj)
    BY DEF TypeOK, ListName
  <2>2. CASE IsWhite(f[scan]) /\ scan \in 1 .. Len(f)
    <3>1. /\ Unlinked(f, scan) \in Seq(Obj)
          /\ Elems(f) \ {f[scan]} \subseteq Elems(Unlinked(f, scan))
      BY <2>1, <2>2, UnlinkedProperties, UnlinkedElems
    <3>2. /\ Append(list["tobefnz"], f[scan]) \in Seq(Obj)
          /\ Elems(Append(list["tobefnz"], f[scan])) = Elems(list["tobefnz"]) \cup {f[scan]}
      BY <2>1, <2>2, AppendElems
    <3>3. /\ list' = [list EXCEPT !["finobj"] = Unlinked(f, scan),
                                  !["tobefnz"] = Append(list["tobefnz"], f[scan])]
          /\ UNCHANGED <<scan, sweepgc, closing>>
      BY <1>11, <2>1, <2>2 DEF AtomicSeparate, LinkLast, TypeOK, ListName
    <3> HIDE DEF f
    <3>4. list' \in [ListName -> Seq(Obj)]
      BY <3>1, <3>2, <3>3 DEF TypeOK, ListName
    <3>5. /\ list'["finobj"] = Unlinked(f, scan) /\ list'["allgc"] = list["allgc"]
          /\ list'["tobefnz"] = Append(list["tobefnz"], f[scan])
      BY <3>3 DEF TypeOK, ListName
    <3>6. SweepgcLinked'
      BY <3>1, <3>2, <3>3, <3>5 DEF ListName, f
    <3>7. TypeOK'
      BY <1>11, <3>3, <3>4 DEF AtomicSeparate, TypeOK
    <3> QED BY <3>6, <3>7
  <2>3. CASE ~(IsWhite(f[scan]) /\ scan \in 1 .. Len(f))
    <3>1. TypeOK' /\ UNCHANGED <<list, sweepgc, closing>>
      BY <1>11, <2>1, <2>3 DEF AtomicSeparate, TypeOK
    <3> QED BY <3>1
  <2> QED BY <2>2, <2>3
<1>12. CASE AtomicMarkBeingFnz
  <2> DEFINE roots == BeingFnz
  <2>1. roots \in SUBSET Obj
    BY DEF BeingFnz, Elems, TypeOK, ListName
  <2>2. mark' = Marked(mark, roots) /\ gray' = Linked(mark, roots)
    BY <1>12 DEF AtomicMarkBeingFnz
  <2>3. mark' \in [Obj -> Colours] /\ gray' \subseteq Obj
    BY <2>1, <2>2, TypeMark DEF TypeOK
  <2> HIDE DEF roots
  <2>4. TypeOK'
    BY <1>12, <2>3 DEF AtomicMarkBeingFnz, TypeOK
  <2> QED BY <1>12, <2>4 DEF AtomicMarkBeingFnz
<1>13. CASE AtomicClearKeys
  <2>1. mark' \in [Obj -> Colours] /\ fields' \in [Obj -> SUBSET Entry]
    BY <1>13, TypeClearBy DEF AtomicClearKeys
  <2>2. currentwhite' \in Whites
    BY <1>13, OtherWhiteType DEF AtomicClearKeys, Flip
  <2>3. TypeOK'
    BY <1>13, <2>1, <2>2 DEF AtomicClearKeys, Converged, AtomicAt, TypeOK
  <2> QED BY <1>13, <2>3 DEF AtomicClearKeys
<1>14. CASE AtomicEnd
  <2>1. EnterSweep
    BY <1>14 DEF AtomicEnd
  <2>2. TypeOK'
    BY <1>14, <2>1, TypeEnterSweep DEF AtomicEnd, TypeOK
  <2>3. SweepgcLinked'
    BY <2>1, TypeEnterSweep
  <2> QED BY <2>2, <2>3
<1>15. CASE SweepObject
  <2> DEFINE l == ListOf(sweepgc)
             n == Behind(sweepgc) + 1
             s == list[l]
             o == s[n]
  <2>1. sweepgc # Nil /\ n <= Len(s) /\ closing # "done" /\ UNCHANGED closing
    BY <1>15 DEF SweepObject, CollectorRuns
  <2>2. sweepgc \in ListName \/ \E k \in ListName : sweepgc \in Elems(list[k])
    BY <2>1 DEF TypeOK
  <2>3. l \in ListName /\ s \in Seq(Obj) /\ n \in 1 .. Len(s)
        /\ (sweepgc \notin ListName => n >= 2 /\ s[n-1] = sweepgc)
    <3>1. l \in ListName /\ Behind(sweepgc) \in 0 .. Len(list[l])
          /\ (sweepgc \notin ListName => Behind(sweepgc) >= 1 /\ list[l][Behind(sweepgc)] = sweepgc)
      BY <2>2, BehindType
    <3> QED BY <2>1, <3>1 DEF TypeOK
  <2>4. o \in Obj /\ o \in Elems(s)
    BY <2>3, ElemsMember
  <2>5. CASE IsDead(o)
    <3>1. /\ Swept({o}, {}) /\ list' = [list EXCEPT ![l] = Unlinked(s, n)] /\ tofin' = tofin \ {o}
          /\ sweepgc' = IF n = Len(s) THEN Nil ELSE sweepgc
      BY <1>15, <2>5 DEF SweepObject
    <3> HIDE DEF l, n, s, o
    <3>2. Unlinked(s, n) \in Seq(Obj)
      BY <2>3, UnlinkedProperties
    <3>3. list' \in [ListName -> Seq(Obj)]
      BY <2>3, <3>1, <3>2 DEF TypeOK
    <3>4. sweepgc \in Obj => sweepgc \in Elems(Unlinked(s, n))
      <4> SUFFICES ASSUME sweepgc \in Obj PROVE sweepgc \in Elems(Unlinked(s, n))
        OBVIOUS
      <4>1. n >= 2 /\ s[n-1] = sweepgc
        BY <2>3, ConstantsAssumption
      <4>2. n-1 \in 1 .. Len(s)-1 /\ Unlinked(s, n)[n-1] = s[n-1]
        BY <2>3, <4>1, UnlinkedProperties
      <4>3. Len(Unlinked(s, n)) = Len(s)-1
        BY <2>3, UnlinkedProperties
      <4> QED BY <3>2, <4>1, <4>2, <4>3, ElemsMember
    <3>5. list'[l] = Unlinked(s, n)
      BY <2>3, <3>1 DEF TypeOK
    <3>6. SweepgcLinked'
      BY <2>3, <3>1, <3>4, <3>5, ConstantsAssumption
    <3>7. /\ mark' \in [Obj -> Colours] /\ fields' \in [Obj -> SUBSET Entry]
          /\ owner' \in [Obj -> Obj \cup {Nil}] /\ mode' \in [Obj -> Modes]
      BY <3>1, SweptType
    <3>8. TypeOK'
      BY <1>15, <3>1, <3>3, <3>7 DEF SweepObject, TypeOK
    <3> QED BY <3>6, <3>8
  <2>6. CASE ~IsDead(o)
    <3>1. Swept({}, {o}) /\ sweepgc' = (IF n = Len(s) THEN Nil ELSE o) /\ UNCHANGED <<list, tofin>>
      BY <1>15, <2>6 DEF SweepObject
    <3>2. SweepgcLinked'
      BY <2>3, <2>4, <3>1, ConstantsAssumption DEF s
    <3> HIDE DEF l, n, s, o
    <3>3. /\ mark' \in [Obj -> Colours] /\ fields' \in [Obj -> SUBSET Entry]
          /\ owner' \in [Obj -> Obj \cup {Nil}] /\ mode' \in [Obj -> Modes]
      BY <3>1, SweptType
    <3>4. TypeOK'
      BY <1>15, <2>4, <3>1, <3>3 DEF SweepObject, TypeOK
    <3> QED BY <3>2, <3>4
  <2> QED BY <2>5, <2>6
<1>16. CASE SweepNothing
  <2>1. TypeOK'
    BY <1>16 DEF SweepNothing, TypeOK
  <2>2. sweepgc' = Nil
    BY <1>16 DEF SweepNothing
  <2> QED BY <2>1, <2>2, ConstantsAssumption
<1>17. CASE SweepNext
  <2>1. sweepgc' \in ListName \cup {Nil} /\ gcstate' \in {"swpfinobj", "swptobefnz", "swpend", "callfin"}
    BY <1>17 DEF SweepNext, ListName
  <2>2. TypeOK'
    BY <1>17, <2>1 DEF SweepNext, TypeOK
  <2> QED BY <2>1, <2>2, ConstantsAssumption
<1>18. CASE CallFinalizer
  BY <1>18, TypeGCTM DEF CallFinalizer
<1>19. CASE NextFinalizer
  BY <1>19, TypeGCTM DEF NextFinalizer
<1>20. CASE FinalizersEnd
  <2>1. TypeOK'
    BY <1>20 DEF FinalizersEnd, TypeOK
  <2> QED BY <1>20, <2>1 DEF FinalizersEnd
<1>21. CASE FinishCycle
  <2>1. TypeOK'
    BY <1>21 DEF FinishCycle, TypeOK
  <2> QED BY <1>21, <2>1 DEF FinishCycle
<1>22. CASE FullGCEnd
  <2>1. full' \in Seq([emergency : BOOLEAN, phase : {"topause", "tofinish"}])
    BY <1>22 DEF FullGCEnd, TypeOK
  <2>2. TypeOK'
    BY <1>22, <2>1 DEF FullGCEnd, TypeOK
  <2> QED BY <1>22, <2>2 DEF FullGCEnd
<1> QED BY <1>1, <1>2, <1>3, <1>4, <1>5, <1>6, <1>7, <1>8, <1>9, <1>10, <1>11, <1>12, <1>13, <1>14, <1>15, <1>16, <1>17, <1>18, <1>19, <1>20, <1>21, <1>22 DEF CollectorStep

LEMMA TypeBarrier ==
  ASSUME TypeInv, NEW o \in Obj, NEW v \in Obj, Barrier(o, v)
  PROVE  mark' \in [Obj -> Colours] /\ gray' \subseteq Obj
<1> USE DEF TypeInv
<1>1. Marked(mark, {v}) \in [Obj -> Colours] /\ Linked(mark, {v}) \subseteq Obj
  BY MarkedType DEF TypeOK, Heaps
<1> QED BY <1>1 DEF Barrier, TypeOK, Whites, Colours

LEMMA TypeCloseBarrier ==
  ASSUME TypeInv, NEW u \in Obj, CloseBarrier(u)
  PROVE  mark' \in [Obj -> Colours] /\ gray' \subseteq Obj
<1> USE DEF TypeInv
<1> DEFINE m == [mark EXCEPT ![u] = "black"]
           whites == {v \in Refs(u) : IsWhite(v)}
<1>1. m \in Heaps /\ whites \in SUBSET Obj
  BY RefsType DEF TypeOK, Heaps, Colours
<1>2. Marked(m, whites) \in [Obj -> Colours] /\ Linked(m, whites) \subseteq Obj
  <2> HIDE DEF m, whites
  <2> QED BY <1>1, MarkedType DEF Heaps
<1> QED BY <1>2 DEF CloseBarrier, TypeOK, Whites, Colours

LEMMA StackTypes ==
  ASSUME TypeOK
  PROVE  /\ Regs \subseteq Obj /\ AtHand \subseteq Obj /\ Finalizable \subseteq Obj
         /\ \A o \in Obj : Readable(o) \subseteq Obj
         /\ \A t \in Obj, v \in Obj : OnStack(t, v) \in [Obj -> SUBSET Entry]
<1>1. running \in Obj /\ RootTables \subseteq Obj /\ Finalizable \subseteq Obj
  BY ConstantsAssumption DEF TypeOK, ObjOfKind
<1>2. Regs \subseteq Obj /\ AtHand \subseteq Obj
  BY <1>1, RefsType DEF Regs, AtHand
<1>3. \A o \in Obj : Readable(o) \subseteq Obj
  BY RefsType DEF Readable
<1>4. \A v \in Obj : <<Nil, v>> \in Entry
  BY DEF Entry
<1>5. \A t \in Obj, v \in Obj : OnStack(t, v) \in [Obj -> SUBSET Entry]
  BY <1>4 DEF OnStack, TypeOK
<1> QED BY <1>1, <1>2, <1>3, <1>5

LEMMA TypeNewInAllgc ==
  ASSUME TypeInv, NEW o \in Obj, UNCHANGED <<sweepgc, closing>>,
         list' = [list EXCEPT !["allgc"] = <<o>> \o @]
  PROVE  list' \in [ListName -> Seq(Obj)] /\ SweepgcLinked'
<1> USE DEF TypeInv
<1>1. list["allgc"] \in Seq(Obj)
  BY DEF TypeOK, ListName
<1>2. /\ <<o>> \o list["allgc"] \in Seq(Obj)
      /\ Elems(<<o>> \o list["allgc"]) = Elems(list["allgc"]) \cup {o}
  BY <1>1, PrependProperties
<1>3. list' \in [ListName -> Seq(Obj)] /\ list'["allgc"] = <<o>> \o list["allgc"]
      /\ \A l \in ListName \ {"allgc"} : list'[l] = list[l]
  BY <1>2 DEF TypeOK, ListName
<1>4. \A l \in ListName : Elems(list[l]) \subseteq Elems(list'[l])
  BY <1>2, <1>3 DEF ListName
<1> QED BY <1>3, <1>4 DEF SweepgcLinked

LEMMA TypeProgram == TypeInv /\ ProgramStep => TypeInv'
<1> SUFFICES ASSUME TypeInv, ProgramStep PROVE TypeInv'
  OBVIOUS
<1> USE DEF TypeInv, heapVars, grayVars, atomicVars, sweepVars, runVars
<1>0. /\ running \in Obj /\ Refs(running) \subseteq Obj /\ OpenUpvals(running) \subseteq Obj
      /\ Regs \subseteq Obj /\ AtHand \subseteq Obj /\ ObjOfKind({"upval"}) \subseteq Obj
      /\ \A o \in Obj : Readable(o) \subseteq Obj /\ Slots[o] \subseteq Entry /\ WeakModes[o] \subseteq Modes
      /\ \A v \in Obj : <<Nil, v>> \in Entry
  BY StackTypes, RefsType, ConstantsAssumption DEF TypeOK, ObjOfKind, Entry
<1>1. ASSUME NEW o \in Obj, NewObject(o) PROVE TypeInv'
  <2>1. fields' \in [Obj -> SUBSET Entry] /\ mark' \in [Obj -> Colours]
    BY <1>1, <1>0, StackTypes DEF NewObject, TypeOK, Whites, Colours
  <2>2. list' \in [ListName -> Seq(Obj)] /\ SweepgcLinked'
    BY <1>1, TypeNewInAllgc DEF NewObject
  <2>3. TypeOK'
    BY <1>1, <2>1, <2>2 DEF NewObject, TypeOK
  <2> QED BY <2>2, <2>3
<1>2. ASSUME NEW o \in Obj, InternString(o) PROVE TypeInv'
  <2>1. fields' \in [Obj -> SUBSET Entry] /\ mark' \in [Obj -> Colours]
    BY <1>2, <1>0, StackTypes DEF InternString, TypeOK, Whites, Colours
  <2>2. list' \in [ListName -> Seq(Obj)] /\ SweepgcLinked'
    <3>1. CASE mark[o] = "free"
      BY <1>2, <3>1, TypeNewInAllgc DEF InternString
    <3>2. CASE mark[o] # "free"
      BY <1>2, <3>2 DEF InternString, TypeOK, SweepgcLinked
    <3> QED BY <3>1, <3>2
  <2>3. TypeOK'
    BY <1>2, <2>1, <2>2 DEF InternString, TypeOK
  <2> QED BY <2>2, <2>3
<1>3. ASSUME NEW v \in Refs(running), Pop(v) PROVE TypeInv'
  <2>1. fields' \in [Obj -> SUBSET Entry]
    BY <1>3, <1>0, StackTypes DEF Pop, TypeOK
  <2>2. TypeOK'
    BY <1>3, <2>1 DEF Pop, TypeOK
  <2>3. SweepgcLinked'
    BY <1>3 DEF Pop, SweepgcLinked
  <2> QED BY <2>2, <2>3
<1>4. ASSUME NEW o \in AtHand, NEW v \in Readable(o), Load(o, v) PROVE TypeInv'
  <2>1. fields' \in [Obj -> SUBSET Entry]
    BY <1>4, <1>0, StackTypes DEF Load, TypeOK
  <2>2. TypeOK'
    BY <1>4, <2>1 DEF Load, TypeOK
  <2>3. SweepgcLinked'
    BY <1>4 DEF Load, SweepgcLinked
  <2> QED BY <2>2, <2>3
<1>5. ASSUME NEW o \in Regs, NEW v \in Regs, Transfer(o, v) PROVE TypeInv'
  <2>1. fields' \in [Obj -> SUBSET Entry]
    BY <1>5, <1>0, StackTypes DEF Transfer, TypeOK
  <2>2. TypeOK'
    BY <1>5, <2>1 DEF Transfer, TypeOK
  <2>3. SweepgcLinked'
    BY <1>5 DEF Transfer, SweepgcLinked
  <2> QED BY <2>2, <2>3
<1>6. ASSUME NEW o \in AtHand, NEW e \in fields[o], ClearField(o, e) PROVE TypeInv'
  <2>1. fields' \in [Obj -> SUBSET Entry]
    BY <1>6, <1>0, StackTypes DEF ClearField, TypeOK
  <2>2. TypeOK'
    BY <1>6, <2>1 DEF ClearField, TypeOK
  <2>3. SweepgcLinked'
    BY <1>6 DEF ClearField, SweepgcLinked
  <2> QED BY <2>2, <2>3
<1>7. ASSUME NEW o \in AtHand, NEW e \in Slots[o], SetField(o, e) PROVE TypeInv'
  <2>1. fields' \in [Obj -> SUBSET Entry]
    BY <1>7, <1>0 DEF SetField, TypeOK
  <2>2. mark' \in [Obj -> Colours] /\ grayagain' \subseteq Obj
    BY <1>7, <1>0 DEF SetField, BarrierBack, TypeOK, Colours
  <2>3. TypeOK'
    BY <1>7, <2>1, <2>2 DEF SetField, TypeOK
  <2>4. SweepgcLinked'
    BY <1>7 DEF SetField, SweepgcLinked
  <2> QED BY <2>3, <2>4
<1>8. ASSUME NEW o \in AtHand, NEW m \in WeakModes[o], SetMode(o, m) PROVE TypeInv'
  <2>1. TypeOK'
    BY <1>8, <1>0 DEF SetMode, TypeOK
  <2>2. SweepgcLinked'
    BY <1>8 DEF SetMode, SweepgcLinked
  <2> QED BY <2>1, <2>2
<1>9. ASSUME NEW o \in Regs, CheckFinalizer(o) PROVE TypeInv'
  <2> DEFINE r == SweepToLive(sweepgc)
             moved == SweptLast(o)
             lists == IF moved THEN r.list ELSE list
             s == lists["allgc"]
  <2>1. o \in Obj /\ closing # "done" /\ o \in Elems(s) /\ UNCHANGED closing
        /\ list' = [lists EXCEPT !["allgc"] = Unlinked(s, Index(s, o)), !["finobj"] = <<o>> \o @]
    BY <1>9, <1>0 DEF CheckFinalizer, ProgramRuns
  <2>2. moved => sweepgc \in Obj /\ \E l \in ListName : sweepgc \in Elems(list[l])
    BY <2>1 DEF SweptLast, SweepgcLinked
  <2>3. moved => /\ r.dead \subseteq Obj /\ r.list \in [ListName -> Seq(Obj)] /\ r.sweepgc \in Obj \cup {Nil}
                 /\ r.sweepgc \in Obj => \E l \in ListName : r.sweepgc \in Elems(r.list[l])
    <3> SUFFICES ASSUME moved
                 PROVE  /\ r.dead \subseteq Obj /\ r.list \in [ListName -> Seq(Obj)]
                        /\ r.sweepgc \in Obj \cup {Nil}
                        /\ r.sweepgc \in Obj => \E l \in ListName : r.sweepgc \in Elems(r.list[l])
      OBVIOUS
    <3>1. ListOf(sweepgc) \in ListName
      BY <2>2, BehindType
    <3>2. \E l \in ListName : sweepgc \in Elems(list[l])
      BY <2>2
    <3> HIDE DEF r, moved
    <3>3. /\ r.dead \subseteq Obj /\ r.list \in [ListName -> Seq(Obj)] /\ r.sweepgc \in Obj \cup {Nil}
          /\ r.sweepgc \in Obj => r.sweepgc \in Elems(r.list[ListOf(sweepgc)])
      BY <3>2, SweepToLiveType DEF r
    <3> QED BY <3>1, <3>3
  <2>4. /\ lists \in [ListName -> Seq(Obj)] /\ sweepgc' \in Obj \cup ListName \cup {Nil}
        /\ sweepgc' \in Obj => \E l \in ListName : sweepgc' \in Elems(lists[l])
    <3>1. moved => sweepgc' = r.sweepgc
      BY <1>9 DEF CheckFinalizer
    <3>2. ~moved => sweepgc' = sweepgc
      BY <1>9 DEF CheckFinalizer
    <3> HIDE DEF r, moved
    <3> QED BY <2>1, <2>3, <3>1, <3>2 DEF TypeOK, SweepgcLinked
  <2>5. mark' \in [Obj -> Colours] /\ fields' \in [Obj -> SUBSET Entry]
        /\ owner' \in [Obj -> Obj \cup {Nil}] /\ mode' \in [Obj -> Modes] /\ tofin' \subseteq Obj
    <3>1. CASE moved
      <4>1. Swept(r.dead, r.live \cup {o}) /\ tofin' = (tofin \ r.dead) \cup {o}
        BY <1>9, <3>1 DEF CheckFinalizer
      <4> HIDE DEF r, moved
      <4> QED BY <2>1, <4>1, SweptType DEF TypeOK
    <3>2. CASE ~moved
      <4>1. mark' = Repainted(o) /\ tofin' = tofin \cup {o} /\ UNCHANGED <<fields, owner, mode>>
        BY <1>9, <3>2 DEF CheckFinalizer
      <4> HIDE DEF r, moved
      <4> QED BY <2>1, <4>1 DEF Repainted, TypeOK, Whites, Colours
    <3> QED BY <3>1, <3>2
  <2> HIDE DEF r, moved, lists
  <2>6. s \in Seq(Obj) /\ lists["finobj"] \in Seq(Obj) /\ Index(s, o) \in 1 .. Len(s) /\ s[Index(s, o)] = o
    <3>1. s \in Seq(Obj) /\ lists["finobj"] \in Seq(Obj)
      BY <2>4 DEF ListName
    <3> QED BY <3>1, <2>1, IndexProperties
  <2> DEFINE i == Index(s, o)
  <2> HIDE DEF s, i
  <2>7. /\ Unlinked(s, i) \in Seq(Obj) /\ Elems(s) \ {o} \subseteq Elems(Unlinked(s, i))
        /\ <<o>> \o lists["finobj"] \in Seq(Obj)
        /\ Elems(<<o>> \o lists["finobj"]) = Elems(lists["finobj"]) \cup {o}
    BY <2>1, <2>6, UnlinkedProperties, UnlinkedElems, PrependProperties DEF i
  <2>8. /\ list' \in [ListName -> Seq(Obj)] /\ list'["allgc"] = Unlinked(s, i)
        /\ list'["finobj"] = <<o>> \o lists["finobj"] /\ list'["tobefnz"] = lists["tobefnz"]
    BY <2>1, <2>4, <2>7 DEF ListName, s, i
  <2>9. SweepgcLinked'
    <3>1. \A l \in ListName : Elems(lists[l]) \subseteq UNION {Elems(list'[k]) : k \in ListName}
      BY <2>7, <2>8 DEF ListName, s
    <3> QED BY <2>4, <3>1 DEF SweepgcLinked
  <2>10. TypeOK'
    <3>1. UNCHANGED <<gcstate, currentwhite, grayVars, atomicVars, runVars>>
      BY <1>9 DEF CheckFinalizer
    <3>2. list' \in [ListName -> Seq(Obj)] /\ sweepgc' \in Obj \cup ListName \cup {Nil}
      BY <2>4, <2>8
    <3> QED BY <2>5, <3>1, <3>2 DEF TypeOK
  <2> QED BY <2>9, <2>10
<1>10. ASSUME NEW o \in Regs, Resume(o) PROVE TypeInv'
  <2>1. TypeOK'
    BY <1>10, <1>0 DEF Resume, TypeOK
  <2>2. SweepgcLinked'
    BY <1>10 DEF Resume, SweepgcLinked
  <2> QED BY <2>1, <2>2
<1>11. ASSUME NEW o \in Regs, NEW v \in Regs \cup OpenUpvals(running), SetClosure(o, v) PROVE TypeInv'
  <2>1. fields' \in [Obj -> SUBSET Entry]
    BY <1>11, <1>0 DEF SetClosure, TypeOK
  <2>2. mark' \in [Obj -> Colours] /\ gray' \subseteq Obj
    BY <1>11, <1>0, TypeBarrier DEF SetClosure
  <2>3. TypeOK'
    BY <1>11, <2>1, <2>2 DEF SetClosure, TypeOK
  <2>4. SweepgcLinked'
    BY <1>11 DEF SetClosure, SweepgcLinked
  <2> QED BY <2>3, <2>4
<1>12. ASSUME NEW o \in Regs, NEW u \in ObjOfKind({"upval"}), NEW v \in Regs, NewUpval(o, u, v) PROVE TypeInv'
  <2> o \in Obj /\ u \in Obj /\ v \in Obj /\ <<Nil, v>> \in Entry /\ <<Nil, u>> \in Entry
    BY <1>0
  <2>1. fields' \in [Obj -> SUBSET Entry] /\ owner' \in [Obj -> Obj \cup {Nil}] /\ twups' \subseteq Obj
    <3>1. /\ owner' = [owner EXCEPT ![u] = running] /\ twups' = twups \cup {running}
          /\ fields' = [fields EXCEPT ![u] = {<<Nil, v>>}, ![o] = {<<Nil, u>>},
                                      ![running] = @ \ {<<Nil, v>>}]
      BY <1>12 DEF NewUpval
    <3>2. fields' \in [Obj -> SUBSET Entry]
      BY <3>1 DEF TypeOK
    <3> QED BY <1>0, <3>1, <3>2 DEF TypeOK
  <2>2. mark' \in [Obj -> Colours] /\ gray' \subseteq Obj
    <3> DEFINE m == [mark EXCEPT ![u] = currentwhite]
               g == [mark EXCEPT ![u] = "gray"]
    <3>1. m \in [Obj -> Colours] /\ g \in Heaps
      BY DEF TypeOK, Heaps, Whites, Colours
    <3>2. [m EXCEPT ![o] = currentwhite] \in [Obj -> Colours]
      BY <3>1 DEF TypeOK, Whites, Colours
    <3>3. Marked(g, {v}) \in [Obj -> Colours] /\ Linked(g, {v}) \subseteq Obj
      <4> HIDE DEF g
      <4> QED BY <1>12, <1>0, <3>1, MarkedType DEF Heaps
    <3>4. \/ mark' = m /\ UNCHANGED gray
          \/ mark' = Marked(g, {v}) /\ gray' = gray \cup Linked(g, {v})
          \/ mark' = [m EXCEPT ![o] = currentwhite] /\ UNCHANGED gray
      BY <1>12 DEF NewUpval
    <3> QED BY <3>1, <3>2, <3>3, <3>4 DEF TypeOK
  <2>3. list' \in [ListName -> Seq(Obj)] /\ SweepgcLinked'
    BY <1>12, <1>0, TypeNewInAllgc DEF NewUpval
  <2>4. TypeOK'
    <3>1. UNCHANGED <<mode, tofin, sweepVars, grayagain, weak, ephemeron, allweak, atomicVars,
                      runVars>>
      BY <1>12 DEF NewUpval
    <3> QED BY <2>1, <2>2, <2>3, <3>1 DEF TypeOK
  <2> QED BY <2>3, <2>4
<1>13. ASSUME NEW o \in Regs, NEW u \in ObjOfKind({"upval"}), NEW v \in Regs, SetUpval(o, u, v) PROVE TypeInv'
  <2>1. fields' \in [Obj -> SUBSET Entry]
    BY <1>13, <1>0 DEF SetUpval, TypeOK
  <2>2. mark' \in [Obj -> Colours] /\ gray' \subseteq Obj
    BY <1>13, <1>0, TypeBarrier DEF SetUpval
  <2>3. TypeOK'
    BY <1>13, <2>1, <2>2 DEF SetUpval, TypeOK
  <2>4. SweepgcLinked'
    BY <1>13 DEF SetUpval, SweepgcLinked
  <2> QED BY <2>3, <2>4
<1>14. ASSUME NEW u \in OpenUpvals(running), CloseUpval(u) PROVE TypeInv'
  <2>1. mark' \in [Obj -> Colours] /\ gray' \subseteq Obj
    BY <1>14, <1>0, TypeCloseBarrier DEF CloseUpval
  <2>2. TypeOK'
    <3>1. owner' \in [Obj -> Obj \cup {Nil}]
      BY <1>14 DEF CloseUpval, TypeOK
    <3>2. UNCHANGED <<fields, mode, tofin, list, sweepVars, grayagain, weak, ephemeron, allweak,
                      twups, atomicVars, runVars>>
      BY <1>14 DEF CloseUpval
    <3> QED BY <2>1, <3>1, <3>2 DEF TypeOK
  <2>3. SweepgcLinked'
    BY <1>14 DEF CloseUpval, SweepgcLinked
  <2> QED BY <2>2, <2>3
<1>15. CASE Yield
  <2>1. TypeOK'
    BY <1>15, ConstantsAssumption DEF Yield, TypeOK, ObjOfKind
  <2>2. SweepgcLinked'
    BY <1>15 DEF Yield, SweepgcLinked
  <2> QED BY <2>1, <2>2
<1>16. CASE StopGC
  <2>1. TypeOK'
    BY <1>16, ConstantsAssumption DEF StopGC, TypeOK, ObjOfKind
  <2>2. SweepgcLinked'
    BY <1>16 DEF StopGC, SweepgcLinked
  <2> QED BY <2>1, <2>2
<1>17. CASE RestartGC
  <2>1. TypeOK'
    BY <1>17, ConstantsAssumption DEF RestartGC, TypeOK, ObjOfKind
  <2>2. SweepgcLinked'
    BY <1>17 DEF RestartGC, SweepgcLinked
  <2> QED BY <2>1, <2>2
<1>18. CASE FinalizerReturn
  <2>1. fields' \in [Obj -> SUBSET Entry]
    BY <1>18 DEF FinalizerReturn, TypeOK
  <2>2. TypeOK'
    BY <1>18, <2>1 DEF FinalizerReturn, TypeOK
  <2>3. SweepgcLinked'
    BY <1>18 DEF FinalizerReturn, SweepgcLinked
  <2> QED BY <2>2, <2>3
<1>19. ASSUME NEW b \in BOOLEAN, FullGC(b) PROVE TypeInv'
  <2> DEFINE R == [emergency : BOOLEAN, phase : {"topause", "tofinish"}]
             e == [emergency |-> b, phase |-> "topause"]
  <2>1. full' \in Seq(R)
    <3>1. full' = <<e>> \o full /\ e \in R /\ full \in Seq(R)
      BY <1>19 DEF FullGC, TypeOK
    <3> HIDE DEF R, e
    <3>2. <<e>> \in Seq(R)
      BY <3>1
    <3> QED BY <3>1, <3>2, ConcatProperties
  <2>2. /\ mark' \in [Obj -> Colours] /\ fields' \in [Obj -> SUBSET Entry]
        /\ owner' \in [Obj -> Obj \cup {Nil}] /\ mode' \in [Obj -> Modes]
        /\ tofin' \subseteq Obj /\ list' \in [ListName -> Seq(Obj)]
        /\ sweepgc' \in Obj \cup ListName \cup {Nil} /\ gcstate' \in {gcstate, "swpallgc"}
        /\ SweepgcLinked'
    <3>1. CASE EnterSweep
      BY <3>1, TypeEnterSweep DEF SweepgcLinked
    <3>2. CASE UNCHANGED <<mark, heapVars, gcstate, sweepgc>>
      BY <1>19, <3>2 DEF FullGC, TypeOK, SweepgcLinked
    <3> QED BY <1>19, <3>1, <3>2 DEF FullGC
  <2>3. TypeOK'
    BY <1>19, <2>1, <2>2 DEF FullGC, TypeOK
  <2> QED BY <2>2, <2>3
<1>20. CASE CloseState
  <2>1. fields' \in [Obj -> SUBSET Entry]
    BY <1>20, ConstantsAssumption DEF CloseState, TypeOK, ObjOfKind
  <2>2. list["finobj"] \in Seq(Obj) /\ list["tobefnz"] \in Seq(Obj) /\ list["allgc"] \in Seq(Obj)
    BY DEF TypeOK, ListName
  <2> DEFINE t == list["tobefnz"] \o list["finobj"]
  <2>3. t \in Seq(Obj) /\ Elems(t) = Elems(list["tobefnz"]) \cup Elems(list["finobj"])
    BY <2>2, ConcatElems
  <2>4. list' = [list EXCEPT !["finobj"] = <<>>, !["tobefnz"] = t]
    BY <1>20 DEF CloseState
  <2> HIDE DEF t
  <2>5. list' \in [ListName -> Seq(Obj)] /\ list'["tobefnz"] = t /\ list'["allgc"] = list["allgc"]
    <3>1. list \in [ListName -> Seq(Obj)] /\ << >> \in Seq(Obj)
      BY DEF TypeOK
    <3> QED BY <2>3, <2>4, <3>1 DEF ListName
  <2>6. TypeOK'
    BY <1>20, <2>1, <2>5 DEF CloseState, TypeOK
  <2>7. SweepgcLinked'
    BY <1>20, <2>3, <2>5 DEF CloseState, SweepgcLinked, ListName
  <2> QED BY <2>6, <2>7
<1> QED BY <1>0, <1>1, <1>2, <1>3, <1>4, <1>5, <1>6, <1>7, <1>8, <1>9, <1>10, <1>11, <1>12, <1>13, <1>14, <1>15, <1>16, <1>17, <1>18, <1>19, <1>20 DEF ProgramStep

LEMMA TypeDeleteAll == TypeInv /\ DeleteAll => TypeInv'
<1> SUFFICES ASSUME TypeInv, DeleteAll PROVE TypeInv'
  OBVIOUS
<1> USE DEF TypeInv, heapVars, grayVars, atomicVars, sweepVars, runVars
<1> DEFINE s == list["allgc"]
           n == Index(s, MainThread)
<1>1. s \in Seq(Obj) /\ n \in 1 .. Len(s) + 1
  BY IndexProperties DEF TypeOK, ListName
<1>2. SubSeq(s, n, Len(s)) \in Seq(Obj)
  BY <1>1
<1>3. list' = [list EXCEPT !["allgc"] = SubSeq(s, n, Len(s))] /\ closing' = "done"
  BY DEF DeleteAll
<1> HIDE DEF n
<1>4. list' \in [ListName -> Seq(Obj)]
  BY <1>2, <1>3 DEF TypeOK, ListName
<1>5. mark' \in [Obj -> Colours] /\ fields' \in [Obj -> SUBSET Entry]
      /\ owner' \in [Obj -> Obj \cup {Nil}] /\ mode' \in [Obj -> Modes] /\ tofin' \subseteq Obj
  BY DEF DeleteAll, TypeOK, Colours, Modes
<1>6. TypeOK'
  BY <1>4, <1>5 DEF DeleteAll, TypeOK
<1>7. SweepgcLinked'
  BY <1>3 DEF SweepgcLinked
<1> QED BY <1>6, <1>7

LEMMA TypeStutter == TypeInv /\ UNCHANGED vars => TypeInv'
  BY DEF TypeInv, TypeOK, SweepgcLinked, vars, heapVars, grayVars, atomicVars, sweepVars, runVars

\* Every reachable state of the collector has the type the program relies on,
\* and the pointer the sweep goes on from is never a field of a freed object.
THEOREM Typing == Spec => []TypeOK
<1>1. TypeInv /\ [Next]_vars => TypeInv'
  BY TypeCollector, TypeProgram, TypeDeleteAll, TypeStutter DEF Next
<1>2. TypeInv => TypeOK
  BY DEF TypeInv
<1> QED BY TypeInit, <1>1, <1>2, PTL DEF Spec
=============================================================================
