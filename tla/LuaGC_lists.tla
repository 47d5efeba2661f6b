---------------------------- MODULE LuaGC_lists -----------------------------
(***************************************************************************)
(* Theorems about the lists of all objects, and about the sweep of them.   *)
(*                                                                         *)
(* Whatever the program, the sweep, the finalizers and lua_close do, an    *)
(* object is in exactly one of allgc, finobj and tobefnz, once, and        *)
(* finalizers keep their order.  The sweep misses no object, however the   *)
(* program that runs between its steps allocates, moves and repaints.      *)
(*                                                                         *)
(* What is shown of the sweep holds while the state is open; and while it  *)
(* closes, unless an emergency collection starts in a finalizer that       *)
(* lua_close calls.  That collection finds the lists changed under the     *)
(* sweep in progress (see README.md, run gc_close_emergency).              *)
(***************************************************************************)
EXTENDS LuaGC_proofs

-----------------------------------------------------------------------------
(* Sequences without repetition *)

Distinct(s) == \A i, j \in DOMAIN s : s[i] = s[j] => i = j

\* what is left of s when its elements from n+1 to k-1 are taken out
Cut(s, n, k) == SubSeq(s, 1, n) \o SubSeq(s, k, Len(s))

LEMMA CutProperties ==
  ASSUME NEW s \in Seq(Obj), NEW n \in 0 .. Len(s), NEW k \in n+1 .. Len(s)+1
  PROVE  /\ Cut(s, n, k) \in Seq(Obj)
         /\ Len(Cut(s, n, k)) = n + Len(s) + 1 - k
         /\ \A j \in 1 .. n : Cut(s, n, k)[j] = s[j]
         /\ \A j \in n+1 .. n + Len(s) + 1 - k : Cut(s, n, k)[j] = s[j + k - 1 - n]
<1> DEFINE front == SubSeq(s, 1, n)
           back  == SubSeq(s, k, Len(s))
<1>1. /\ front \in Seq(Obj) /\ Len(front) = n
      /\ \A j \in 1 .. n : front[j] = s[j]
  BY SubSeqProperties
<1>2. /\ back \in Seq(Obj) /\ Len(back) = Len(s) + 1 - k
      /\ \A j \in 1 .. Len(s) + 1 - k : back[j] = s[k + j - 1]
  BY SubSeqProperties
<1>3. Cut(s, n, k) = front \o back
  BY DEF Cut
<1> HIDE DEF front, back
<1> DEFINE t == front \o back
<1>4. /\ t \in Seq(Obj) /\ Len(t) = n + Len(s) + 1 - k
      /\ \A j \in 1 .. n + Len(s) + 1 - k : t[j] = IF j <= n THEN front[j] ELSE back[j - n]
  <2>1. /\ t \in Seq(Obj) /\ Len(t) = Len(front) + Len(back)
        /\ \A j \in 1 .. Len(front) + Len(back) :
             t[j] = IF j <= Len(front) THEN front[j] ELSE back[j - Len(front)]
    BY <1>1, <1>2, ConcatProperties
  <2> HIDE DEF t
  <2> QED BY <1>1, <1>2, <2>1
<1> HIDE DEF t
<1>5. \A j \in 1 .. n : t[j] = s[j]
  BY <1>1, <1>4
<1>6. ASSUME NEW j \in n+1 .. n + Len(s) + 1 - k
      PROVE  t[j] = s[j + k - 1 - n]
  <2>1. t[j] = back[j - n] /\ j - n \in 1 .. Len(s) + 1 - k
    BY <1>4
  <2>2. back[j - n] = s[k + (j - n) - 1] /\ k + (j - n) - 1 = j + k - 1 - n
    BY <1>2, <2>1
  <2> QED BY <2>1, <2>2
<1> QED BY <1>3, <1>4, <1>5, <1>6 DEF t

LEMMA CutElems ==
  ASSUME NEW s \in Seq(Obj), Distinct(s), NEW n \in 0 .. Len(s), NEW k \in n+1 .. Len(s)+1
  PROVE  /\ Distinct(Cut(s, n, k))
         /\ Elems(Cut(s, n, k)) = Elems(s) \ {s[i] : i \in n+1 .. k-1}
         /\ \A x, y \in Elems(Cut(s, n, k)) : Before(Cut(s, n, k), x, y) <=> Before(s, x, y)
<1> DEFINE t == Cut(s, n, k)
           m == n + Len(s) + 1 - k
           up(j) == IF j <= n THEN j ELSE j + k - 1 - n
<1> HIDE DEF t
<1>0. /\ t \in Seq(Obj) /\ Len(t) = m
      /\ \A j \in 1 .. n : t[j] = s[j]
      /\ \A j \in n+1 .. m : t[j] = s[j + k - 1 - n]
  BY CutProperties DEF t
<1>1. /\ t \in Seq(Obj) /\ Len(t) = m /\ DOMAIN t = 1 .. m /\ DOMAIN s = 1 .. Len(s)
      /\ \A j \in 1 .. n : t[j] = s[j]
      /\ \A j \in n+1 .. m : t[j] = s[j + k - 1 - n]
  BY <1>0
<1>2. \A j \in 1 .. m : /\ up(j) \in 1 .. Len(s) /\ up(j) \notin n+1 .. k-1
                        /\ t[j] = s[up(j)]
                        /\ \A i \in 1 .. m : i < j <=> up(i) < up(j)
  BY <1>1
<1>3. \A i \in 1 .. Len(s) : i \notin n+1 .. k-1 => \E j \in 1 .. m : up(j) = i
  <2> SUFFICES ASSUME NEW i \in 1 .. Len(s), i \notin n+1 .. k-1
               PROVE  \E j \in 1 .. m : up(j) = i
    OBVIOUS
  <2>1. CASE i <= n
    BY <2>1
  <2>2. CASE i >= k
    <3>1. i + n + 1 - k \in 1 .. m /\ up(i + n + 1 - k) = i
      BY <2>2
    <3> QED BY <3>1
  <2> QED BY <2>1, <2>2
<1>4. \A i, j \in 1 .. m : up(i) = up(j) => i = j
  OBVIOUS
<1> HIDE DEF m, up
<1>5. \A i, j \in 1 .. Len(s) : s[i] = s[j] => i = j
  BY DEF Distinct
<1>6. Distinct(t)
  BY <1>1, <1>2, <1>4, <1>5 DEF Distinct
<1>7. Elems(t) = Elems(s) \ {s[i] : i \in n+1 .. k-1}
  <2>1. ASSUME NEW x \in Elems(t) PROVE x \in Elems(s) \ {s[i] : i \in n+1 .. k-1}
    <3>1. PICK j \in 1 .. m : t[j] = x
      BY <1>1, <2>1 DEF Elems
    <3>2. x = s[up(j)] /\ up(j) \in 1 .. Len(s) /\ up(j) \notin n+1 .. k-1
      BY <1>2, <3>1
    <3>3. \A i \in n+1 .. k-1 : i \in 1 .. Len(s)
      OBVIOUS
    <3>4. x \notin {s[i] : i \in n+1 .. k-1}
      BY <1>5, <3>2, <3>3
    <3> QED BY <1>1, <3>2, <3>4 DEF Elems
  <2>2. ASSUME NEW x \in Elems(s), x \notin {s[i] : i \in n+1 .. k-1} PROVE x \in Elems(t)
    <3>1. PICK i \in 1 .. Len(s) : s[i] = x
      BY <1>1 DEF Elems
    <3>2. i \notin n+1 .. k-1
      BY <3>1, <2>2
    <3>3. PICK j \in 1 .. m : up(j) = i
      BY <3>2, <1>3
    <3> QED BY <1>1, <1>2, <3>1, <3>3 DEF Elems
  <2> QED BY <2>1, <2>2
<1>8. ASSUME NEW x \in Elems(t), NEW y \in Elems(t)
      PROVE  Before(t, x, y) <=> Before(s, x, y)
  <2>1. PICK i \in 1 .. m : t[i] = x
    BY <1>1 DEF Elems
  <2>2. PICK j \in 1 .. m : t[j] = y
    BY <1>1 DEF Elems
  <2>3. x = s[up(i)] /\ y = s[up(j)] /\ up(i) \in 1 .. Len(s) /\ up(j) \in 1 .. Len(s)
    BY <1>2, <2>1, <2>2
  <2>4. Before(t, x, y) <=> i < j
    BY <1>1, <1>6, <2>1, <2>2 DEF Before, Distinct
  <2>5. Before(s, x, y) <=> up(i) < up(j)
    BY <1>1, <1>5, <2>3 DEF Before
  <2> QED BY <1>2, <2>4, <2>5
<1> QED BY <1>6, <1>7, <1>8 DEF t

LEMMA CutLast ==
  ASSUME NEW s \in Seq(Obj), s # <<>>, NEW n \in 0 .. Len(s), NEW k \in n+1 .. Len(s)+1,
         s[Len(s)] \notin {s[i] : i \in n+1 .. k-1}
  PROVE  Cut(s, n, k) # <<>> /\ Cut(s, n, k)[Len(Cut(s, n, k))] = s[Len(s)]
<1> DEFINE t == Cut(s, n, k)
           m == n + Len(s) + 1 - k
<1> HIDE DEF t
<1>1. /\ t \in Seq(Obj) /\ Len(t) = m
      /\ \A j \in 1 .. n : t[j] = s[j]
      /\ \A j \in n+1 .. m : t[j] = s[j + k - 1 - n]
  BY CutProperties DEF t
<1>2. Len(s) \in 1 .. Len(s)
  OBVIOUS
<1>3. CASE k <= Len(s)
  <2>1. m \in n+1 .. m /\ m + k - 1 - n = Len(s) /\ m >= 1
    BY <1>3
  <2> QED BY <1>1, <2>1 DEF t
<1>4. CASE k = Len(s) + 1
  <2>1. n = Len(s)
    BY <1>2, <1>4
  <2>2. m = n /\ n \in 1 .. n
    BY <1>2, <1>4, <2>1
  <2> QED BY <1>1, <2>1, <2>2 DEF t
<1> QED BY <1>3, <1>4

LEMMA ConcatOrder ==
  ASSUME NEW s \in Seq(Obj), NEW t \in Seq(Obj), Distinct(s), Distinct(t),
         Elems(s) \cap Elems(t) = {}
  PROVE  /\ Distinct(s \o t)
         /\ \A x, y : Before(s \o t, x, y) <=>
              \/ Before(s, x, y) \/ Before(t, x, y)
              \/ x \in Elems(s) /\ y \in Elems(t)
<1> DEFINE u == s \o t
           m == Len(s)
           k == Len(t)
<1>1. /\ u \in Seq(Obj) /\ Len(u) = m + k
      /\ \A j \in 1 .. m + k : u[j] = IF j <= m THEN s[j] ELSE t[j - m]
  BY ConcatProperties
<1> HIDE DEF u
<1>2. DOMAIN u = 1 .. m + k /\ DOMAIN s = 1 .. m /\ DOMAIN t = 1 .. k
  BY <1>1
<1>3. /\ m \in Nat /\ k \in Nat
      /\ \A j \in 1 .. m : j \in 1 .. m + k /\ j <= m
      /\ \A j \in 1 .. k : m + j \in 1 .. m + k /\ ~(m + j <= m) /\ (m + j) - m = j
      /\ \A j \in 1 .. m + k : IF j <= m THEN j \in 1 .. m ELSE j - m \in 1 .. k
  OBVIOUS
<1>3a. \A i, j \in 1 .. k : m + i < m + j <=> i < j
  BY <1>3
<1>4. /\ \A j \in 1 .. m : u[j] = s[j]
      /\ \A j \in 1 .. k : u[m + j] = t[j]
      /\ \A j \in 1 .. m + k : IF j <= m THEN u[j] = s[j] ELSE u[j] = t[j - m]
  BY <1>1, <1>3
<1> HIDE DEF m, k
<1>5. \A i \in 1 .. m, j \in 1 .. k : s[i] # t[j]
  BY <1>2 DEF Elems
<1>6. Distinct(u)
  <2> SUFFICES ASSUME NEW i \in 1 .. m + k, NEW j \in 1 .. m + k, u[i] = u[j]
               PROVE  i = j
    BY <1>2 DEF Distinct
  <2>1. CASE i <= m /\ j <= m
    BY <2>1, <1>2, <1>3, <1>4 DEF Distinct
  <2>2. CASE ~(i <= m) /\ ~(j <= m)
    <3>1. t[i - m] = t[j - m] /\ i - m \in 1 .. k /\ j - m \in 1 .. k
      BY <2>2, <1>3, <1>4
    <3>2. i - m = j - m
      BY <3>1, <1>2 DEF Distinct
    <3> QED BY <3>2, <1>3
  <2>3. CASE i <= m /\ ~(j <= m)
    BY <2>3, <1>3, <1>4, <1>5
  <2>4. CASE ~(i <= m) /\ j <= m
    BY <2>4, <1>3, <1>4, <1>5
  <2> QED BY <2>1, <2>2, <2>3, <2>4
<1>7. ASSUME NEW x, NEW y, Before(u, x, y)
      PROVE  Before(s, x, y) \/ Before(t, x, y) \/ (x \in Elems(s) /\ y \in Elems(t))
  <2>1. PICK i \in 1 .. m + k, j \in 1 .. m + k : i < j /\ u[i] = x /\ u[j] = y
    BY <1>7, <1>2 DEF Before
  <2>2. CASE j <= m
    <3>1. i <= m
      BY <2>1, <2>2, <1>3
    <3> QED BY <2>1, <2>2, <3>1, <1>2, <1>3, <1>4 DEF Before
  <2>3. CASE ~(j <= m) /\ ~(i <= m)
    <3> DEFINE a == i - m
               b == j - m
    <3>1. a \in 1 .. k /\ b \in 1 .. k /\ t[a] = x /\ t[b] = y
      BY <2>1, <2>3, <1>3, <1>4
    <3>2. a < b
      BY <2>1, <1>3
    <3> HIDE DEF a, b
    <3> QED BY <3>1, <3>2, <1>2 DEF Before
  <2>4. CASE ~(j <= m) /\ i <= m
    <3>1. i \in 1 .. m /\ j - m \in 1 .. k
      BY <2>4, <1>3
    <3>2. s[i] = x /\ t[j - m] = y
      BY <2>1, <2>4, <1>4
    <3> QED BY <3>1, <3>2, <1>2 DEF Elems
  <2> QED BY <2>2, <2>3, <2>4
<1>8. ASSUME NEW x, NEW y, Before(s, x, y) PROVE Before(u, x, y)
  BY <1>8, <1>2, <1>3, <1>4 DEF Before
<1>9. ASSUME NEW x, NEW y, Before(t, x, y) PROVE Before(u, x, y)
  <2>1. PICK i \in 1 .. k, j \in 1 .. k : i < j /\ t[i] = x /\ t[j] = y
    BY <1>9, <1>2 DEF Before
  <2>2. m + i < m + j /\ m + i \in 1 .. m + k /\ m + j \in 1 .. m + k
    BY <2>1, <1>3, <1>3a
  <2> DEFINE a == m + i
             b == m + j
  <2>3. u[a] = x /\ u[b] = y /\ a \in 1 .. m + k /\ b \in 1 .. m + k /\ a < b
    BY <2>1, <2>2, <1>4
  <2> HIDE DEF a, b
  <2> QED BY <2>3, <1>2 DEF Before
<1>10. ASSUME NEW x, NEW y, x \in Elems(s), y \in Elems(t) PROVE Before(u, x, y)
  <2>1. PICK i \in 1 .. m : s[i] = x
    BY <1>10, <1>2 DEF Elems
  <2>2. PICK j \in 1 .. k : t[j] = y
    BY <1>10, <1>2 DEF Elems
  <2>3. i < m + j /\ i \in 1 .. m + k /\ m + j \in 1 .. m + k
    BY <1>3
  <2> QED BY <2>1, <2>2, <2>3, <1>2, <1>4 DEF Before
<1> QED BY <1>6, <1>7, <1>8, <1>9, <1>10 DEF u

LEMMA Singleton ==
  ASSUME NEW o \in Obj
  PROVE  /\ <<o>> \in Seq(Obj) /\ Distinct(<<o>>) /\ Elems(<<o>>) = {o}
         /\ \A x, y : ~Before(<<o>>, x, y)
<1> DEFINE s == <<o>>
<1>1. s \in Seq(Obj) /\ DOMAIN s = {1} /\ s[1] = o
  OBVIOUS
<1> HIDE DEF s
<1>2. Distinct(s) /\ Elems(s) = {o}
  BY <1>1 DEF Distinct, Elems
<1>3. \A x, y : ~Before(s, x, y)
  BY <1>1 DEF Before
<1> QED BY <1>1, <1>2, <1>3 DEF s

LEMMA PrependOrder ==
  ASSUME NEW s \in Seq(Obj), NEW o \in Obj, Distinct(s), o \notin Elems(s)
  PROVE  /\ Distinct(<<o>> \o s)
         /\ \A x, y : Before(<<o>> \o s, x, y) <=> Before(s, x, y) \/ (x = o /\ y \in Elems(s))
<1>1. /\ <<o>> \in Seq(Obj) /\ Distinct(<<o>>) /\ Elems(<<o>>) = {o}
      /\ \A x, y : ~Before(<<o>>, x, y)
  BY Singleton
<1>2. Elems(<<o>>) \cap Elems(s) = {}
  BY <1>1
<1> DEFINE one == <<o>>
<1> HIDE DEF one
<1>3. /\ one \in Seq(Obj) /\ Distinct(one) /\ Elems(one) = {o} /\ \A x, y : ~Before(one, x, y)
      /\ Elems(one) \cap Elems(s) = {}
  BY <1>1, <1>2 DEF one
<1>4. /\ Distinct(one \o s)
      /\ \A x, y : Before(one \o s, x, y) <=>
              \/ Before(one, x, y) \/ Before(s, x, y)
              \/ x \in Elems(one) /\ y \in Elems(s)
  BY <1>3, ConcatOrder
<1>5. \A x, y : Before(one \o s, x, y) <=> Before(s, x, y) \/ (x = o /\ y \in Elems(s))
  BY <1>3, <1>4
<1> QED BY <1>4, <1>5 DEF one

LEMMA AppendOrder ==
  ASSUME NEW s \in Seq(Obj), NEW o \in Obj, Distinct(s), o \notin Elems(s)
  PROVE  /\ Distinct(Append(s, o))
         /\ \A x, y : Before(Append(s, o), x, y) <=> Before(s, x, y) \/ (x \in Elems(s) /\ y = o)
<1>1. /\ <<o>> \in Seq(Obj) /\ Distinct(<<o>>) /\ Elems(<<o>>) = {o}
      /\ \A x, y : ~Before(<<o>>, x, y)
  BY Singleton
<1>2. Elems(s) \cap Elems(<<o>>) = {}
  BY <1>1
<1> DEFINE one == <<o>>
<1> HIDE DEF one
<1>3. /\ one \in Seq(Obj) /\ Distinct(one) /\ Elems(one) = {o} /\ \A x, y : ~Before(one, x, y)
      /\ Elems(s) \cap Elems(one) = {} /\ Append(s, o) = s \o one
  BY <1>1, <1>2, AppendIsConcat DEF one
<1>4. /\ Distinct(s \o one)
      /\ \A x, y : Before(s \o one, x, y) <=>
              \/ Before(s, x, y) \/ Before(one, x, y)
              \/ x \in Elems(s) /\ y \in Elems(one)
  BY <1>3, ConcatOrder
<1> DEFINE u == s \o one
<1> HIDE DEF u
<1>5. Distinct(u) /\ \A x, y : Before(u, x, y) <=> Before(s, x, y) \/ (x \in Elems(s) /\ y = o)
  BY <1>3, <1>4 DEF u
<1>6. u = Append(s, o)
  BY <1>3 DEF u
<1> QED BY <1>5, <1>6, Zenon

LEMMA SuffixIsCut ==
  ASSUME NEW s \in Seq(Obj), NEW k \in 1 .. Len(s)+1
  PROVE  SubSeq(s, k, Len(s)) = Cut(s, 0, k)
<1>1. SubSeq(s, 1, 0) = <<>>
  OBVIOUS
<1>2. SubSeq(s, k, Len(s)) \in Seq(Obj)
  BY SubSeqProperties
<1> QED BY <1>1, <1>2, ConcatEmptySeq DEF Cut

LEMMA TailIsCut ==
  ASSUME NEW s \in Seq(Obj), s # <<>>
  PROVE  Tail(s) = Cut(s, 0, 2) /\ 2 \in 1 .. Len(s)+1 /\ {s[i] : i \in 1 .. 1} = {Head(s)}
<1>1. Len(s) >= 1 /\ Head(s) = s[1] /\ 2 \in 1 .. Len(s)+1
  OBVIOUS
<1>2. Tail(s) = SubSeq(s, 2, Len(s))
  BY TailIsSubSeq
<1>3. SubSeq(s, 2, Len(s)) = Cut(s, 0, 2)
  BY <1>1, SuffixIsCut
<1>4. 1 .. 1 = {1}
  OBVIOUS
<1>5. {s[i] : i \in 1 .. 1} = {Head(s)}
  BY <1>1, <1>4
<1> QED BY <1>1, <1>2, <1>3, <1>5

-----------------------------------------------------------------------------
(* The three lists L hold the objects of A, those of T in the last two *)

Lists    == [ListName -> Seq(Obj)]
Apart(L) == /\ \A l \in ListName : Distinct(L[l])
            /\ \A l, k \in ListName : l # k => Elems(L[l]) \cap Elems(L[k]) = {}
Placed(L, A, T) ==
  /\ Apart(L)
  /\ UNION {Elems(L[l]) : l \in ListName} = A
  /\ T = Elems(L["finobj"]) \cup Elems(L["tobefnz"])
  /\ L["allgc"] # <<>> /\ L["allgc"][Len(L["allgc"])] = MainThread

LEMMA ApartMeans ==
  ASSUME NEW L \in Lists
  PROVE  Apart(L) <=> \A l, k \in ListName : \A i \in DOMAIN L[l], j \in DOMAIN L[k] :
                         L[l][i] = L[k][j] => l = k /\ i = j
<1>1. ASSUME Apart(L), NEW l \in ListName, NEW k \in ListName,
             NEW i \in DOMAIN L[l], NEW j \in DOMAIN L[k], L[l][i] = L[k][j]
      PROVE  l = k /\ i = j
  <2>1. l = k
    BY <1>1 DEF Apart, Elems
  <2> QED BY <1>1, <2>1 DEF Apart, Distinct
<1>2. ASSUME \A l, k \in ListName : \A i \in DOMAIN L[l], j \in DOMAIN L[k] :
               L[l][i] = L[k][j] => l = k /\ i = j
      PROVE  Apart(L)
  BY <1>2 DEF Apart, Distinct, Elems
<1> QED BY <1>1, <1>2

LEMMA PlacedReplace ==
  ASSUME NEW L \in Lists, NEW A, NEW T, Placed(L, A, T),
         NEW b \in ListName, NEW s \in Seq(Obj), Distinct(s),
         \A l \in ListName \ {b} : Elems(s) \cap Elems(L[l]) = {},
         b = "allgc" => s # <<>> /\ s[Len(s)] = MainThread
  PROVE  /\ [L EXCEPT ![b] = s] \in Lists
         /\ Placed([L EXCEPT ![b] = s], (A \ Elems(L[b])) \cup Elems(s),
                   IF b = "allgc" THEN T ELSE (T \ Elems(L[b])) \cup Elems(s))
<1> DEFINE K == [L EXCEPT ![b] = s]
<1>1. /\ K \in Lists /\ K[b] = s
      /\ \A l \in ListName \ {b} : K[l] = L[l]
  BY DEF Lists
<1> HIDE DEF K
<1>2. Apart(K)
  BY <1>1 DEF Placed, Apart
<1>3. \A l \in ListName : Elems(K[l]) = IF l = b THEN Elems(s) ELSE Elems(L[l])
  BY <1>1
<1>4. "allgc" \in ListName /\ "finobj" \in ListName /\ "tobefnz" \in ListName
  BY DEF ListName
<1>5. \A l \in ListName \ {b} : Elems(L[l]) \cap Elems(L[b]) = {}
  BY DEF Placed, Apart
<1>6. UNION {Elems(K[l]) : l \in ListName} = (A \ Elems(L[b])) \cup Elems(s)
  <2>1. \A x : x \in UNION {Elems(K[l]) : l \in ListName} <=> \E l \in ListName : x \in Elems(K[l])
    OBVIOUS
  <2>2. \A x : x \in A <=> \E l \in ListName : x \in Elems(L[l])
    BY DEF Placed
  <2>3. \A x : x \in UNION {Elems(K[l]) : l \in ListName} <=> x \in (A \ Elems(L[b])) \cup Elems(s)
    BY <2>1, <2>2, <1>3, <1>5
  <2> QED BY <2>3
<1>7. (IF b = "allgc" THEN T ELSE (T \ Elems(L[b])) \cup Elems(s))
        = Elems(K["finobj"]) \cup Elems(K["tobefnz"])
  <2>1. T = Elems(L["finobj"]) \cup Elems(L["tobefnz"])
    BY DEF Placed
  <2>2. CASE b = "allgc"
    BY <2>1, <2>2, <1>3, <1>4
  <2>3. CASE b = "finobj"
    BY <2>1, <2>3, <1>3, <1>4, <1>5
  <2>4. CASE b = "tobefnz"
    BY <2>1, <2>4, <1>3, <1>4, <1>5
  <2> QED BY <2>2, <2>3, <2>4 DEF ListName
<1>8. K["allgc"] # <<>> /\ K["allgc"][Len(K["allgc"])] = MainThread
  <2>1. CASE b = "allgc"
    BY <2>1, <1>1
  <2>2. CASE b # "allgc"
    BY <2>2, <1>1, <1>4 DEF Placed
  <2> QED BY <2>1, <2>2
<1> QED BY <1>1, <1>2, <1>6, <1>7, <1>8 DEF Placed, K

LEMMA PlacedCut ==
  ASSUME NEW L \in Lists, NEW A, NEW T, Placed(L, A, T), NEW l \in ListName,
         NEW n \in 0 .. Len(L[l]), NEW k \in n+1 .. Len(L[l])+1,
         NEW D, D = {L[l][i] : i \in n+1 .. k-1}, MainThread \notin D
  PROVE  /\ [L EXCEPT ![l] = Cut(L[l], n, k)] \in Lists
         /\ Placed([L EXCEPT ![l] = Cut(L[l], n, k)], A \ D, T \ D)
<1> DEFINE s == L[l]
           t == Cut(s, n, k)
<1>1. s \in Seq(Obj) /\ Distinct(s)
  BY DEF Lists, Placed, Apart
<1> HIDE DEF s
<1>2. t \in Seq(Obj) /\ Distinct(t) /\ Elems(t) = Elems(s) \ D
  BY <1>1, CutProperties, CutElems DEF s
<1>3. l = "allgc" => t # <<>> /\ t[Len(t)] = MainThread
  <2> SUFFICES ASSUME l = "allgc" PROVE t # <<>> /\ t[Len(t)] = MainThread
    OBVIOUS
  <2>1. s # <<>> /\ s[Len(s)] = MainThread /\ s[Len(s)] \notin {s[i] : i \in n+1 .. k-1}
        /\ n \in 0 .. Len(s) /\ k \in n+1 .. Len(s)+1
    BY DEF Placed, s
  <2> QED BY <1>1, <2>1, CutLast
<1> HIDE DEF t
<1>4. \A k2 \in ListName \ {l} : Elems(s) \cap Elems(L[k2]) = {}
  BY DEF Placed, Apart, s
<1>5. \A k2 \in ListName \ {l} : Elems(t) \cap Elems(L[k2]) = {}
  BY <1>2, <1>4
<1>6. /\ [L EXCEPT ![l] = t] \in Lists
      /\ Placed([L EXCEPT ![l] = t], (A \ Elems(s)) \cup Elems(t),
                IF l = "allgc" THEN T ELSE (T \ Elems(s)) \cup Elems(t))
  BY <1>2, <1>3, <1>5, PlacedReplace DEF s
<1>7. D \subseteq Elems(s)
  <2>1. \A i \in n+1 .. k-1 : i \in DOMAIN s
    BY <1>1 DEF s
  <2> QED BY <2>1 DEF Elems, s
<1>8. (A \ Elems(s)) \cup Elems(t) = A \ D
  <2>1. Elems(s) \subseteq A
    BY DEF Placed, s
  <2> QED BY <1>2, <1>7, <2>1
<1>9. (IF l = "allgc" THEN T ELSE (T \ Elems(s)) \cup Elems(t)) = T \ D
  <2>1. CASE l = "allgc"
    <3>1. T = Elems(L["finobj"]) \cup Elems(L["tobefnz"])
      BY DEF Placed
    <3>2. Elems(s) \cap T = {}
      BY <2>1, <3>1, <1>4 DEF ListName
    <3> QED BY <2>1, <3>2, <1>7
  <2>2. CASE l # "allgc"
    <3>1. Elems(s) \subseteq T
      BY <2>2 DEF Placed, s, ListName
    <3> QED BY <2>2, <3>1, <1>2, <1>7
  <2> QED BY <2>1, <2>2
<1> QED BY <1>6, <1>8, <1>9 DEF t, s

LEMMA PlacedAdd ==
  ASSUME NEW L \in Lists, NEW A, NEW T, Placed(L, A, T), NEW b \in ListName,
         NEW o \in Obj, o \notin A, NEW s,
         s = <<o>> \o L[b] \/ (b # "allgc" /\ s = Append(L[b], o))
  PROVE  /\ [L EXCEPT ![b] = s] \in Lists
         /\ Placed([L EXCEPT ![b] = s], A \cup {o}, IF b = "allgc" THEN T ELSE T \cup {o})
<1> DEFINE r == L[b]
<1>1. r \in Seq(Obj) /\ Distinct(r) /\ o \notin Elems(r) /\ Elems(r) \subseteq A
  BY DEF Lists, Placed, Apart
<1>2. s \in Seq(Obj) /\ Distinct(s) /\ Elems(s) = Elems(r) \cup {o}
  <2>1. s = <<o>> \o r \/ s = Append(r, o)
    OBVIOUS
  <2> HIDE DEF r
  <2>2. CASE s = <<o>> \o r
    BY <2>2, <1>1, PrependOrder, PrependProperties
  <2>3. CASE s = Append(r, o)
    BY <2>3, <1>1, AppendOrder, AppendElems
  <2> QED BY <2>1, <2>2, <2>3
<1>3. b = "allgc" => s # <<>> /\ s[Len(s)] = MainThread
  <2> SUFFICES ASSUME b = "allgc" PROVE s # <<>> /\ s[Len(s)] = MainThread
    OBVIOUS
  <2>1. s = <<o>> \o r /\ r # <<>> /\ r[Len(r)] = MainThread
    BY DEF Placed
  <2> HIDE DEF r
  <2>2. /\ Len(s) = Len(r) + 1 /\ Len(r) >= 1
        /\ \A j \in 1 .. Len(r) + 1 : s[j] = IF j = 1 THEN o ELSE r[j - 1]
    BY <1>1, <2>1, PrependProperties
  <2>3. s[Len(r) + 1] = r[Len(r)]
    BY <2>2
  <2> QED BY <1>2, <2>1, <2>2, <2>3
<1>4. \A l \in ListName \ {b} : Elems(s) \cap Elems(L[l]) = {}
  <2>1. \A l \in ListName \ {b} : Elems(r) \cap Elems(L[l]) = {} /\ Elems(L[l]) \subseteq A
    BY DEF Placed, Apart
  <2> QED BY <1>2, <2>1
<1> HIDE DEF r
<1>5. /\ [L EXCEPT ![b] = s] \in Lists
      /\ Placed([L EXCEPT ![b] = s], (A \ Elems(r)) \cup Elems(s),
                   IF b = "allgc" THEN T ELSE (T \ Elems(r)) \cup Elems(s))
  BY <1>2, <1>3, <1>4, PlacedReplace DEF r
<1>6. (A \ Elems(r)) \cup Elems(s) = A \cup {o}
  BY <1>1, <1>2
<1>7. b # "allgc" => (T \ Elems(r)) \cup Elems(s) = T \cup {o}
  <2> SUFFICES ASSUME b # "allgc" PROVE (T \ Elems(r)) \cup Elems(s) = T \cup {o}
    OBVIOUS
  <2>1. Elems(r) \subseteq T
    BY DEF Placed, r, ListName
  <2> QED BY <1>2, <2>1
<1> QED BY <1>5, <1>6, <1>7

\* K is L after the element i of list a went to list b, to its front or, but
\* for allgc, to its end
Moved(L, K, a, i, b) ==
  /\ K \in Lists /\ a \in ListName /\ b \in ListName /\ a # b
  /\ i \in 1 .. Len(L[a]) /\ L[a][i] # MainThread
  /\ K[a] = Cut(L[a], i - 1, i + 1)
  /\ K[b] = <<L[a][i]>> \o L[b] \/ (b # "allgc" /\ K[b] = Append(L[b], L[a][i]))
  /\ \A l \in ListName \ {a, b} : K[l] = L[l]

LEMMA PlacedMove ==
  ASSUME NEW L \in Lists, NEW A, NEW T, Placed(L, A, T),
         NEW K, NEW a, NEW b, NEW i, Moved(L, K, a, i, b)
  PROVE  Placed(K, A, IF b = "allgc" THEN T \ {L[a][i]} ELSE T \cup {L[a][i]})
<1> DEFINE o == L[a][i]
           s == K[b]
<1>0. /\ K \in Lists /\ a \in ListName /\ b \in ListName /\ a # b
      /\ i \in 1 .. Len(L[a]) /\ o # MainThread
      /\ K[a] = Cut(L[a], i - 1, i + 1)
      /\ s = <<o>> \o L[b] \/ (b # "allgc" /\ s = Append(L[b], o))
      /\ \A l \in ListName \ {a, b} : K[l] = L[l]
  BY DEF Moved
<1>00. L[a] \in Seq(Obj) /\ s = K[b] /\ o = L[a][i]
  BY <1>0 DEF Lists
<1> HIDE DEF o, s
<1> DEFINE M == [L EXCEPT ![a] = Cut(L[a], i - 1, i + 1)]
<1>1. i - 1 \in 0 .. Len(L[a]) /\ i + 1 \in (i-1)+1 .. Len(L[a])+1
  BY <1>0, <1>00
<1>2. {L[a][j] : j \in (i-1)+1 .. (i+1)-1} = {o}
  <2>1. (i-1)+1 .. (i+1)-1 = {i}
    BY <1>0
  <2> QED BY <2>1, <1>00
<1>3. L[a] \in Seq(Obj) /\ o \in Obj /\ o \in Elems(L[a])
  BY <1>0, <1>00 DEF Elems
<1>4. M \in Lists /\ Placed(M, A \ {o}, T \ {o})
  <2> DEFINE D == {L[a][j] : j \in (i-1)+1 .. (i+1)-1}
  <2>1. MainThread \notin D /\ D = {o}
    BY <1>0, <1>2
  <2> HIDE DEF D
  <2>2. M \in Lists /\ Placed(M, A \ D, T \ D)
    BY <1>0, <1>1, <2>1, PlacedCut DEF D
  <2> QED BY <2>1, <2>2
<1>5. M[b] = L[b] /\ K = [M EXCEPT ![b] = s]
  <2>1. K = [l \in ListName |-> K[l]] /\ [M EXCEPT ![b] = s] = [l \in ListName |-> IF l = b THEN s ELSE M[l]]
        /\ \A l \in ListName : M[l] = IF l = a THEN Cut(L[a], i - 1, i + 1) ELSE L[l]
    BY <1>0, <1>4 DEF Lists
  <2> HIDE DEF M
  <2>2. \A l \in ListName : K[l] = IF l = b THEN s ELSE M[l]
    BY <1>0, <1>00, <2>1
  <2>3. M[b] = L[b]
    BY <1>0, <2>1
  <2> QED BY <2>1, <2>2, <2>3
<1>6. o \in A
  BY <1>0, <1>3 DEF Placed
<1> HIDE DEF M
<1>7. Placed(K, (A \ {o}) \cup {o}, IF b = "allgc" THEN T \ {o} ELSE (T \ {o}) \cup {o})
  <2> DEFINE B == A \ {o}
             U == T \ {o}
  <2>1. o \in Obj /\ o \notin B /\ M \in Lists /\ Placed(M, B, U)
        /\ (s = <<o>> \o M[b] \/ (b # "allgc" /\ s = Append(M[b], o)))
    BY <1>0, <1>3, <1>4, <1>5
  <2> HIDE DEF B, U
  <2>2. [M EXCEPT ![b] = s] \in Lists
        /\ Placed([M EXCEPT ![b] = s], B \cup {o}, IF b = "allgc" THEN U ELSE U \cup {o})
    BY <1>0, <2>1, PlacedAdd
  <2> QED BY <2>2, <1>5 DEF B, U
<1>8. (A \ {o}) \cup {o} = A /\ (T \ {o}) \cup {o} = T \cup {o}
  BY <1>6
<1> QED BY <1>00, <1>7, <1>8

LEMMA PlacedClose ==
  ASSUME NEW L \in Lists, NEW A, NEW T, Placed(L, A, T),
         NEW K, K = [L EXCEPT !["finobj"] = <<>>, !["tobefnz"] = L["tobefnz"] \o L["finobj"]]
  PROVE  K \in Lists /\ Placed(K, A, T)
<1> DEFINE f == L["finobj"]
           z == L["tobefnz"]
           M == [L EXCEPT !["finobj"] = <<>>]
<1>1. f \in Seq(Obj) /\ z \in Seq(Obj) /\ Distinct(f) /\ Distinct(z) /\ Elems(f) \cap Elems(z) = {}
      /\ "finobj" \in ListName /\ "tobefnz" \in ListName
  BY DEF Lists, ListName, Placed, Apart
<1>2. <<>> \in Seq(Obj) /\ Distinct(<<>>) /\ Elems(<<>>) = {}
  BY DEF Distinct, Elems
<1>3. M \in Lists /\ Placed(M, A \ Elems(f), T \ Elems(f))
  <2>1. M \in Lists /\ Placed(M, (A \ Elems(f)) \cup Elems(<<>>), (T \ Elems(f)) \cup Elems(<<>>))
    BY <1>1, <1>2, PlacedReplace
  <2> QED BY <2>1, <1>2
<1>4. z \o f \in Seq(Obj) /\ Distinct(z \o f) /\ Elems(z \o f) = Elems(z) \cup Elems(f)
  <2> HIDE DEF f, z
  <2> QED BY <1>1, ConcatElems, ConcatOrder
<1>5. M["tobefnz"] = z /\ M["allgc"] = L["allgc"] /\ M["finobj"] = <<>> /\ K = [M EXCEPT !["tobefnz"] = z \o f]
  <2>1. L = [l \in ListName |-> L[l]] /\ K = [L EXCEPT !["finobj"] = <<>>, !["tobefnz"] = z \o f]
    BY DEF Lists
  <2> HIDE DEF f
  <2> DEFINE c == z \o f
  <2> HIDE DEF z, c
  <2>2. K = [M EXCEPT !["tobefnz"] = c]
    BY <2>1 DEF c
  <2> QED BY <2>1, <2>2 DEF c, z, ListName
<1>6. /\ \A l \in ListName \ {"tobefnz"} : (Elems(z) \cup Elems(f)) \cap Elems(M[l]) = {}
      /\ Elems(f) \cup Elems(z) \subseteq A /\ T = Elems(f) \cup Elems(z)
  BY <1>2, <1>5 DEF Placed, Apart, ListName
<1> DEFINE c == z \o f
<1> HIDE DEF M, f, z, c
<1>7. K \in Lists /\ Placed(K, ((A \ Elems(f)) \ Elems(z)) \cup Elems(c),
                               ((T \ Elems(f)) \ Elems(z)) \cup Elems(c))
  <2>1. c \in Seq(Obj) /\ Distinct(c) /\ \A l \in ListName \ {"tobefnz"} : Elems(c) \cap Elems(M[l]) = {}
    BY <1>4, <1>6 DEF c
  <2>2. K = [M EXCEPT !["tobefnz"] = c] /\ M["tobefnz"] = z
    BY <1>5 DEF c
  <2> DEFINE B == A \ Elems(f)
             U == T \ Elems(f)
  <2>3. M \in Lists /\ Placed(M, B, U)
    BY <1>3
  <2> HIDE DEF B, U
  <2>4. [M EXCEPT !["tobefnz"] = c] \in Lists
        /\ Placed([M EXCEPT !["tobefnz"] = c], (B \ Elems(z)) \cup Elems(c), (U \ Elems(z)) \cup Elems(c))
    BY <1>1, <2>1, <2>2, <2>3, PlacedReplace
  <2> QED BY <2>2, <2>4 DEF B, U
<1>8. ((A \ Elems(f)) \ Elems(z)) \cup Elems(c) = A /\ ((T \ Elems(f)) \ Elems(z)) \cup Elems(c) = T
  BY <1>4, <1>6 DEF c
<1> QED BY <1>7, <1>8 DEF c

-----------------------------------------------------------------------------
(* Marking makes objects darker; it frees none and allocates none *)

Darker == \A o \in Obj : \/ mark'[o] = mark[o]
                         \/ mark[o] # "free" /\ mark'[o] \in {"gray", "black"}

LEMMA MarkedDarker ==
  ASSUME NEW m \in Heaps, NEW S \in SUBSET Obj
  PROVE  /\ \A o \in Obj : \/ Marked(m, S)[o] = m[o] /\ o \notin Reached(m, S)
                           \/ White(m, o) /\ o \in Reached(m, S) /\ Marked(m, S)[o] \in {"gray", "black"}
         /\ \A o \in S : ~White(Marked(m, S), o)
         /\ Reached(m, S) \subseteq {o \in Obj : White(m, o)}
         /\ Linked(m, S) \subseteq {o \in Obj : White(m, o)}
<1>1. Reached(m, S) \subseteq {o \in Obj : White(m, o)}
  BY DEF Reached
<1>2. Linked(m, S) \subseteq Reached(m, S)
  BY DEF Linked
<1>3. \A o \in Obj : Marked(m, S)[o] =
        IF o \notin Reached(m, S) THEN m[o]
        ELSE IF Kind[o] = "string" \/ (Kind[o] = "upval" /\ owner[o] = Nil)
             THEN "black" ELSE "gray"
  BY DEF Marked
<1>4. \A o \in S : White(m, o) => o \in Reached(m, S)
  BY DEF Reached
<1> QED BY <1>1, <1>2, <1>3, <1>4 DEF White, Whites

LEMMA VisitDarker ==
  ASSUME TypeInv, NEW o \in Obj, mark[o] # "free", NEW c \in {"gray", "black"},
         NEW S \in SUBSET Obj, Visit(o, c, S)
  PROVE  Darker /\ gray' \subseteq gray \cup Allocated /\ \A x \in S : mark'[x] \notin Whites
<1> DEFINE m == [mark EXCEPT ![o] = c]
<1>1. /\ m \in Heaps /\ m[o] = c /\ \A x \in Obj \ {o} : m[x] = mark[x]
      /\ mark' = Marked(m, S) /\ gray' = (gray \ {o}) \cup Linked(m, S)
  BY DEF Visit, TypeInv, TypeOK, Heaps, Colours
<1> HIDE DEF m
<1>2. /\ \A x \in Obj : \/ mark'[x] = m[x]
                        \/ White(m, x) /\ mark'[x] \in {"gray", "black"}
      /\ \A x \in S : ~White(mark', x)
      /\ Linked(m, S) \subseteq {x \in Obj : White(m, x)}
  BY <1>1, MarkedDarker
<1> QED BY <1>1, <1>2 DEF Darker, White, Whites, Allocated

LEMMA TraverseDarker ==
  ASSUME TypeInv, NEW o \in Obj, mark[o] # "free",
         TraverseStrong(o) \/ TraverseWeakValue(o) \/ TraverseEphemeron(o)
           \/ TraverseAllWeak(o) \/ TraverseThread(o)
  PROVE  /\ Darker
         /\ gray' \cup grayagain' \cup weak' \cup ephemeron' \cup allweak'
              \subseteq gray \cup grayagain \cup weak \cup ephemeron \cup allweak \cup Allocated
<1>1. Refs(o) \subseteq Obj /\ Stack(o) \cup OpenUpvals(o) \subseteq Obj
  BY RefsType DEF TypeInv
<1>2. /\ {e[1] : e \in fields[o]} \ {Nil} \subseteq Obj
      /\ {e[2] : e \in fields[o]} \ {Nil} \subseteq Obj
      /\ EphemeronMarks(o) \subseteq Obj
  BY DEF TypeInv, TypeOK, Entry, EphemeronMarks
<1>3. o \in Allocated
  BY DEF Allocated
<1>4. \A S : Strings(S) \subseteq S
  BY DEF Strings
<1>5. CASE TraverseStrong(o)
  BY <1>1, <1>5, VisitDarker DEF TraverseStrong
<1>6. CASE TraverseWeakValue(o)
  <2> DEFINE keys   == {e[1] : e \in fields[o]} \ {Nil}
             values == {e[2] : e \in fields[o]} \ {Nil}
  <2>1. PICK S \in SUBSET Obj : Visit(o, "gray", S)
    <3>1. keys \in SUBSET Obj /\ keys \cup Strings(values) \in SUBSET Obj
      BY <1>2, <1>4
    <3>2. Visit(o, "gray", keys) \/ Visit(o, "gray", keys \cup Strings(values))
      BY <1>6 DEF TraverseWeakValue
    <3> HIDE DEF keys, values
    <3> QED BY <3>1, <3>2
  <2>2. /\ weak' \subseteq weak \cup {o} /\ grayagain' \subseteq grayagain \cup {o}
        /\ UNCHANGED <<ephemeron, allweak>>
    BY <1>6 DEF TraverseWeakValue
  <2> QED BY <1>3, <2>1, <2>2, VisitDarker
<1>7. CASE TraverseEphemeron(o)
  <2> DEFINE keys == {e[1] : e \in fields[o]} \ {Nil}
  <2>1. PICK S \in SUBSET Obj, c \in {"gray", "black"} : Visit(o, c, S)
    <3>1. EphemeronMarks(o) \cup Strings(keys) \in SUBSET Obj
      BY <1>2, <1>4
    <3> DEFINE S == EphemeronMarks(o) \cup Strings(keys)
    <3>2. Visit(o, "gray", S) \/ Visit(o, "black", S)
      BY <1>7 DEF TraverseEphemeron
    <3> HIDE DEF S
    <3> QED BY <3>1, <3>2 DEF S
  <2>2. /\ ephemeron' \subseteq ephemeron \cup {o} /\ grayagain' \subseteq grayagain \cup {o}
        /\ allweak' \subseteq allweak \cup {o} /\ UNCHANGED weak
    BY <1>7 DEF TraverseEphemeron
  <2> QED BY <1>3, <2>1, <2>2, VisitDarker
<1>8. CASE TraverseAllWeak(o)
  BY <1>3, <1>8, VisitDarker DEF TraverseAllWeak
<1>9. CASE TraverseThread(o)
  BY <1>1, <1>3, <1>9, VisitDarker DEF TraverseThread
<1> QED BY <1>5, <1>6, <1>7, <1>8, <1>9

LEMMA MarkDarker ==
  ASSUME TypeInv, NEW S \in SUBSET Obj, mark' = Marked(mark, S)
  PROVE  /\ Darker /\ \A x \in S : mark'[x] \notin Whites
         /\ Linked(mark, S) \subseteq Allocated
<1>1. mark \in Heaps
  BY DEF TypeInv, TypeOK, Heaps
<1>2. /\ \A x \in Obj : \/ mark'[x] = mark[x]
                        \/ White(mark, x) /\ mark'[x] \in {"gray", "black"}
      /\ \A x \in S : ~White(mark', x)
      /\ Linked(mark, S) \subseteq {x \in Obj : White(mark, x)}
  BY <1>1, MarkedDarker
<1> QED BY <1>2 DEF Darker, White, Whites, Allocated

LEMMA ClearByDarker ==
  ASSUME TypeInv, NEW V \in SUBSET Obj, NEW K \in SUBSET Obj, ClearBy(V, K)
  PROVE  Darker
<1> DEFINE S == Strings((UNION {{e[2] : e \in fields[t]} : t \in V})
                        \cup (UNION {{e[1] : e \in fields[t]} : t \in K}))
<1>1. S \in SUBSET Obj /\ mark' = Marked(mark, S)
  BY DEF ClearBy, Strings, ObjOfKind
<1> HIDE DEF S
<1> QED BY <1>1, MarkDarker

LEMMA DarkerMeans ==
  ASSUME Darker
  PROVE  /\ Allocated' = Allocated
         /\ \A o \in Obj : /\ mark'[o] = "free" <=> mark[o] = "free"
                           /\ mark[o] \notin Whites => mark'[o] \notin Whites
                           /\ \A w \in Whites : mark[o] # w => mark'[o] # w
  BY DEF Darker, Allocated, Whites

-----------------------------------------------------------------------------
(* Sweeping *)

LEMMA SweepToLiveCut ==
  ASSUME TypeOK, NEW p, p \in ListName \/ \E l \in ListName : p \in Elems(list[l])
  PROVE  \E k \in Behind(p)+1 .. Len(list[ListOf(p)])+1 :
           LET s == list[ListOf(p)]
               n == Behind(p)
               r == SweepToLive(p)
           IN  /\ r.list = [list EXCEPT ![ListOf(p)] = Cut(s, n, k)]
               /\ r.dead = {s[i] : i \in n+1 .. k-1}
               /\ \A i \in n+1 .. k-1 : IsDead(s[i])
               /\ k <= Len(s) => ~IsDead(s[k])
               /\ r.live = IF k <= Len(s) THEN {s[k]} ELSE {}
               /\ r.sweepgc = IF k >= Len(s) THEN Nil ELSE s[k]
<1> DEFINE l == ListOf(p)
           s == list[l]
           n == Behind(p)
           r == SweepToLive(p)
           live == {i \in n+1 .. Len(s) : ~IsDead(s[i])}
           stop == IF live = {} THEN Len(s) + 1
                   ELSE CHOOSE i \in live : \A j \in live : i <= j
<1>1. l \in ListName /\ n \in 0 .. Len(s) /\ s \in Seq(Obj)
  BY BehindType DEF TypeOK
<1>2. /\ stop \in n+1 .. Len(s)+1
      /\ \A i \in n+1 .. stop-1 : IsDead(s[i])
      /\ stop <= Len(s) => ~IsDead(s[stop])
      /\ {s[i] : i \in live \cap {stop}} = IF stop <= Len(s) THEN {s[stop]} ELSE {}
  <2>1. CASE live = {}
    BY <1>1, <2>1
  <2>2. CASE live # {}
    <3>1. live \in SUBSET Nat
      BY <1>1
    <3>2. \E i \in live : \A j \in live : i <= j
      <4> HIDE DEF live
      <4> QED BY <3>1, <2>2, SmallestElement
    <3>3. stop \in live /\ \A j \in live : stop <= j
      BY <3>2, <2>2
    <3>4. stop \in n+1 .. Len(s) /\ ~IsDead(s[stop])
      BY <3>3
    <3> HIDE DEF stop
    <3>5. \A i \in n+1 .. stop-1 : i \in n+1 .. Len(s) /\ ~(stop <= i)
      BY <3>4, <1>1
    <3>6. \A i \in n+1 .. stop-1 : IsDead(s[i])
      BY <3>3, <3>5
    <3>7. live \cap {stop} = {stop}
      BY <3>3
    <3> QED BY <3>4, <3>6, <3>7, <1>1
  <2> QED BY <2>1, <2>2
<1>3. r = [dead    |-> {s[i] : i \in n+1 .. stop-1},
           live    |-> {s[i] : i \in live \cap {stop}},
           sweepgc |-> IF stop >= Len(s) THEN Nil ELSE s[stop],
           list    |-> [list EXCEPT ![l] = Cut(s, n, stop)]]
  BY DEF SweepToLive, Cut
<1> HIDE DEF r, live, stop
<1>4. /\ r.list = [list EXCEPT ![l] = Cut(s, n, stop)]
      /\ r.dead = {s[i] : i \in n+1 .. stop-1}
      /\ r.live = IF stop <= Len(s) THEN {s[stop]} ELSE {}
      /\ r.sweepgc = IF stop >= Len(s) THEN Nil ELSE s[stop]
  BY <1>2, <1>3
<1> QED BY <1>2, <1>4 DEF r

\* the state of a sweep step, its lists and colours, whatever starts it
LEMMA SweepToLivePlaced ==
  ASSUME TypeOK, Placed(list, Allocated, tofin), ~IsDead(MainThread),
         NEW p, p \in ListName \/ \E l \in ListName : p \in Elems(list[l]),
         NEW r, r = SweepToLive(p)
  PROVE  /\ r.list \in Lists /\ Placed(r.list, Allocated \ r.dead, tofin \ r.dead)
         /\ \A o \in r.dead : IsDead(o) /\ o \in Allocated
         /\ r.dead \cap r.live = {} /\ r.live \subseteq Allocated
         /\ \A o \in r.live : ~IsDead(o)
         /\ r.dead \cup r.live \subseteq Elems(list[ListOf(p)])
         /\ Elems(r.list[ListOf(p)]) = Elems(list[ListOf(p)]) \ r.dead
         /\ \A l \in ListName \ {ListOf(p)} : r.list[l] = list[l]
<1> DEFINE l == ListOf(p)
           s == list[l]
           n == Behind(p)
<1>1. l \in ListName /\ n \in 0 .. Len(s) /\ s \in Seq(Obj) /\ list \in Lists
  BY BehindType DEF TypeOK, Lists
<1>2. PICK k \in n+1 .. Len(s)+1 :
         /\ r.list = [list EXCEPT ![l] = Cut(s, n, k)]
         /\ r.dead = {s[i] : i \in n+1 .. k-1}
         /\ \A i \in n+1 .. k-1 : IsDead(s[i])
         /\ k <= Len(s) => ~IsDead(s[k])
         /\ r.live = IF k <= Len(s) THEN {s[k]} ELSE {}
         /\ r.sweepgc = IF k >= Len(s) THEN Nil ELSE s[k]
  BY SweepToLiveCut
<1> HIDE DEF n, l
<1>3. \A i \in n+1 .. k-1 : i \in 1 .. Len(s)
  BY <1>1
<1>4. k <= Len(s) => k \in 1 .. Len(s)
  BY <1>1
<1>5. r.dead \cup r.live \subseteq Elems(s)
  BY <1>1, <1>2, <1>3, <1>4 DEF Elems
<1>6. Elems(s) \subseteq Allocated /\ Distinct(s)
  BY <1>1 DEF Placed, Apart
<1>7. \A o \in r.dead : IsDead(o)
  BY <1>2
<1>8. \A o \in r.live : ~IsDead(o)
  BY <1>2
<1>9. MainThread \notin r.dead
  BY <1>7
<1>10. r.list \in Lists /\ Placed(r.list, Allocated \ r.dead, tofin \ r.dead)
  <2> DEFINE D == r.dead
  <2>1. D = {s[i] : i \in n+1 .. k-1} /\ MainThread \notin D
    BY <1>2, <1>9
  <2> HIDE DEF D
  <2>2. [list EXCEPT ![l] = Cut(s, n, k)] \in Lists
        /\ Placed([list EXCEPT ![l] = Cut(s, n, k)], Allocated \ D, tofin \ D)
    BY <1>1, <2>1, PlacedCut
  <2> QED BY <2>2, <1>2 DEF D
<1>11. Elems(Cut(s, n, k)) = Elems(s) \ r.dead
  <2> HIDE DEF s
  <2> QED BY <1>1, <1>2, <1>6, CutElems
<1>12. r.list[l] = Cut(s, n, k) /\ \A j \in ListName \ {l} : r.list[j] = list[j]
  BY <1>1, <1>2 DEF Lists
<1> QED BY <1>5, <1>6, <1>7, <1>8, <1>10, <1>11, <1>12 DEF l

LEMMA SweptMarks ==
  ASSUME TypeOK, \A o \in Obj : mark[o] = "free" => owner[o] = Nil,
         NEW D \in SUBSET Obj, NEW W \in SUBSET Allocated, Swept(D, W)
  PROVE  /\ Allocated' = Allocated \ D
         /\ \A o \in Obj : mark'[o] = "free" => owner'[o] = Nil
         /\ \A o \in Obj \ D : \/ mark'[o] = mark[o] /\ o \notin W
                               \/ o \in W /\ mark'[o] = currentwhite
                               \/ ~IsWhite(o) /\ mark[o] # "free"
                                  /\ mark'[o] \in {currentwhite, "black"}
<1>1. \A o \in Obj : owner[o] \in D => mark[o] # "free"
  BY ConstantsAssumption
<1>2. \A o \in Obj : mark'[o] =
       IF o \in D THEN "free"
       ELSE IF o \in W THEN currentwhite
       ELSE IF owner[o] \in D /\ ~IsWhite(o)
            THEN IF \E v \in Refs(o) : IsWhite(v) THEN currentwhite ELSE "black"
       ELSE mark[o]
  BY DEF Swept
<1>3. \A o \in Obj : owner'[o] = IF o \in D \/ owner[o] \in D THEN Nil ELSE owner[o]
  BY DEF Swept
<1>4. \A o \in W : mark[o] # "free"
  BY DEF Allocated
<1>5. currentwhite # "free"
  BY DEF TypeOK, Whites
<1>6. \A o \in Obj \ D : \/ mark'[o] = mark[o] /\ o \notin W
                         \/ o \in W /\ mark'[o] = currentwhite
                         \/ ~IsWhite(o) /\ mark[o] # "free" /\ mark'[o] \in {currentwhite, "black"}
  BY <1>1, <1>2
<1>7. Allocated' = Allocated \ D
  BY <1>2, <1>4, <1>5, <1>6 DEF Allocated
<1>8. \A o \in Obj : mark'[o] = "free" => owner'[o] = Nil
  BY <1>2, <1>3, <1>4, <1>5, <1>6
<1> QED BY <1>6, <1>7, <1>8

-----------------------------------------------------------------------------
(* Who runs when: atomic() is not interrupted; finalizers run between        *)
(* cycles, or in an emergency's shadow, or when the state closes; once it    *)
(* closes, nothing but an emergency collects.                                *)

Control ==
  /\ gcstate = "atomic" <=> at # "no"
  /\ again # {} => at \in {"propagate", "remark"}
  /\ todo # {} => at \in {"converge1", "converge2"}
  /\ finalizing = "loop" => at = "no" /\ ~InEmergency
  /\ finalizing = "call" => "gc" \in gcstp
  /\ closing = "no" /\ finalizing # "no" /\ ~InEmergency => gcstate \in {"callfin", "pause"}
  /\ closing # "no" => "close" \in Features /\ "cls" \in gcstp
  /\ closing = "finalizers" => finalizing # "no"
  /\ closing = "done" => at = "no"
  /\ closing # "no" /\ "emergency" \notin Features => full = <<>> /\ at = "no"
  /\ \A i \in 1 .. Len(full) : full[i].emergency => "emergency" \in Features

LEMMA ControlInit == Init => Control
  BY DEF Init, Control, InEmergency

LEMMA ControlCollector == TypeInv /\ Control /\ CollectorStep => Control'
<1> SUFFICES ASSUME TypeInv, Control, CollectorStep PROVE Control'
  OBVIOUS
<1> USE DEF heapVars, grayVars, atomicVars, sweepVars, runVars
<1>0. full \in Seq([emergency : BOOLEAN, phase : {"topause", "tofinish"}])
  BY DEF TypeInv, TypeOK
<1>1. CASE RestartCollection
  <2>2. \A i \in 1 .. Len(full) : full[i] \in [emergency : BOOLEAN, phase : {"topause", "tofinish"}]
    BY <1>0, ElementOfSeq
  <2>3. /\ Len(full') = Len(full) /\ (full' = <<>> <=> full = <<>>)
        /\ \A i \in 1 .. Len(full) : full'[i].emergency = full[i].emergency
    <3>1. CASE full = <<>>
      BY <1>1, <3>1 DEF RestartCollection
    <3>2. CASE full # <<>>
      <4>0. full' = [full EXCEPT ![1] = [full[1] EXCEPT !.phase = "tofinish"]]
        BY <1>1, <3>2 DEF RestartCollection
      <4>1. Len(full) >= 1 /\ 1 \in 1 .. Len(full)
        BY <1>0, <3>2
      <4>2. Len(full') = Len(full) /\ full' # <<>>
        BY <1>0, <4>0, <3>2, <4>1
      <4>3. full'[1] = [full[1] EXCEPT !.phase = "tofinish"]
            /\ \A i \in 1 .. Len(full) : i # 1 => full'[i] = full[i]
        BY <1>0, <4>0, <3>2, <4>1
      <4>4. full'[1].emergency = full[1].emergency
        BY <2>2, <4>1, <4>3
      <4> QED BY <3>2, <4>2, <4>3, <4>4
    <3> QED BY <3>1, <3>2
  <2>4. InEmergency' = InEmergency
    <3>1. full # <<>> => 1 \in 1 .. Len(full) /\ Head(full) = full[1]
      BY <1>0
    <3>2. full' # <<>> => Head(full') = full'[1]
      BY <1>0
    <3> QED BY <2>3, <3>1, <3>2 DEF InEmergency
  <2> QED BY <1>1, <2>3, <2>4 DEF RestartCollection, Control, CollectorRuns
<1>2. CASE Propagate
  BY <1>2 DEF Propagate, Control, CollectorRuns, InEmergency
<1>3. CASE EnterAtomic
  BY <1>3 DEF EnterAtomic, Control, CollectorRuns, InEmergency
<1>4. CASE AtomicStart
  BY <1>4 DEF AtomicStart, Control, CollectorRuns, InEmergency
<1>5. CASE AtomicPropagate
  BY <1>5 DEF AtomicPropagate, Control, CollectorRuns, InEmergency
<1>6. CASE AtomicRemarkUpvals
  BY <1>6 DEF AtomicRemarkUpvals, AtomicAt, Control, CollectorRuns, InEmergency
<1>7. CASE AtomicGrayAgain
  BY <1>7 DEF AtomicGrayAgain, AtomicAt, Control, CollectorRuns, InEmergency
<1>8. CASE ConvergePass
  BY <1>8 DEF ConvergePass, AtomicAt, Control, CollectorRuns, InEmergency
<1>9. ASSUME NEW o \in Obj, ConvergeVisit(o) PROVE Control'
  BY <1>9 DEF ConvergeVisit, AtomicAt, Control, CollectorRuns, InEmergency
<1>10. CASE AtomicClearValues
  BY <1>10 DEF AtomicClearValues, Converged, AtomicAt, Control, CollectorRuns, InEmergency
<1>11. CASE AtomicSeparate
  BY <1>11 DEF AtomicSeparate, Control, CollectorRuns, InEmergency
<1>12. CASE AtomicMarkBeingFnz
  BY <1>12 DEF AtomicMarkBeingFnz, Control, CollectorRuns, InEmergency
<1>13. CASE AtomicClearKeys
  BY <1>13 DEF AtomicClearKeys, Converged, AtomicAt, Control, CollectorRuns, InEmergency
<1>14. CASE AtomicEnd
  BY <1>14 DEF AtomicEnd, EnterSweep, Control, CollectorRuns, InEmergency
<1>15. CASE SweepObject
  BY <1>15 DEF SweepObject, Control, CollectorRuns, InEmergency
<1>16. CASE SweepNothing
  BY <1>16 DEF SweepNothing, Control, CollectorRuns, InEmergency
<1>17. CASE SweepNext
  BY <1>17 DEF SweepNext, Control, CollectorRuns, InEmergency
<1>18. CASE CallFinalizer
  BY <1>18 DEF CallFinalizer, GCTM, Control, CollectorRuns, InEmergency
<1>19. CASE NextFinalizer
  BY <1>19 DEF NextFinalizer, GCTM, Control, CollectorRuns, InEmergency
<1>20. CASE FinalizersEnd
  BY <1>20 DEF FinalizersEnd, Control, CollectorRuns, InEmergency
<1>21. CASE FinishCycle
  BY <1>21 DEF FinishCycle, Control, CollectorRuns, InEmergency
<1>22. CASE FullGCEnd
  BY <1>22, <1>0 DEF FullGCEnd, Control, CollectorRuns, InEmergency
<1> QED BY <1>1, <1>2, <1>3, <1>4, <1>5, <1>6, <1>7, <1>8, <1>9, <1>10, <1>11, <1>12, <1>13, <1>14, <1>15, <1>16, <1>17, <1>18, <1>19, <1>20, <1>21, <1>22 DEF CollectorStep

LEMMA ControlProgram == TypeInv /\ Control /\ ProgramStep => Control'
<1> SUFFICES ASSUME TypeInv, Control, ProgramStep PROVE Control'
  OBVIOUS
<1> USE DEF heapVars, grayVars, atomicVars, sweepVars, runVars
<1>0. full \in Seq([emergency : BOOLEAN, phase : {"topause", "tofinish"}])
  BY DEF TypeInv, TypeOK
<1>a. UNCHANGED <<full, finalizing, gcstp, closing, at, again, todo, gcstate>> => Control'
  BY DEF Control, InEmergency
<1>b. gcstp \subseteq {"usr", "gc", "cls"}
  BY DEF TypeInv, TypeOK
<1>1. ASSUME NEW o \in Obj, NewObject(o) \/ InternString(o) PROVE Control'
  BY <1>1, <1>a DEF NewObject, InternString
<1>2. ASSUME NEW v, Pop(v) PROVE Control'
  BY <1>2, <1>a DEF Pop
<1>3. ASSUME NEW o, NEW v, Load(o, v) \/ Transfer(o, v) PROVE Control'
  BY <1>3, <1>a DEF Load, Transfer
<1>4. ASSUME NEW o, NEW e, SetField(o, e) \/ ClearField(o, e) \/ SetMode(o, e) PROVE Control'
  BY <1>4, <1>a DEF SetField, ClearField, SetMode
<1>5. ASSUME NEW o, CheckFinalizer(o) PROVE Control'
  BY <1>5, <1>a DEF CheckFinalizer
<1>6. ASSUME NEW o, Resume(o) PROVE Control'
  BY <1>6, <1>a DEF Resume
<1>7. ASSUME NEW o, NEW v, SetClosure(o, v) PROVE Control'
  BY <1>7, <1>a DEF SetClosure
<1>8. ASSUME NEW o, NEW u, NEW v, NewUpval(o, u, v) \/ SetUpval(o, u, v) PROVE Control'
  BY <1>8, <1>a DEF NewUpval, SetUpval
<1>9. ASSUME NEW u, CloseUpval(u) PROVE Control'
  BY <1>9, <1>a DEF CloseUpval
<1>10. CASE Yield
  BY <1>10, <1>a DEF Yield
<1>11. CASE StopGC
  BY <1>11 DEF StopGC, Control, InEmergency
<1>12. CASE RestartGC
  BY <1>12 DEF RestartGC, Control, InEmergency
<1>13. CASE FinalizerReturn
  BY <1>13 DEF FinalizerReturn, ProgramRuns, Control, InEmergency
<1>14. ASSUME NEW b \in BOOLEAN, FullGC(b) PROVE Control'
  <2> DEFINE e == [emergency |-> b, phase |-> "topause"]
  <2>1. full' = <<e>> \o full /\ ProgramRuns
        /\ IF b THEN "emergency" \in Features ELSE gcstp \cap {"gc", "cls"} = {}
    BY <1>14 DEF FullGC
  <2>2. Head(full') = e /\ full' # <<>> /\ Len(full') = Len(full) + 1
        /\ \A i \in 1 .. Len(full) + 1 : full'[i] = IF i = 1 THEN e ELSE full[i - 1]
    <3> HIDE DEF e
    <3> QED BY <1>0, <2>1
  <2>3. InEmergency' = b
    BY <2>2 DEF InEmergency
  <2>4. \A i \in 1 .. Len(full') : full'[i].emergency => "emergency" \in Features
    <3> SUFFICES ASSUME NEW i \in 1 .. Len(full) + 1, full'[i].emergency
                 PROVE  "emergency" \in Features
      BY <2>2
    <3>1. CASE i = 1
      BY <3>1, <2>1, <2>2
    <3>2. CASE i # 1
      <4>1. i - 1 \in 1 .. Len(full) /\ full'[i] = full[i - 1]
        BY <2>2, <3>2, <1>0
      <4> QED BY <4>1 DEF Control
    <3> QED BY <3>1, <3>2
  <2>5. gcstate' = IF KeepInvariant THEN "swpallgc" ELSE gcstate
    BY <1>14 DEF FullGC, EnterSweep
  <2>6. at = "no" /\ UNCHANGED <<at, again, todo, gcstp, finalizing, closing>>
        /\ finalizing # "loop"
    BY <1>14 DEF FullGC, ProgramRuns
  <2>7. b \/ (finalizing = "no" /\ closing = "no")
    BY <2>1, <2>6 DEF Control, ProgramRuns, TypeInv, TypeOK
  <2>8. closing # "no" /\ "emergency" \notin Features => full' = <<>>
    BY <2>1, <2>7
  <2> QED BY <2>3, <2>4, <2>5, <2>6, <2>7, <2>8 DEF Control, KeepInvariant
<1>15. CASE CloseState
  BY <1>15, <1>b DEF CloseState, ProgramRuns, Control, InEmergency
<1> QED BY <1>1, <1>2, <1>3, <1>4, <1>5, <1>6, <1>7, <1>8, <1>9, <1>10, <1>11, <1>12, <1>13, <1>14, <1>15 DEF ProgramStep

LEMMA ControlRest == TypeInv /\ Control /\ (DeleteAll \/ UNCHANGED vars) => Control'
<1> USE DEF heapVars, grayVars, atomicVars, sweepVars, runVars
<1>1. Control /\ DeleteAll => Control'
  BY DEF DeleteAll, Control, InEmergency
<1>2. Control /\ UNCHANGED vars => Control'
  BY DEF vars, Control, InEmergency
<1> QED BY <1>1, <1>2

-----------------------------------------------------------------------------
(* Where objects are: what makes Partition inductive *)

Grays == gray \cup grayagain \cup weak \cup ephemeron \cup allweak \cup again \cup todo

MainKept == /\ KeepInvariant => ~IsWhite(MainThread)
            /\ IsSweepPhase => ~IsDead(MainThread)

Placement ==
  /\ Placed(list, Allocated, tofin)
  /\ tofin \subseteq Finalizable
  /\ \A o \in Obj : mark[o] = "free" => owner[o] = Nil
  /\ KeepInvariant /\ closing # "done" => Grays \subseteq Allocated
  /\ MainKept

LEMMA MainThreadPlaced ==
  ASSUME TypeInv, Placement
  PROVE  /\ MainThread \in Allocated /\ MainThread \in Obj /\ mark[MainThread] # "free"
         /\ MainThread \notin tofin /\ list \in Lists
         /\ \A l \in ListName : list[l] \in Seq(Obj) /\ Elems(list[l]) \subseteq Allocated
<1>1. list \in Lists
  BY DEF TypeInv, TypeOK, Lists
<1>2. \A l \in ListName : list[l] \in Seq(Obj) /\ Elems(list[l]) \subseteq Allocated
  BY <1>1 DEF Placement, Placed, Lists
<1> DEFINE s == list["allgc"]
<1>3. s \in Seq(Obj) /\ s # <<>> /\ s[Len(s)] = MainThread /\ Elems(s) \subseteq Allocated
  BY <1>2 DEF Placement, Placed, ListName
<1> HIDE DEF s
<1>4. Len(s) \in DOMAIN s
  BY <1>3
<1>5. MainThread \in Allocated
  BY <1>3, <1>4 DEF Elems
<1>6. MainThread \notin Finalizable
  BY ConstantsAssumption DEF ObjOfKind
<1> QED BY <1>1, <1>2, <1>5, <1>6 DEF Placement, Allocated

LEMMA PlacementInit == Init => Placement
<1> SUFFICES ASSUME Init PROVE Placement
  OBVIOUS
<1> DEFINE start == {MainThread} \cup RootTables
<1>1. RootTables \subseteq Obj /\ MainThread \in Obj /\ Nil \notin Obj /\ MainThread \notin RootTables
  BY ConstantsAssumption DEF ObjOfKind
<1>2. Cardinality(RootTables) \in Nat /\ IsFiniteSet(RootTables)
  BY <1>1, FS_CardinalityType, FS_Subset, ConstantsAssumption
<1>3. PICK s \in [1 .. Cardinality(RootTables) -> RootTables] :
        /\ Elems(s) = RootTables
        /\ list = [l \in ListName |-> IF l = "allgc" THEN Append(s, MainThread) ELSE <<>>]
  BY DEF Init
<1>4. s \in Seq(Obj) /\ Len(s) = Cardinality(RootTables)
  BY <1>1, <1>2
<1>5. Distinct(s)
  <2> DEFINE n == Cardinality(RootTables)
  <2>1. IsFiniteSet(1 .. n) /\ Cardinality(1 .. n) = n
    BY <1>2, FS_Interval
  <2>2. s \in Surjection(1 .. n, RootTables)
    BY <1>3 DEF Elems, Surjection
  <2>3. s \in Injection(1 .. n, RootTables)
    BY <1>2, <2>1, <2>2, FS_SurjCardinalityBound, FS_SurjSameCardinalityImpliesInj
  <2> QED BY <2>3, <1>4 DEF Injection, IsInjective, Distinct
<1> DEFINE t == Append(s, MainThread)
<1>6. t \in Seq(Obj) /\ Distinct(t) /\ Elems(t) = start
      /\ t # <<>> /\ t[Len(t)] = MainThread
  <2>1. MainThread \notin Elems(s)
    BY <1>1, <1>3
  <2>2. t # <<>> /\ t[Len(t)] = MainThread
    BY <1>1, <1>4
  <2> QED BY <1>1, <1>3, <1>4, <1>5, <2>1, <2>2, AppendOrder, AppendElems
<1>7. Distinct(<<>>) /\ Elems(<<>>) = {}
  BY DEF Distinct, Elems
<1> HIDE DEF t
<1>8. /\ list["allgc"] = t /\ list["finobj"] = <<>> /\ list["tobefnz"] = <<>>
      /\ \A l \in ListName : list[l] = IF l = "allgc" THEN t ELSE <<>>
  BY <1>3 DEF ListName, t
<1>9. Apart(list)
  BY <1>6, <1>7, <1>8 DEF Apart
<1>10. Allocated = start
  BY <1>1 DEF Init, Allocated
<1>11. UNION {Elems(list[l]) : l \in ListName} = start
  <2>1. "allgc" \in ListName
    BY DEF ListName
  <2>2. \A l \in ListName : Elems(list[l]) \subseteq start
    BY <1>6, <1>7, <1>8
  <2>3. Elems(list["allgc"]) = start
    BY <1>6, <1>8
  <2>4. \A x : x \in UNION {Elems(list[l]) : l \in ListName} <=> \E l \in ListName : x \in Elems(list[l])
    OBVIOUS
  <2>5. \A x : x \in UNION {Elems(list[l]) : l \in ListName} <=> x \in start
    BY <2>1, <2>2, <2>3, <2>4
  <2> QED BY <2>5
<1>12. Placed(list, Allocated, tofin)
  BY <1>6, <1>7, <1>8, <1>9, <1>10, <1>11 DEF Placed, Init
<1> QED BY <1>12 DEF Init, Placement, MainKept, KeepInvariant, IsSweepPhase

\* a step that gives no list another content
LEMMA PlacementFrame ==
  ASSUME TypeInv, Placement, UNCHANGED <<list, tofin, closing>>, Allocated' = Allocated,
         \A o \in Obj : mark'[o] = "free" => owner'[o] = Nil,
         KeepInvariant' => KeepInvariant,
         KeepInvariant' /\ closing # "done" => Grays' \subseteq Grays \cup Allocated,
         MainKept'
  PROVE  Placement'
  BY DEF Placement

LEMMA PlacementDarker ==
  ASSUME TypeInv, Placement, UNCHANGED <<list, tofin, closing, owner>>, Darker,
         KeepInvariant, KeepInvariant',
         Grays' \subseteq Grays \cup Allocated
  PROVE  Placement'
<1>1. Allocated' = Allocated /\ \A o \in Obj : mark'[o] = "free" <=> mark[o] = "free"
  BY DarkerMeans
<1>2. MainKept'
  <2>1. ~IsWhite(MainThread)' /\ ~IsSweepPhase'
    BY DarkerMeans, MainThreadPlaced DEF Placement, MainKept, IsWhite, White, KeepInvariant, IsSweepPhase
  <2> QED BY <2>1 DEF MainKept
<1> QED BY <1>1, <1>2, PlacementFrame DEF Placement

LEMMA PlacementEnterSweep ==
  ASSUME TypeInv, Placement, EnterSweep, UNCHANGED currentwhite, ~IsDead(MainThread)
  PROVE  Placement'
<1> DEFINE r == SweepToLive("allgc")
<1>1. /\ Swept(r.dead, r.live) /\ list' = r.list /\ tofin' = tofin \ r.dead
      /\ gcstate' = "swpallgc"
  BY DEF EnterSweep
<1>2. "allgc" \in ListName /\ TypeOK
  BY DEF ListName, TypeInv
<1>3. /\ r.list \in Lists /\ Placed(r.list, Allocated \ r.dead, tofin \ r.dead)
      /\ r.dead \in SUBSET Obj /\ r.live \in SUBSET Allocated
      /\ \A o \in r.dead : IsDead(o)
  <2> HIDE DEF r
  <2>1. /\ r.list \in Lists /\ Placed(r.list, Allocated \ r.dead, tofin \ r.dead)
        /\ \A o \in r.dead : IsDead(o) /\ o \in Allocated
        /\ r.live \subseteq Allocated
    BY <1>2, SweepToLivePlaced DEF Placement, r
  <2> QED BY <2>1 DEF Allocated
<1> HIDE DEF r
<1>4. /\ Allocated' = Allocated \ r.dead
      /\ \A o \in Obj : mark'[o] = "free" => owner'[o] = Nil
      /\ \A o \in Obj \ r.dead :
           \/ mark'[o] = mark[o] /\ o \notin r.live
           \/ o \in r.live /\ mark'[o] = currentwhite
           \/ ~IsWhite(o) /\ mark[o] # "free" /\ mark'[o] \in {currentwhite, "black"}
  <2> DEFINE D == r.dead
             W == r.live
  <2>1. D \in SUBSET Obj /\ W \in SUBSET Allocated /\ Swept(D, W) /\ TypeOK
    BY <1>1, <1>2, <1>3
  <2>2. \A o \in Obj : mark[o] = "free" => owner[o] = Nil
    BY DEF Placement
  <2> HIDE DEF D, W
  <2>3. /\ Allocated' = Allocated \ D
        /\ \A o \in Obj : mark'[o] = "free" => owner'[o] = Nil
        /\ \A o \in Obj \ D :
             \/ mark'[o] = mark[o] /\ o \notin W
             \/ o \in W /\ mark'[o] = currentwhite
             \/ ~IsWhite(o) /\ mark[o] # "free" /\ mark'[o] \in {currentwhite, "black"}
    BY <2>1, <2>2, SweptMarks
  <2> QED BY <2>3 DEF D, W
<1>5. ~IsDead(MainThread)' /\ ~KeepInvariant' /\ tofin' \subseteq Finalizable
  <2>1. MainThread \in Obj \ r.dead
    BY <1>3, MainThreadPlaced
  <2> QED BY <1>1, <1>2, <1>4, <2>1 DEF IsDead, OtherWhite, TypeOK, Whites, KeepInvariant, Placement
<1> QED BY <1>1, <1>3, <1>4, <1>5 DEF Placement, MainKept

LEMMA PlacementGCTM ==
  ASSUME TypeInv, TypeInv', Placement, GCTM
  PROVE  Placement'
<1> USE DEF heapVars, grayVars, atomicVars, sweepVars, runVars
<1> DEFINE z == list["tobefnz"]
           o == Head(z)
<1>1. /\ z # <<>> /\ tofin' = tofin \ {o} /\ mark' = Repainted(o)
      /\ list' = [list EXCEPT !["tobefnz"] = Tail(z), !["allgc"] = <<o>> \o list["allgc"]]
      /\ UNCHANGED <<owner, gcstate, currentwhite, closing, grayVars, again, todo>>
  <2>1. list = [l \in ListName |-> list[l]]
    BY DEF TypeInv, TypeOK
  <2> QED BY <2>1 DEF GCTM, ListName
<1>2. z \in Seq(Obj) /\ list \in Lists /\ Elems(z) \subseteq tofin /\ Elems(z) \subseteq Allocated
      /\ MainThread \notin tofin /\ MainThread \in Obj
  BY MainThreadPlaced DEF Placement, Placed, ListName
<1>3. o \in Elems(z) /\ 1 \in 1 .. Len(z) /\ z[1] = o /\ o \in Obj
  <2> HIDE DEF z
  <2> QED BY <1>1, <1>2, HeadTailElems
<1>4. Tail(z) = Cut(z, 1 - 1, 1 + 1)
  <2> HIDE DEF z
  <2> QED BY <1>1, <1>2, TailIsCut
<1>5. "tobefnz" \in ListName /\ "allgc" \in ListName
  BY DEF ListName
<1>6. list' \in Lists /\ Placed(list', Allocated, tofin \ {o})
  <2> DEFINE s == <<o>> \o list["allgc"]
  <2>0. list' \in Lists
    BY DEF TypeInv, TypeOK, Lists
  <2>1. list' = [list EXCEPT !["tobefnz"] = Cut(list["tobefnz"], 1 - 1, 1 + 1), !["allgc"] = s]
    BY <1>1, <1>4
  <2>2. o = list["tobefnz"][1] /\ o # MainThread /\ 1 \in 1 .. Len(list["tobefnz"])
    BY <1>2, <1>3
  <2> HIDE DEF o, z
  <2>3. s = <<o>> \o list["allgc"]
    OBVIOUS
  <2> HIDE DEF s
  <2>4. Moved(list, list', "tobefnz", 1, "allgc") /\ list["tobefnz"][1] = o
    BY <1>2, <1>5, <2>0, <2>1, <2>2, <2>3 DEF Moved, Lists
  <2> QED BY <1>2, <2>0, <2>4, PlacedMove DEF Placement
<1>7. o # MainThread /\ mark[o] # "free"
  BY <1>2, <1>3 DEF Allocated
<1> HIDE DEF o, z
<1>8. /\ Allocated' = Allocated /\ mark'[MainThread] = mark[MainThread]
      /\ \A x \in Obj : mark'[x] = "free" <=> mark[x] = "free"
  <2>1. currentwhite # "free" /\ mark \in [Obj -> Colours]
    BY DEF TypeInv, TypeOK, Whites
  <2> QED BY <1>1, <1>2, <1>3, <1>7, <2>1 DEF Repainted, Allocated
<1>9. MainKept'
  BY <1>1, <1>8 DEF Placement, MainKept, KeepInvariant, IsSweepPhase, IsWhite, White, IsDead, OtherWhite
<1>10. KeepInvariant' = KeepInvariant /\ Grays' = Grays
  BY <1>1 DEF KeepInvariant, Grays
<1> QED BY <1>1, <1>6, <1>8, <1>9, <1>10 DEF Placement

LEMMA PlacementCollector == TypeInv /\ Control /\ Placement /\ CollectorStep => Placement'
<1> SUFFICES ASSUME TypeInv, Control, Placement, CollectorStep PROVE Placement'
  OBVIOUS
<1> USE DEF heapVars, grayVars, atomicVars, sweepVars, runVars
<1>0. /\ list \in Lists /\ MainThread \in Obj /\ mark[MainThread] # "free" /\ TypeOK
      /\ \A l \in ListName : list[l] \in Seq(Obj) /\ Elems(list[l]) \subseteq Allocated
      /\ TypeInv' /\ list' \in Lists
  <2>1. TypeInv'
    BY TypeCollector
  <2> QED BY <2>1, MainThreadPlaced DEF TypeInv, TypeOK, Lists
<1>a. /\ BeingFnz \in SUBSET Obj /\ RootTables \in SUBSET Obj /\ running \in Obj
  BY <1>0, ConstantsAssumption DEF BeingFnz, Allocated, ListName, ObjOfKind, TypeOK
<1>b. at # "no" => KeepInvariant /\ closing # "done"
  BY DEF Control, KeepInvariant
<1>c. KeepInvariant /\ closing # "done" => Grays \subseteq Allocated
  BY DEF Placement
<1>d. UNCHANGED <<mark, list, tofin, owner, gcstate, currentwhite, closing, grayVars, again, todo>>
      => Placement'
  BY DEF Placement, MainKept, Allocated, Grays, KeepInvariant, IsSweepPhase, IsWhite, White, IsDead, OtherWhite
<1>1. CASE RestartCollection
  <2> DEFINE roots == {MainThread} \cup RootTables \cup BeingFnz
  <2>1. roots \in SUBSET Obj /\ MainThread \in roots /\ mark' = Marked(mark, roots) /\ gray' = Linked(mark, roots)
    BY <1>1, <1>0, <1>a DEF RestartCollection
  <2> HIDE DEF roots
  <2>2. Darker /\ mark'[MainThread] \notin Whites /\ Linked(mark, roots) \subseteq Allocated
    BY <2>1, MarkDarker
  <2>3. /\ gcstate = "pause" /\ gcstate' \in {"propagate", "enteratomic"} /\ at = "no"
        /\ grayagain' = {} /\ weak' = {} /\ ephemeron' = {} /\ allweak' = {}
        /\ UNCHANGED <<list, tofin, owner, closing, again, todo, currentwhite>>
    BY <1>1 DEF RestartCollection, CollectorRuns
  <2>4. Grays' \subseteq Allocated
    BY <2>1, <2>2, <2>3 DEF Grays, Control
  <2>5. Allocated' = Allocated /\ \A o \in Obj : mark'[o] = "free" <=> mark[o] = "free"
    BY <2>2, DarkerMeans
  <2>6. MainKept'
    BY <2>2, <2>3 DEF MainKept, IsWhite, White, IsSweepPhase
  <2> QED BY <2>3, <2>4, <2>5, <2>6 DEF Placement
<1>2. CASE Propagate \/ AtomicPropagate
  <2>1. KeepInvariant /\ KeepInvariant' /\ closing # "done"
        /\ UNCHANGED <<list, tofin, closing, owner, again, todo>>
    BY <1>2, <1>b DEF Propagate, AtomicPropagate, CollectorRuns, KeepInvariant
  <2>2. PICK o \in Obj : PropagateMark(o)
    BY <1>2 DEF Propagate, AtomicPropagate
  <2>3. mark[o] # "free"
    BY <2>1, <2>2, <1>c DEF PropagateMark, Grays, Allocated
  <2>4. /\ Darker
        /\ gray' \cup grayagain' \cup weak' \cup ephemeron' \cup allweak'
              \subseteq gray \cup grayagain \cup weak \cup ephemeron \cup allweak \cup Allocated
    BY <2>2, <2>3, TraverseDarker DEF PropagateMark
  <2>5. Grays' \subseteq Grays \cup Allocated
    BY <2>1, <2>4 DEF Grays
  <2> QED BY <2>1, <2>4, <2>5, PlacementDarker
<1>3. CASE EnterAtomic
  <2>1. KeepInvariant /\ KeepInvariant' /\ Grays' = Grays /\ Darker
        /\ UNCHANGED <<list, tofin, closing, owner>>
    BY <1>3 DEF EnterAtomic, KeepInvariant, Grays, Darker
  <2> QED BY <2>1, PlacementDarker
<1>4. CASE AtomicStart
  <2> DEFINE roots == {running} \cup RootTables
  <2>1. roots \in SUBSET Obj /\ mark' = Marked(mark, roots) /\ gray' = gray \cup Linked(mark, roots)
    BY <1>4, <1>a DEF AtomicStart
  <2> HIDE DEF roots
  <2>2. KeepInvariant /\ KeepInvariant' /\ UNCHANGED <<list, tofin, closing, owner>>
        /\ again' = grayagain /\ grayagain' = {} /\ UNCHANGED <<weak, ephemeron, allweak, todo>>
    BY <1>4 DEF AtomicStart, KeepInvariant
  <2>3. Darker /\ Linked(mark, roots) \subseteq Allocated
    BY <2>1, MarkDarker
  <2>4. Grays' \subseteq Grays \cup Allocated
    BY <2>1, <2>2, <2>3 DEF Grays
  <2> QED BY <2>2, <2>3, <2>4, PlacementDarker
<1>5. CASE AtomicRemarkUpvals
  <2> DEFINE roots == Remarked(twups \ {t \in twups : ~IsWhite(t) /\ OpenUpvals(t) # {}})
  <2>1. roots \in SUBSET Obj /\ mark' = Marked(mark, roots) /\ gray' = Linked(mark, roots)
    <3>1. \A T \in SUBSET Obj : Remarked(T) \in SUBSET Obj
      <4> SUFFICES ASSUME NEW T \in SUBSET Obj PROVE Remarked(T) \in SUBSET Obj
        OBVIOUS
      <4>1. {x \in UNION {OpenUpvals(t) : t \in T} : ~IsWhite(x)} \subseteq Obj
        BY DEF OpenUpvals
      <4> QED BY <4>1, <1>0, RefsType DEF Remarked
    <3>2. twups \ {t \in twups : ~IsWhite(t) /\ OpenUpvals(t) # {}} \in SUBSET Obj
      BY <1>0 DEF TypeOK
    <3> QED BY <1>5, <3>1, <3>2 DEF AtomicRemarkUpvals
  <2> HIDE DEF roots
  <2>2. KeepInvariant /\ KeepInvariant' /\ UNCHANGED <<list, tofin, closing, owner>>
        /\ UNCHANGED <<grayagain, weak, ephemeron, allweak, again, todo>>
    BY <1>5, <1>b DEF AtomicRemarkUpvals, AtomicAt, KeepInvariant
  <2>3. Darker /\ Linked(mark, roots) \subseteq Allocated
    BY <2>1, MarkDarker
  <2>4. Grays' \subseteq Grays \cup Allocated
    BY <2>1, <2>2, <2>3 DEF Grays
  <2> QED BY <2>2, <2>3, <2>4, PlacementDarker
<1>6. CASE AtomicGrayAgain \/ ConvergePass
  <2>1. KeepInvariant /\ KeepInvariant' /\ Darker /\ UNCHANGED <<list, tofin, closing, owner>>
    BY <1>6, <1>b DEF AtomicGrayAgain, ConvergePass, AtomicAt, KeepInvariant, Darker
  <2>2. Grays' \subseteq Grays
    BY <1>6 DEF AtomicGrayAgain, ConvergePass, AtomicAt, Grays
  <2> QED BY <2>1, <2>2, PlacementDarker
<1>7. ASSUME NEW o \in Obj, ConvergeVisit(o) PROVE Placement'
  <2>1. KeepInvariant /\ KeepInvariant' /\ closing # "done"
        /\ UNCHANGED <<list, tofin, closing, owner, again>> /\ todo' \subseteq todo
    BY <1>7, <1>b DEF ConvergeVisit, AtomicAt, KeepInvariant
  <2>2. mark[o] # "free"
    BY <1>7, <2>1, <1>c DEF ConvergeVisit, Grays, Allocated
  <2>3. /\ Darker
        /\ gray' \cup grayagain' \cup weak' \cup ephemeron' \cup allweak'
              \subseteq gray \cup grayagain \cup weak \cup ephemeron \cup allweak \cup Allocated
    BY <1>7, <2>2, TraverseDarker DEF ConvergeVisit
  <2>4. Grays' \subseteq Grays \cup Allocated
    BY <2>1, <2>3 DEF Grays
  <2> QED BY <2>1, <2>3, <2>4, PlacementDarker
<1>8. CASE AtomicClearValues \/ AtomicClearKeys
  <2>1. weak \cup allweak \in SUBSET Obj /\ (weak \cup allweak) \ orig \in SUBSET Obj
        /\ ephemeron \cup allweak \in SUBSET Obj /\ {} \in SUBSET Obj
    BY <1>0 DEF TypeOK
  <2>2. Darker
    BY <1>8, <2>1, ClearByDarker DEF AtomicClearValues, AtomicClearKeys
  <2>3. KeepInvariant /\ KeepInvariant' /\ UNCHANGED <<list, tofin, closing, owner>> /\ Grays' = Grays
    BY <1>8, <1>b DEF AtomicClearValues, AtomicClearKeys, Converged, AtomicAt, KeepInvariant, Grays
  <2> QED BY <2>2, <2>3, PlacementDarker
<1>9. CASE AtomicSeparate
  <2> DEFINE f == list["finobj"]
  <2>1. f \in Seq(Obj) /\ list["tobefnz"] \in Seq(Obj) /\ "finobj" \in ListName /\ "tobefnz" \in ListName
    BY <1>0 DEF ListName
  <2>2. CASE scan \in 1 .. Len(f) /\ IsWhite(f[scan])
    <3> DEFINE o == f[scan]
               s == Append(list["tobefnz"], o)
    <3>1. /\ list' = [list EXCEPT !["finobj"] = Cut(list["finobj"], scan - 1, scan + 1),
                                  !["tobefnz"] = s]
          /\ UNCHANGED <<mark, owner, tofin, gcstate, currentwhite, closing, grayVars, again, todo>>
      <4>1. list = [l \in ListName |-> list[l]]
        BY <1>0 DEF Lists
      <4> QED BY <1>9, <2>2, <4>1 DEF AtomicSeparate, LinkLast, Unlinked, Cut, ListName
    <3>2. o \in tofin /\ o # MainThread
      <4>1. o \in Elems(f)
        BY <2>2, <2>1 DEF Elems
      <4> QED BY <4>1, MainThreadPlaced DEF Placement, Placed
    <3>3. o = list["finobj"][scan] /\ scan \in 1 .. Len(list["finobj"])
      BY <2>2
    <3> HIDE DEF o, f
    <3>4. s = Append(list["tobefnz"], o)
      OBVIOUS
    <3> HIDE DEF s
    <3>5. list' \in Lists /\ Placed(list', Allocated, tofin \cup {o})
      <4>1. Moved(list, list', "finobj", scan, "tobefnz") /\ list["finobj"][scan] = o
        BY <1>0, <2>1, <3>1, <3>2, <3>3, <3>4 DEF Moved, Lists
      <4> QED BY <1>0, <4>1, PlacedMove DEF Placement
    <3>6. tofin \cup {o} = tofin
      BY <3>2
    <3>7. /\ Allocated' = Allocated /\ MainKept' /\ KeepInvariant' = KeepInvariant /\ Grays' = Grays
      BY <3>1 DEF Placement, MainKept, Allocated, Grays, KeepInvariant, IsSweepPhase, IsWhite, White, IsDead, OtherWhite
    <3>8. Placed(list', Allocated', tofin') /\ UNCHANGED <<mark, owner, closing, tofin>>
      BY <3>1, <3>5, <3>6, <3>7
    <3> QED BY <3>7, <3>8 DEF Placement
  <2>3. CASE ~(scan \in 1 .. Len(f) /\ IsWhite(f[scan]))
    <3>1. at = "separate" /\ scan \in Nat /\ scan # 0 /\ scan <= Len(f)
      BY <1>0, <1>9 DEF TypeOK, AtomicSeparate
    <3>2. ~IsWhite(f[scan])
      BY <2>1, <2>3, <3>1
    <3>3. UNCHANGED <<mark, list, tofin, owner, gcstate, currentwhite, closing, grayVars, again, todo>>
      BY <1>9, <3>2 DEF AtomicSeparate
    <3> QED BY <3>3, <1>d
  <2> QED BY <2>2, <2>3
<1>10. CASE AtomicMarkBeingFnz
  <2>1. mark' = Marked(mark, BeingFnz) /\ gray' = Linked(mark, BeingFnz)
    BY <1>10 DEF AtomicMarkBeingFnz
  <2>2. KeepInvariant /\ KeepInvariant' /\ UNCHANGED <<list, tofin, closing, owner>>
        /\ UNCHANGED <<grayagain, weak, ephemeron, allweak, again, todo>>
    BY <1>10, <1>b DEF AtomicMarkBeingFnz, KeepInvariant
  <2>3. Darker /\ Linked(mark, BeingFnz) \subseteq Allocated
    BY <2>1, <1>a, MarkDarker
  <2>4. Grays' \subseteq Grays \cup Allocated
    BY <2>1, <2>2, <2>3 DEF Grays
  <2> QED BY <2>2, <2>3, <2>4, PlacementDarker
<1>11. CASE AtomicEnd
  <2>1. EnterSweep /\ UNCHANGED currentwhite /\ KeepInvariant
    BY <1>11, <1>b DEF AtomicEnd
  <2>2. ~IsDead(MainThread)
    BY <2>1, <1>0, OtherWhiteType DEF Placement, MainKept, IsDead, IsWhite, White
  <2> QED BY <2>1, <2>2, PlacementEnterSweep
<1>12. CASE SweepObject
  <2> DEFINE l == ListOf(sweepgc)
             n == Behind(sweepgc) + 1
             s == list[l]
             o == s[n]
  <2>1. sweepgc # Nil /\ n <= Len(s) /\ closing # "done" /\ UNCHANGED <<closing, gcstate, currentwhite>>
        /\ IsSweepPhase /\ IsSweepPhase' /\ ~KeepInvariant'
    BY <1>12 DEF SweepObject, CollectorRuns, IsSweepPhase, KeepInvariant
  <2>2. sweepgc \in ListName \/ \E k \in ListName : sweepgc \in Elems(list[k])
    BY <2>1, <1>0 DEF TypeOK, TypeInv, SweepgcLinked
  <2>3. l \in ListName /\ s \in Seq(Obj) /\ n \in 1 .. Len(s)
    <3>1. l \in ListName /\ Behind(sweepgc) \in 0 .. Len(list[l])
      BY <2>2, <1>0, BehindType
    <3> QED BY <2>1, <3>1, <1>0
  <2>4. o \in Obj /\ o \in Allocated
    <3>1. o \in Elems(s)
      BY <2>3, ElemsMember
    <3> QED BY <3>1, <2>3, <1>0 DEF Allocated
  <2>5. CASE IsDead(o)
    <3>1. /\ Swept({o}, {}) /\ list' = [list EXCEPT ![l] = Unlinked(s, n)] /\ tofin' = tofin \ {o}
      BY <1>12, <2>5 DEF SweepObject
    <3>2. MainThread # o
      BY <2>1, <2>5 DEF Placement, MainKept
    <3>3. n - 1 \in 0 .. Len(list[l]) /\ n + 1 \in (n-1)+1 .. Len(list[l])+1
      BY <2>3
    <3>4. {list[l][i] : i \in (n-1)+1 .. (n+1)-1} = {o}
      <4>1. (n-1)+1 .. (n+1)-1 = {n}
        BY <2>3
      <4> QED BY <4>1
    <3>5. list' \in Lists /\ Placed(list', Allocated \ {o}, tofin \ {o})
      <4> DEFINE D == {list[l][i] : i \in (n-1)+1 .. (n+1)-1}
      <4>1. D = {o} /\ MainThread \notin D /\ Unlinked(s, n) = Cut(list[l], n - 1, n + 1)
        BY <3>2, <3>4 DEF Unlinked, Cut
      <4> HIDE DEF D, o, n, l
      <4>2. [list EXCEPT ![l] = Cut(list[l], n - 1, n + 1)] \in Lists
            /\ Placed([list EXCEPT ![l] = Cut(list[l], n - 1, n + 1)], Allocated \ D, tofin \ D)
        BY <1>0, <2>3, <3>3, <4>1, PlacedCut DEF Placement, D
      <4> QED BY <3>1, <4>1, <4>2
    <3> HIDE DEF o, n, l, s
    <3>6. /\ Allocated' = Allocated \ {o}
          /\ \A x \in Obj : mark'[x] = "free" => owner'[x] = Nil
          /\ \A x \in Obj \ {o} : \/ mark'[x] = mark[x]
                                  \/ ~IsWhite(x) /\ mark'[x] \in {currentwhite, "black"}
      <4>1. {o} \in SUBSET Obj /\ {} \in SUBSET Allocated
        BY <2>4
      <4> QED BY <4>1, <3>1, <1>0, SweptMarks DEF Placement
    <3>7. ~IsDead(MainThread)'
      BY <2>1, <3>2, <3>6, <1>0 DEF IsDead, OtherWhite, TypeOK, Whites, Placement, MainKept
    <3> QED BY <2>1, <3>1, <3>5, <3>6, <3>7 DEF Placement, MainKept
  <2>6. CASE ~IsDead(o)
    <3>1. Swept({}, {o}) /\ UNCHANGED <<list, tofin>>
      BY <1>12, <2>6 DEF SweepObject
    <3> HIDE DEF o, n, l, s
    <3>2. /\ Allocated' = Allocated \ {}
          /\ \A x \in Obj : mark'[x] = "free" => owner'[x] = Nil
          /\ \A x \in Obj : \/ mark'[x] = mark[x] \/ mark'[x] \in {currentwhite, "black"}
      <4>1. {} \in SUBSET Obj /\ {o} \in SUBSET Allocated
        BY <2>4
      <4> QED BY <4>1, <3>1, <1>0, SweptMarks DEF Placement
    <3>3. ~IsDead(MainThread)'
      BY <2>1, <3>2, <1>0 DEF IsDead, OtherWhite, TypeOK, Whites, Placement, MainKept
    <3>4. MainKept'
      BY <2>1, <3>3 DEF MainKept
    <3> QED BY <2>1, <3>1, <3>2, <3>4, PlacementFrame
  <2> QED BY <2>5, <2>6
<1>13. CASE SweepNothing \/ FinalizersEnd \/ FullGCEnd
  BY <1>13, <1>d DEF SweepNothing, FinalizersEnd, FullGCEnd
<1>14. CASE SweepNext \/ FinishCycle
  <2>1. /\ UNCHANGED <<mark, list, tofin, owner, currentwhite, closing>>
        /\ ~KeepInvariant' /\ (IsSweepPhase' => IsSweepPhase)
    BY <1>14 DEF SweepNext, FinishCycle, KeepInvariant, IsSweepPhase
  <2>2. MainKept'
    BY <2>1 DEF Placement, MainKept, IsDead, OtherWhite
  <2> QED BY <2>1, <2>2 DEF Placement, Allocated
<1>15. CASE CallFinalizer \/ NextFinalizer
  BY <1>0, <1>15, PlacementGCTM DEF CallFinalizer, NextFinalizer
<1> QED BY <1>1, <1>2, <1>3, <1>4, <1>5, <1>6, <1>7, <1>8, <1>9, <1>10, <1>11, <1>12, <1>13, <1>14, <1>15 DEF CollectorStep

\* what the program does to the colour of an object that was there before
Recoloured(x) ==
  \/ mark'[x] = mark[x]
  \/ /\ mark[x] # "free"
     /\ mark'[x] \in {"gray", "black"} \/ (~KeepInvariant /\ mark'[x] = currentwhite)

LEMMA RecolouredMain ==
  ASSUME TypeInv, Placement, Recoloured(MainThread), UNCHANGED <<gcstate, currentwhite>>
  PROVE  MainKept'
  BY MainThreadPlaced, OtherWhiteType
     DEF Recoloured, Placement, MainKept, KeepInvariant, IsSweepPhase, IsWhite, White, IsDead,
         OtherWhite, Whites, TypeInv, TypeOK

LEMMA BarrierRecolours ==
  ASSUME TypeInv, NEW o \in Obj, NEW v \in Obj, Barrier(o, v)
  PROVE  (\A x \in Obj : Recoloured(x)) /\ gray' \subseteq gray \cup Allocated
<1>1. CASE UNCHANGED <<mark, gray>>
  BY <1>1 DEF Recoloured
<1>2. CASE mark' = Marked(mark, {v}) /\ gray' = gray \cup Linked(mark, {v})
  <2>1. {v} \in SUBSET Obj
    OBVIOUS
  <2>2. Darker /\ Linked(mark, {v}) \subseteq Allocated
    BY <1>2, <2>1, MarkDarker
  <2> QED BY <1>2, <2>2 DEF Darker, Recoloured
<1>3. CASE mark[o] = "black" /\ ~KeepInvariant /\ mark' = [mark EXCEPT ![o] = currentwhite] /\ UNCHANGED gray
  BY <1>3 DEF Recoloured, TypeInv, TypeOK
<1> QED BY <1>1, <1>2, <1>3 DEF Barrier

LEMMA CloseBarrierRecolours ==
  ASSUME TypeInv, NEW u \in Obj, mark[u] # "free", CloseBarrier(u)
  PROVE  (\A x \in Obj : Recoloured(x)) /\ gray' \subseteq gray \cup Allocated
<1> DEFINE m == [mark EXCEPT ![u] = "black"]
           whites == {v \in Refs(u) : IsWhite(v)}
<1>1. CASE UNCHANGED <<mark, gray>>
  BY <1>1 DEF Recoloured
<1>2. CASE mark' = Marked(m, whites) /\ gray' = gray \cup Linked(m, whites)
  <2>1. m \in Heaps /\ whites \in SUBSET Obj /\ m[u] = "black" /\ \A x \in Obj \ {u} : m[x] = mark[x]
    BY RefsType DEF TypeInv, TypeOK, Heaps, Colours
  <2> HIDE DEF m, whites
  <2>2. /\ \A x \in Obj : \/ mark'[x] = m[x]
                          \/ White(m, x) /\ mark'[x] \in {"gray", "black"}
        /\ Linked(m, whites) \subseteq {x \in Obj : White(m, x)}
    BY <1>2, <2>1, MarkedDarker
  <2> QED BY <1>2, <2>1, <2>2 DEF Recoloured, White, Whites, Allocated
<1>3. CASE ~KeepInvariant /\ mark' = [mark EXCEPT ![u] = currentwhite] /\ UNCHANGED gray
  BY <1>3 DEF Recoloured, TypeInv, TypeOK
<1> QED BY <1>1, <1>2, <1>3 DEF CloseBarrier

\* a step of the program that moves no object
LEMMA PlacementRecoloured ==
  ASSUME TypeInv, Placement, UNCHANGED <<list, tofin, closing, gcstate, currentwhite>>,
         \A x \in Obj : Recoloured(x),
         \A x \in Obj : owner'[x] \in {Nil, owner[x]},
         Grays' \subseteq Grays \cup Allocated
  PROVE  Placement'
<1>1. \A x \in Obj : mark'[x] = "free" <=> mark[x] = "free"
  BY DEF Recoloured, TypeInv, TypeOK, Whites
<1>2. Allocated' = Allocated
  BY <1>1 DEF Allocated
<1>3. MainKept'
  BY RecolouredMain, MainThreadPlaced
<1>4. KeepInvariant' = KeepInvariant
  BY DEF KeepInvariant
<1> QED BY <1>1, <1>2, <1>3, <1>4 DEF Placement

\* an object is allocated
LEMMA PlacementNew ==
  ASSUME TypeInv, Placement, UNCHANGED <<tofin, closing, gcstate, currentwhite>>,
         NEW o \in Obj, mark[o] = "free", mark'[o] # "free",
         list' = [list EXCEPT !["allgc"] = <<o>> \o @],
         \A x \in Obj \ {o} : Recoloured(x) /\ owner'[x] = owner[x],
         Grays' \subseteq Grays \cup Allocated \cup {o}
  PROVE  Placement'
<1>1. \A x \in Obj \ {o} : mark'[x] = "free" <=> mark[x] = "free"
  BY DEF Recoloured, TypeInv, TypeOK, Whites
<1>2. Allocated' = Allocated \cup {o} /\ o \notin Allocated
  BY <1>1 DEF Allocated
<1>3. MainKept'
  <2>1. MainThread \in Obj \ {o}
    BY MainThreadPlaced
  <2> QED BY <2>1, RecolouredMain
<1>4. KeepInvariant' = KeepInvariant
  BY DEF KeepInvariant
<1>5. Placed(list', Allocated', tofin)
  <2> DEFINE s == <<o>> \o list["allgc"]
             b == "allgc"
  <2>1. /\ list \in Lists /\ b \in ListName /\ s = <<o>> \o list[b] /\ b = "allgc"
        /\ list' = [list EXCEPT ![b] = s]
    BY DEF TypeInv, TypeOK, Lists, ListName
  <2> HIDE DEF s, b
  <2>2. Placed([list EXCEPT ![b] = s], Allocated \cup {o}, IF b = "allgc" THEN tofin ELSE tofin \cup {o})
    BY <1>2, <2>1, PlacedAdd DEF Placement
  <2> QED BY <1>2, <2>1, <2>2
<1> QED BY <1>1, <1>2, <1>3, <1>4, <1>5 DEF Placement

LEMMA PlacementCheckFinalizer ==
  ASSUME TypeInv, Placement, NEW o, CheckFinalizer(o)
  PROVE  Placement'
<1> USE DEF grayVars, atomicVars, runVars
<1> DEFINE moved == SweptLast(o)
           r     == SweepToLive(sweepgc)
           lists == IF moved THEN r.list ELSE list
           s     == lists["allgc"]
           i     == Index(s, o)
<1>1. /\ o \in Finalizable /\ o \in Obj /\ o \notin tofin /\ o \in Elems(s) /\ o # MainThread
      /\ closing # "done"
      /\ list' = [lists EXCEPT !["allgc"] = Unlinked(s, i), !["finobj"] = <<o>> \o @]
      /\ UNCHANGED <<closing, gcstate, currentwhite, grayVars, again, todo>>
  BY ConstantsAssumption DEF CheckFinalizer, ProgramRuns, ObjOfKind
<1>2. list \in Lists /\ MainThread \in Obj /\ TypeOK
  BY MainThreadPlaced DEF TypeInv
<1>3. KeepInvariant' = KeepInvariant /\ Grays' = Grays /\ IsSweepPhase' = IsSweepPhase
      /\ "allgc" \in ListName /\ "finobj" \in ListName
  BY <1>1 DEF KeepInvariant, Grays, IsSweepPhase, ListName
\* taken out of allgc and put into finobj
<1>4. ASSUME NEW A, NEW T, lists \in Lists, Placed(lists, A, T)
      PROVE  Placed(list', A, T \cup {o}) /\ o \in A
  <2>1. s \in Seq(Obj)
    BY <1>3, <1>4 DEF Lists
  <2>2. i \in 1 .. Len(s) /\ s[i] = o
    <3> HIDE DEF s
    <3> QED BY <1>1, <2>1, IndexProperties
  <2> DEFINE f == <<o>> \o lists["finobj"]
             c == Unlinked(s, i)
  <2>3. f \in Seq(Obj) /\ c \in Seq(Obj) /\ c = Cut(s, i - 1, i + 1)
    <3>1. lists["finobj"] \in Seq(Obj)
      BY <1>3, <1>4 DEF Lists
    <3> HIDE DEF s, i
    <3> QED BY <1>1, <2>1, <2>2, <3>1, PrependProperties, UnlinkedProperties DEF Unlinked, Cut
  <2>4. list' = [l \in ListName |-> IF l = "allgc" THEN c ELSE IF l = "finobj" THEN f ELSE lists[l]]
    <3> HIDE DEF s, i
    <3>1. lists = [l \in ListName |-> lists[l]]
      BY <1>4 DEF Lists
    <3> HIDE DEF lists, c
    <3>2. list' = [lists EXCEPT !["allgc"] = c, !["finobj"] = f]
      BY <1>1 DEF c
    <3> QED BY <1>3, <3>1, <3>2
  <2> HIDE DEF c, f, i, s, lists
  <2>5. Moved(lists, list', "allgc", i, "finobj") /\ lists["allgc"][i] = o
    BY <1>1, <1>3, <1>4, <2>1, <2>2, <2>3, <2>4 DEF Moved, Lists, f, s
  <2>6. o \in A
    <3>1. o \in Elems(lists["allgc"])
      BY <1>1 DEF s
    <3> QED BY <1>3, <1>4, <3>1 DEF Placed
  <2> QED BY <1>4, <2>5, <2>6, PlacedMove
<1>5. CASE moved
  <2>0. /\ Swept(r.dead, r.live \cup {o}) /\ tofin' = (tofin \ r.dead) \cup {o}
        /\ IsSweepPhase /\ lists = r.list
    BY <1>5 DEF CheckFinalizer, SweptLast
  <2>1. sweepgc \in ListName \/ \E l \in ListName : sweepgc \in Elems(list[l])
    BY <1>1, <1>5 DEF TypeInv, SweepgcLinked, SweptLast
  <2> HIDE DEF lists, s, i, moved
  <2>2. ~IsDead(MainThread)
    BY <2>0 DEF Placement, MainKept
  <2> DEFINE p == sweepgc
  <2>2a. r = SweepToLive(p) /\ (p \in ListName \/ \E l \in ListName : p \in Elems(list[l]))
    BY <2>1
  <2> HIDE DEF r, p
  <2>3. /\ r.list \in Lists /\ Placed(r.list, Allocated \ r.dead, tofin \ r.dead)
        /\ \A x \in r.dead : IsDead(x) /\ x \in Allocated
        /\ r.live \subseteq Allocated
    BY <1>2, <2>2, <2>2a, SweepToLivePlaced DEF Placement
  <2>4. Placed(list', Allocated \ r.dead, tofin') /\ o \in Allocated \ r.dead
    BY <1>4, <2>0, <2>3
  <2> DEFINE D == r.dead
             W == r.live \cup {o}
  <2>5. D \in SUBSET Obj /\ W \in SUBSET Allocated /\ Swept(D, W) /\ MainThread \notin D
    BY <2>0, <2>2, <2>3, <2>4 DEF Allocated
  <2>6. \A x \in Obj : mark[x] = "free" => owner[x] = Nil
    BY DEF Placement
  <2> HIDE DEF D, W
  <2>7. /\ Allocated' = Allocated \ D
        /\ \A x \in Obj : mark'[x] = "free" => owner'[x] = Nil
        /\ \A x \in Obj \ D : mark'[x] \in {mark[x], currentwhite, "black"}
    BY <1>2, <2>5, <2>6, SweptMarks
  <2>8. ~IsDead(MainThread)' /\ ~KeepInvariant'
    BY <1>1, <1>2, <2>0, <2>2, <2>5, <2>7
       DEF IsDead, OtherWhite, TypeOK, Whites, KeepInvariant, IsSweepPhase
  <2>9. tofin' \subseteq Finalizable
    BY <1>1, <2>0 DEF Placement
  <2> QED BY <2>4, <2>7, <2>8, <2>9 DEF Placement, MainKept, D
<1>6. CASE ~moved
  <2>0. mark' = Repainted(o) /\ tofin' = tofin \cup {o} /\ UNCHANGED owner /\ lists = list
    BY <1>6 DEF CheckFinalizer
  <2> HIDE DEF lists, s, i, moved
  <2>1. Placed(list', Allocated, tofin') /\ o \in Allocated
    BY <1>2, <1>4, <2>0 DEF Placement
  <2>2. mark[o] # "free"
    BY <2>1 DEF Allocated
  <2>3. /\ Allocated' = Allocated /\ mark'[MainThread] = mark[MainThread]
        /\ \A x \in Obj : mark'[x] = "free" <=> mark[x] = "free"
    <3>1. currentwhite # "free" /\ mark \in [Obj -> Colours]
      BY <1>2 DEF TypeOK, Whites
    <3> QED BY <1>1, <1>2, <2>0, <2>2, <3>1 DEF Repainted, Allocated
  <2>4. MainKept'
    BY <1>1, <1>3, <2>3 DEF Placement, MainKept, IsWhite, White, IsDead, OtherWhite
  <2>5. tofin' \subseteq Finalizable
    BY <1>1, <2>0 DEF Placement
  <2> QED BY <1>1, <1>3, <2>0, <2>1, <2>3, <2>4, <2>5 DEF Placement
<1> QED BY <1>5, <1>6

LEMMA PlacementNewUpval ==
  ASSUME TypeInv, Placement, NEW c, NEW u \in Obj, NEW v \in Obj, NewUpval(c, u, v)
  PROVE  Placement'
<1> USE DEF heapVars, grayVars, atomicVars, sweepVars, runVars
<1> DEFINE m == [mark EXCEPT ![u] = currentwhite]
           g == [mark EXCEPT ![u] = "gray"]
<1>1. c \in Obj /\ u \in Obj /\ c # u /\ mark[u] = "free"
  BY StackTypes, ConstantsAssumption DEF NewUpval, TypeInv, Kinds
<1>2. m \in Heaps /\ g \in Heaps /\ m[u] = currentwhite /\ g[u] = "gray"
      /\ \A x \in Obj \ {u} : m[x] = mark[x] /\ g[x] = mark[x]
  BY <1>1 DEF TypeInv, TypeOK, Heaps, Colours, Whites
<1>3. /\ \/ mark' = m /\ UNCHANGED gray
         \/ mark' = Marked(g, {v}) /\ gray' = gray \cup Linked(g, {v})
         \/ ~KeepInvariant /\ mark[c] = "black" /\ mark' = [m EXCEPT ![c] = currentwhite]
            /\ UNCHANGED gray
  BY DEF NewUpval
<1>4. currentwhite # "free"
  BY DEF TypeInv, TypeOK, Whites
<1> HIDE DEF m, g
<1>5. mark'[u] # "free" /\ (\A x \in Obj \ {u} : Recoloured(x)) /\ gray' \subseteq gray \cup Allocated
  <2>1. CASE mark' = m /\ UNCHANGED gray
    BY <2>1, <1>1, <1>2, <1>4 DEF Recoloured
  <2>2. CASE mark' = Marked(g, {v}) /\ gray' = gray \cup Linked(g, {v})
    <3>1. {v} \in SUBSET Obj
      OBVIOUS
    <3>2. /\ \A x \in Obj : \/ mark'[x] = g[x]
                            \/ White(g, x) /\ mark'[x] \in {"gray", "black"}
          /\ Linked(g, {v}) \subseteq {x \in Obj : White(g, x)}
      BY <2>2, <1>2, <3>1, MarkedDarker
    <3> QED BY <2>2, <1>1, <1>2, <3>2 DEF Recoloured, White, Whites, Allocated
  <2>3. CASE ~KeepInvariant /\ mark[c] = "black" /\ mark' = [m EXCEPT ![c] = currentwhite]
             /\ UNCHANGED gray
    BY <2>3, <1>1, <1>2, <1>4 DEF Recoloured, Heaps
  <2> QED BY <1>3, <2>1, <2>2, <2>3
<1>6. /\ UNCHANGED <<tofin, closing, gcstate, currentwhite, grayagain, weak, ephemeron, allweak, again, todo>>
      /\ list' = [list EXCEPT !["allgc"] = <<u>> \o @]
      /\ owner' = [owner EXCEPT ![u] = running]
  BY DEF NewUpval
<1>7. Grays' \subseteq Grays \cup Allocated \cup {u}
  BY <1>5, <1>6 DEF Grays
<1>8. \A x \in Obj \ {u} : owner'[x] = owner[x]
  BY <1>6 DEF TypeInv, TypeOK
<1> QED BY <1>1, <1>5, <1>6, <1>7, <1>8, PlacementNew

LEMMA PlacementProgram == TypeInv /\ Control /\ Placement /\ ProgramStep => Placement'
<1> SUFFICES ASSUME TypeInv, Control, Placement, ProgramStep PROVE Placement'
  OBVIOUS
<1> USE DEF heapVars, grayVars, atomicVars, sweepVars, runVars
<1>0. list \in Lists /\ MainThread \in Obj /\ mark[MainThread] # "free" /\ TypeOK
  BY MainThreadPlaced DEF TypeInv
<1>a. /\ Regs \subseteq Obj /\ AtHand \subseteq Obj
      /\ \A o \in Obj : Refs(o) \subseteq Obj /\ OpenUpvals(o) \subseteq Obj
  BY <1>0, StackTypes, RefsType
<1>b. mark \in [Obj -> Colours] /\ currentwhite \in Colours \ {"free"} /\ running \in Obj
  BY <1>0 DEF TypeOK, Whites, Colours
<1>d. UNCHANGED <<mark, list, tofin, owner, gcstate, currentwhite, closing, grayVars, again, todo>>
      => Placement'
  BY DEF Placement, MainKept, Allocated, Grays, KeepInvariant, IsSweepPhase, IsWhite, White, IsDead, OtherWhite
<1>1. ASSUME NEW o \in Obj, mark[o] = "free", mark' = [mark EXCEPT ![o] = currentwhite],
             list' = [list EXCEPT !["allgc"] = <<o>> \o @],
             UNCHANGED <<tofin, owner, gcstate, currentwhite, closing, grayVars, again, todo>>
      PROVE  Placement'
  <2>1. mark'[o] # "free" /\ \A x \in Obj \ {o} : Recoloured(x) /\ owner'[x] = owner[x]
    BY <1>1, <1>b DEF Recoloured
  <2>2. Grays' = Grays
    BY <1>1 DEF Grays
  <2> QED BY <1>1, <2>1, <2>2, PlacementNew
<1>2. ASSUME NEW o \in Obj, NewObject(o) PROVE Placement'
  BY <1>1, <1>2 DEF NewObject
<1>3. ASSUME NEW o \in Obj, InternString(o) PROVE Placement'
  <2>1. CASE mark[o] = "free"
    BY <1>1, <1>3, <2>1 DEF InternString
  <2>2. CASE mark[o] # "free"
    <3>1. /\ mark' = IF IsDead(o) THEN [mark EXCEPT ![o] = currentwhite] ELSE mark
          /\ UNCHANGED <<list, owner, tofin, gcstate, currentwhite, closing, grayVars, again, todo>>
      BY <1>3, <2>2 DEF InternString
    <3>2. Grays' = Grays /\ KeepInvariant' = KeepInvariant /\ IsSweepPhase' = IsSweepPhase
      BY <3>1 DEF Grays, KeepInvariant, IsSweepPhase
    <3>3. Allocated' = Allocated /\ \A x \in Obj : mark'[x] = "free" <=> mark[x] = "free"
      BY <1>b, <2>2, <3>1 DEF Allocated
    <3>4. mark'[MainThread] \in {mark[MainThread], currentwhite}
          /\ (IsWhite(MainThread)' => IsWhite(MainThread)) /\ (IsDead(MainThread)' => IsDead(MainThread))
      BY <1>0, <1>b, <3>1, OtherWhiteType DEF IsWhite, White, IsDead, OtherWhite, Whites, TypeOK
    <3> QED BY <3>1, <3>2, <3>3, <3>4 DEF Placement, MainKept
  <2> QED BY <2>1, <2>2
<1>4. ASSUME NEW v, Pop(v) PROVE Placement'
  BY <1>4, <1>d DEF Pop
<1>5. ASSUME NEW o, NEW v, Load(o, v) \/ Transfer(o, v) PROVE Placement'
  BY <1>5, <1>d DEF Load, Transfer
<1>6. ASSUME NEW o, NEW e, ClearField(o, e) \/ SetMode(o, e) PROVE Placement'
  BY <1>6, <1>d DEF ClearField, SetMode
<1>7. ASSUME NEW o \in AtHand, NEW e, SetField(o, e) PROVE Placement'
  <2>1. PICK news : BarrierBack(o, news)
    BY <1>7 DEF SetField
  <2>2. o \in Obj /\ UNCHANGED <<list, tofin, closing, gcstate, currentwhite, owner, gray, weak, ephemeron, allweak, again, todo>>
    BY <1>7, <1>a DEF SetField
  <2>3. (\A x \in Obj : Recoloured(x)) /\ grayagain' \subseteq grayagain \cup Allocated
    BY <1>b, <2>1, <2>2 DEF BarrierBack, Recoloured, Allocated
  <2>4. Grays' \subseteq Grays \cup Allocated
    BY <2>2, <2>3 DEF Grays
  <2> QED BY <2>2, <2>3, <2>4, PlacementRecoloured
<1>8. ASSUME NEW o \in Regs, CheckFinalizer(o) PROVE Placement'
  BY <1>8, PlacementCheckFinalizer
<1>9. ASSUME NEW o, Resume(o) PROVE Placement'
  BY <1>9, <1>d DEF Resume
<1>10. ASSUME NEW o \in Obj, NEW v \in Obj, Barrier(o, v),
              UNCHANGED <<list, tofin, closing, gcstate, currentwhite, owner, grayagain, weak, ephemeron, allweak, again, todo>>
       PROVE  Placement'
  <2>1. (\A x \in Obj : Recoloured(x)) /\ gray' \subseteq gray \cup Allocated
    BY <1>10, BarrierRecolours
  <2>2. Grays' \subseteq Grays \cup Allocated
    BY <1>10, <2>1 DEF Grays
  <2> QED BY <1>10, <2>1, <2>2, PlacementRecoloured
<1>11. ASSUME NEW o \in Regs, NEW v \in Regs \cup OpenUpvals(running), SetClosure(o, v) PROVE Placement'
  BY <1>10, <1>11, <1>a, <1>b DEF SetClosure
<1>12. ASSUME NEW o \in Regs, NEW u \in ObjOfKind({"upval"}), NEW v \in Regs, SetUpval(o, u, v) PROVE Placement'
  BY <1>10, <1>12, <1>a, <1>b DEF SetUpval, ObjOfKind
<1>13. ASSUME NEW o, NEW u \in ObjOfKind({"upval"}), NEW v \in Regs, NewUpval(o, u, v) PROVE Placement'
  BY <1>13, <1>a, PlacementNewUpval DEF ObjOfKind
<1>14. ASSUME NEW u \in OpenUpvals(running), CloseUpval(u) PROVE Placement'
  <2>1. u \in Obj /\ owner[u] = running /\ running # Nil /\ mark[u] # "free"
    BY <1>14, <1>b, ConstantsAssumption DEF OpenUpvals, Placement
  <2>2. /\ CloseBarrier(u) /\ owner' = [owner EXCEPT ![u] = Nil]
        /\ UNCHANGED <<list, tofin, closing, gcstate, currentwhite, grayagain, weak, ephemeron, allweak, again, todo>>
    BY <1>14 DEF CloseUpval
  <2>3. (\A x \in Obj : Recoloured(x)) /\ gray' \subseteq gray \cup Allocated
    BY <2>1, <2>2, CloseBarrierRecolours
  <2>4. Grays' \subseteq Grays \cup Allocated /\ \A x \in Obj : owner'[x] \in {Nil, owner[x]}
    BY <1>0, <2>2, <2>3 DEF Grays, TypeOK
  <2> QED BY <2>2, <2>3, <2>4, PlacementRecoloured
<1>15. CASE Yield \/ StopGC \/ RestartGC \/ FinalizerReturn
  BY <1>15, <1>d DEF Yield, StopGC, RestartGC, FinalizerReturn
<1>16. ASSUME NEW b \in BOOLEAN, FullGC(b) PROVE Placement'
  <2>1. CASE KeepInvariant
    <3>1. EnterSweep /\ UNCHANGED currentwhite
      BY <1>16, <2>1 DEF FullGC
    <3>2. ~IsDead(MainThread)
      BY <2>1, <1>0, OtherWhiteType DEF Placement, MainKept, IsDead, IsWhite, White
    <3> QED BY <3>1, <3>2, PlacementEnterSweep
  <2>2. CASE ~KeepInvariant
    BY <1>16, <2>2, <1>d DEF FullGC
  <2> QED BY <2>1, <2>2
<1>17. CASE CloseState
  <2>1. /\ closing' = "finalizers" /\ closing = "no"
        /\ list' = [list EXCEPT !["finobj"] = <<>>, !["tobefnz"] = list["tobefnz"] \o list["finobj"]]
        /\ UNCHANGED <<mark, owner, tofin, gcstate, currentwhite, grayVars, again, todo>>
    <3>1. list = [l \in ListName |-> list[l]]
      BY <1>0 DEF Lists
    <3> QED BY <1>17, <3>1 DEF CloseState, ListName
  <2> DEFINE K == list'
  <2>2. K = [list EXCEPT !["finobj"] = <<>>, !["tobefnz"] = list["tobefnz"] \o list["finobj"]]
    BY <2>1
  <2> HIDE DEF K
  <2>3. Placed(K, Allocated, tofin)
    BY <1>0, <2>2, PlacedClose DEF Placement
  <2> QED BY <2>1, <2>3 DEF K, Placement, MainKept, Allocated, Grays, KeepInvariant, IsSweepPhase, IsWhite, White, IsDead, OtherWhite
<1> QED BY <1>2, <1>3, <1>4, <1>5, <1>6, <1>7, <1>8, <1>9, <1>11, <1>12, <1>13, <1>14, <1>15, <1>16, <1>17, <1>a DEF ProgramStep

LEMMA PlacementRest == TypeInv /\ Placement /\ (DeleteAll \/ UNCHANGED vars) => Placement'
<1> USE DEF heapVars, grayVars, atomicVars, sweepVars, runVars
<1>1. ASSUME TypeInv, Placement, DeleteAll PROVE Placement'
  <2> DEFINE s == list["allgc"]
             n == Index(s, MainThread)
             D == {s[i] : i \in 1 .. n-1}
  <2>1. /\ closing' = "done" /\ tofin' = tofin \ D
        /\ mark' = [o \in Obj |-> IF o \in D THEN "free" ELSE mark[o]]
        /\ owner' = [o \in Obj |-> IF o \in D THEN Nil ELSE owner[o]]
        /\ list' = [list EXCEPT !["allgc"] = SubSeq(s, n, Len(s))]
        /\ UNCHANGED <<gcstate, currentwhite>>
    BY <1>1 DEF DeleteAll
  <2>2. list \in Lists /\ "allgc" \in ListName /\ MainThread \in Obj /\ s \in Seq(Obj)
    BY <1>1, MainThreadPlaced DEF ListName
  <2>3. MainThread \in Elems(s)
    <3>1. s # <<>> /\ s[Len(s)] = MainThread
      BY <1>1 DEF Placement, Placed
    <3> HIDE DEF s
    <3> QED BY <2>2, <3>1 DEF Elems
  <2>4. n \in 1 .. Len(s) /\ s[n] = MainThread
    <3> HIDE DEF s
    <3> QED BY <2>2, <2>3, IndexProperties
  <2>5. MainThread \notin D
    <3>1. \A i \in 1 .. n-1 : i \in DOMAIN s /\ i # n
      BY <2>2, <2>4
    <3>2. n \in DOMAIN s /\ Distinct(s)
      BY <1>1, <2>2, <2>4 DEF Placement, Placed, Apart
    <3> HIDE DEF s, n
    <3> QED BY <2>4, <3>1, <3>2 DEF Distinct
  <2>6. SubSeq(s, n, Len(s)) = Cut(s, 0, n)
    <3> HIDE DEF s, n
    <3> QED BY <2>2, <2>4, SuffixIsCut
  <2>7. Placed(list', Allocated \ D, tofin \ D)
    <3>1. D = {s[i] : i \in 0+1 .. n-1} /\ 0 \in 0 .. Len(s) /\ n \in 0+1 .. Len(s)+1
      <4> HIDE DEF s, n
      <4> QED BY <2>2, <2>4
    <3> DEFINE l == "allgc"
    <3>2. s = list[l] /\ list' = [list EXCEPT ![l] = Cut(list[l], 0, n)] /\ l \in ListName
      BY <2>1, <2>2, <2>6
    <3> HIDE DEF D, n, l
    <3>2a. D = {list[l][i] : i \in 0+1 .. n-1} /\ 0 \in 0 .. Len(list[l]) /\ n \in 0+1 .. Len(list[l])+1
      BY <3>1, <3>2
    <3> HIDE DEF s
    <3>3. Placed([list EXCEPT ![l] = Cut(list[l], 0, n)], Allocated \ D, tofin \ D)
      BY <1>1, <2>2, <2>5, <3>2, <3>2a, PlacedCut DEF Placement
    <3> QED BY <3>2, <3>3
  <2>8. Allocated' = Allocated \ D
    BY <2>1 DEF Allocated
  <2> HIDE DEF D, n, s
  <2>9. MainKept'
    BY <1>1, <2>1, <2>2, <2>5 DEF Placement, MainKept, KeepInvariant, IsSweepPhase, IsWhite, White, IsDead, OtherWhite
  <2>10. (\A o \in Obj : mark'[o] = "free" => owner'[o] = Nil) /\ tofin' \subseteq Finalizable
    BY <1>1, <2>1 DEF Placement
  <2> QED BY <2>1, <2>7, <2>8, <2>9, <2>10 DEF Placement
<1>2. TypeInv /\ Placement /\ UNCHANGED vars => Placement'
  BY DEF vars, Placement, MainKept, Allocated, Grays, KeepInvariant, IsSweepPhase, IsWhite, White, IsDead, OtherWhite
<1> QED BY <1>1, <1>2

\* Whatever the program, the sweep, the finalizers and lua_close do, every
\* object is in exactly one of allgc, finobj and tobefnz, once; FINALIZEDBIT
\* says whether it is in the last two; the main thread ends allgc, where
\* luaC_freeallobjects stops.
THEOREM OneList == Spec => []Partition
<1> DEFINE Inv == TypeInv /\ Control /\ Placement
<1>1. Init => Inv
  BY TypeInit, ControlInit, PlacementInit
<1>2. Inv /\ [Next]_vars => Inv'
  <2> SUFFICES ASSUME Inv, [Next]_vars PROVE Inv'
    OBVIOUS
  <2>1. TypeInv'
    BY TypeCollector, TypeProgram, TypeDeleteAll, TypeStutter DEF Next
  <2>2. Control'
    BY ControlCollector, ControlProgram, ControlRest DEF Next
  <2>3. Placement'
    BY PlacementCollector, PlacementProgram, PlacementRest DEF Next
  <2> QED BY <2>1, <2>2, <2>3
<1>3. Inv => Partition
  <2> SUFFICES ASSUME Inv PROVE Partition
    OBVIOUS
  <2>1. list \in Lists
    BY MainThreadPlaced
  <2> QED BY <2>1, ApartMeans DEF Partition, Placement, Placed
<1> HIDE DEF Inv
<1> QED BY <1>1, <1>2, <1>3, PTL DEF Spec

-----------------------------------------------------------------------------
(* The order of finalizers *)

\* what FinalizationOrder says of one step
KeepsOrder ==
  \A x, y \in Elems(list'["tobefnz"]) :
    Before(list["tobefnz"], x, y)
    \/ (x \in Elems(list["tobefnz"]) /\ y \notin Elems(list["tobefnz"]))
    \/ Before(list["finobj"], x, y)
    => Before(list'["tobefnz"], x, y)

LEMMA BeforeElems ==
  ASSUME NEW s, NEW x, NEW y, Before(s, x, y)
  PROVE  x \in Elems(s) /\ y \in Elems(s)
  BY DEF Before, Elems

\* taking elements out of tobefnz, or none, keeps the order of the others
LEMMA OrderCut ==
  ASSUME list \in Lists, Apart(list), NEW z, z = list["tobefnz"],
         \/ list'["tobefnz"] = z
         \/ \E n \in 0 .. Len(z) : \E k \in n+1 .. Len(z)+1 : list'["tobefnz"] = Cut(z, n, k)
  PROVE  KeepsOrder
<1> DEFINE y0 == list'["tobefnz"]
           f  == list["finobj"]
<1>1. z \in Seq(Obj) /\ Distinct(z) /\ Elems(z) \cap Elems(f) = {}
  BY DEF Apart, Lists, ListName
<1>2. Elems(y0) \subseteq Elems(z) /\ \A x, y \in Elems(y0) : Before(z, x, y) => Before(y0, x, y)
  BY <1>1, CutElems
<1> HIDE DEF y0, f
<1>3. ASSUME NEW x \in Elems(y0), NEW y \in Elems(y0),
             Before(z, x, y) \/ (x \in Elems(z) /\ y \notin Elems(z)) \/ Before(f, x, y)
      PROVE  Before(y0, x, y)
  <2>1. ~Before(f, x, y)
    BY <1>1, <1>2, BeforeElems
  <2> QED BY <1>2, <1>3, <2>1
<1> QED BY <1>3 DEF KeepsOrder, y0, f

LEMMA OrderSweepToLive ==
  ASSUME TypeInv, list \in Lists, Apart(list),
         NEW p, p \in ListName \/ \E l \in ListName : p \in Elems(list[l]),
         list'["tobefnz"] = SweepToLive(p).list["tobefnz"]
  PROVE  KeepsOrder
<1> DEFINE l == ListOf(p)
           r == SweepToLive(p)
<1>0. TypeOK
  BY DEF TypeInv
<1>1. l \in ListName /\ Behind(p) \in 0 .. Len(list[l])
  BY <1>0, BehindType
<1>2. PICK k \in Behind(p)+1 .. Len(list[l])+1 : r.list = [list EXCEPT ![l] = Cut(list[l], Behind(p), k)]
  BY <1>0, SweepToLiveCut
<1> HIDE DEF l, r
<1>3. r.list["tobefnz"] = IF l = "tobefnz" THEN Cut(list[l], Behind(p), k) ELSE list["tobefnz"]
  BY <1>1, <1>2 DEF Lists, ListName
<1>4. CASE l = "tobefnz"
  <2> DEFINE z == list["tobefnz"]
  <2>1. list'["tobefnz"] = Cut(z, Behind(p), k) /\ Behind(p) \in 0 .. Len(z) /\ k \in Behind(p)+1 .. Len(z)+1
    BY <1>1, <1>2, <1>3, <1>4 DEF r
  <2> DEFINE n == Behind(p)
  <2>2. list'["tobefnz"] = Cut(z, n, k) /\ n \in 0 .. Len(z) /\ k \in n+1 .. Len(z)+1
    BY <2>1
  <2>3. z = list["tobefnz"]
    OBVIOUS
  <2> HIDE DEF z, n
  <2> QED BY <2>2, <2>3, OrderCut
<1>5. CASE l # "tobefnz"
  BY <1>3, <1>5, OrderCut DEF r
<1> QED BY <1>4, <1>5

LEMMA OrderStep ==
  ASSUME TypeInv, TypeInv', Placement, [Next]_vars
  PROVE  KeepsOrder
<1> USE DEF heapVars, grayVars, atomicVars, sweepVars, runVars
<1> DEFINE z == list["tobefnz"]
           f == list["finobj"]
<1>0. /\ list \in Lists /\ Apart(list) /\ z \in Seq(Obj) /\ f \in Seq(Obj) /\ TypeOK
      /\ "tobefnz" \in ListName /\ "finobj" \in ListName /\ "allgc" \in ListName
      /\ Distinct(z) /\ Distinct(f) /\ Elems(z) \cap Elems(f) = {}
  BY DEF Placement, Placed, Apart, TypeInv, TypeOK, Lists, ListName
<1>1. list'["tobefnz"] = z => KeepsOrder
  BY <1>0, OrderCut
<1>2. EnterSweep => KeepsOrder
  BY <1>0, OrderSweepToLive DEF EnterSweep
<1>3. GCTM => KeepsOrder
  <2> SUFFICES ASSUME GCTM PROVE KeepsOrder
    OBVIOUS
  <2>1. z # <<>> /\ list'["tobefnz"] = Tail(z)
    BY <1>0 DEF GCTM, Lists
  <2>2. z = list["tobefnz"]
    OBVIOUS
  <2> HIDE DEF z
  <2>3. list'["tobefnz"] = Cut(z, 0, 2) /\ 0 \in 0 .. Len(z) /\ 2 \in 0+1 .. Len(z)+1
    BY <1>0, <2>1, TailIsCut
  <2> QED BY <1>0, <2>2, <2>3, OrderCut
<1>4. AtomicSeparate => KeepsOrder
  <2> SUFFICES ASSUME AtomicSeparate, list'["tobefnz"] # z PROVE KeepsOrder
    BY <1>1
  <2> DEFINE o == f[scan]
             y0 == list'["tobefnz"]
  <2>1. y0 = Append(z, o) /\ scan \in 1 .. Len(f)
    BY <1>0 DEF AtomicSeparate, LinkLast, Lists, TypeOK
  <2>2. o \in Elems(f) /\ o \in Obj
    BY <1>0, <2>1, ElemsMember
  <2> HIDE DEF o, z, f, y0
  <2>3. Elems(y0) = Elems(z) \cup {o}
        /\ \A x, y : Before(y0, x, y) <=> Before(z, x, y) \/ (x \in Elems(z) /\ y = o)
    BY <1>0, <2>1, <2>2, AppendElems, AppendOrder
  <2>4. ~Before(f, o, o)
    BY <1>0 DEF Before, Distinct
  <2>5. \A x, y : Before(f, x, y) => x \in Elems(f) /\ y \in Elems(f)
    BY BeforeElems
  <2>6. \A x, y \in Elems(y0) :
          Before(z, x, y) \/ (x \in Elems(z) /\ y \notin Elems(z)) \/ Before(f, x, y) => Before(y0, x, y)
    BY <1>0, <2>3, <2>4, <2>5
  <2> QED BY <2>6 DEF KeepsOrder, y0, z, f
<1>5. CloseState => KeepsOrder
  <2> SUFFICES ASSUME CloseState PROVE KeepsOrder
    OBVIOUS
  <2> DEFINE y0 == list'["tobefnz"]
  <2>1. y0 = z \o f
    BY <1>0 DEF CloseState, Lists
  <2> HIDE DEF z, f, y0
  <2>2. Elems(y0) = Elems(z) \cup Elems(f)
        /\ \A x, y : Before(y0, x, y) <=> Before(z, x, y) \/ Before(f, x, y) \/ (x \in Elems(z) /\ y \in Elems(f))
    BY <1>0, <2>1, ConcatElems, ConcatOrder
  <2>3. \A x, y \in Elems(y0) :
          Before(z, x, y) \/ (x \in Elems(z) /\ y \notin Elems(z)) \/ Before(f, x, y) => Before(y0, x, y)
    BY <2>2
  <2> QED BY <2>3 DEF KeepsOrder, y0, z, f
<1>6. SweepObject => KeepsOrder
  <2> SUFFICES ASSUME SweepObject, list'["tobefnz"] # z PROVE KeepsOrder
    BY <1>1
  <2> DEFINE l == ListOf(sweepgc)
             b == Behind(sweepgc)
             n == b + 1
  <2>1. sweepgc # Nil /\ n <= Len(list[l]) /\ closing # "done"
        /\ list' = [list EXCEPT ![l] = Unlinked(list[l], n)]
    BY DEF SweepObject, CollectorRuns
  <2>2. sweepgc \in ListName \/ \E k \in ListName : sweepgc \in Elems(list[k])
    BY <1>0, <2>1 DEF TypeOK, TypeInv, SweepgcLinked
  <2>3. l \in ListName /\ b \in 0 .. Len(list[l])
    BY <2>2, <1>0, BehindType
  <2> HIDE DEF l, b
  <2>4. l = "tobefnz" /\ list'["tobefnz"] = Unlinked(z, n)
    BY <1>0, <2>1, <2>3 DEF Lists
  <2>5. b \in 0 .. Len(z) /\ n + 1 \in b+1 .. Len(z)+1
    BY <1>0, <2>1, <2>3, <2>4
  <2> DEFINE k == n + 1
  <2>6. Unlinked(z, n) = Cut(z, b, k)
    <3>1. n - 1 = b
      BY <2>3
    <3> QED BY <3>1 DEF Unlinked, Cut
  <2>7. list'["tobefnz"] = Cut(z, b, k) /\ b \in 0 .. Len(z) /\ k \in b+1 .. Len(z)+1 /\ z = list["tobefnz"]
    BY <2>4, <2>5, <2>6
  <2> HIDE DEF z, k, n
  <2> QED BY <1>0, <2>7, OrderCut
<1>7. ASSUME NEW o, CheckFinalizer(o) PROVE KeepsOrder
  <2>1. CASE SweptLast(o)
    <3>1. closing # "done" /\ o \in Obj
      BY <1>7, ConstantsAssumption DEF CheckFinalizer, ProgramRuns, ObjOfKind
    <3>2. sweepgc \in ListName \/ \E l \in ListName : sweepgc \in Elems(list[l])
      BY <2>1, <3>1 DEF TypeInv, SweepgcLinked, SweptLast
    <3>3. SweepToLive(sweepgc).list \in Lists
      <4> DEFINE r == SweepToLive(sweepgc)
      <4>1. r = SweepToLive(sweepgc)
        OBVIOUS
      <4> HIDE DEF r
      <4>2. r.list \in [ListName -> Seq(Obj)]
        BY <1>0, <3>2, <4>1, SweepToLiveType
      <4> QED BY <4>2 DEF r, Lists
    <3>4. list'["tobefnz"] = SweepToLive(sweepgc).list["tobefnz"]
      BY <1>0, <1>7, <2>1, <3>3 DEF CheckFinalizer, Lists
    <3> QED BY <1>0, <3>2, <3>4, OrderSweepToLive
  <2>2. CASE ~SweptLast(o)
    BY <1>0, <1>1, <1>7, <2>2 DEF CheckFinalizer, Lists
  <2> QED BY <2>1, <2>2
<1>8. UNCHANGED list => KeepsOrder
  BY <1>1
<1>9. ASSUME NEW s, list' = [list EXCEPT !["allgc"] = s] PROVE KeepsOrder
  BY <1>0, <1>1, <1>9 DEF Lists
<1> HIDE DEF z, f
<1>10. CASE CollectorStep
  <2>1. CASE \/ RestartCollection \/ Propagate \/ EnterAtomic \/ AtomicStart \/ AtomicPropagate
             \/ AtomicRemarkUpvals \/ AtomicGrayAgain \/ ConvergePass \/ (\E o \in Obj : ConvergeVisit(o))
             \/ AtomicClearValues \/ AtomicMarkBeingFnz \/ AtomicClearKeys
             \/ SweepNothing \/ SweepNext \/ FinalizersEnd \/ FinishCycle \/ FullGCEnd
    BY <2>1, <1>8 DEF RestartCollection, Propagate, EnterAtomic, AtomicStart, AtomicPropagate,
       AtomicRemarkUpvals, AtomicGrayAgain, ConvergePass, ConvergeVisit, AtomicClearValues,
       AtomicMarkBeingFnz, AtomicClearKeys, SweepNothing, SweepNext, FinalizersEnd, FinishCycle, FullGCEnd
  <2> QED BY <1>10, <1>2, <1>3, <1>4, <1>6, <2>1 DEF CollectorStep, AtomicEnd, CallFinalizer, NextFinalizer
<1>11. CASE ProgramStep
  <2>1. ASSUME NEW o, NewObject(o) \/ InternString(o) PROVE KeepsOrder
    BY <2>1, <1>8, <1>9 DEF NewObject, InternString
  <2>2. ASSUME NEW o, NEW u, NEW v, NewUpval(o, u, v) \/ SetUpval(o, u, v) PROVE KeepsOrder
    BY <2>2, <1>8, <1>9 DEF NewUpval, SetUpval
  <2>3. ASSUME NEW b, FullGC(b) PROVE KeepsOrder
    BY <2>3, <1>2, <1>8 DEF FullGC
  <2>4. ASSUME NEW o, NEW v, \/ Pop(v) \/ Load(o, v) \/ SetField(o, v) \/ ClearField(o, v) \/ SetMode(o, v)
                             \/ Transfer(o, v) \/ SetClosure(o, v) \/ CloseUpval(o) \/ Resume(o)
        PROVE  KeepsOrder
    BY <2>4, <1>8 DEF Pop, Load, SetField, ClearField, SetMode, Transfer, SetClosure, CloseUpval, Resume
  <2>5. Yield \/ StopGC \/ RestartGC \/ FinalizerReturn => KeepsOrder
    BY <1>8 DEF Yield, StopGC, RestartGC, FinalizerReturn
  <2> QED BY <1>11, <1>5, <1>7, <2>1, <2>2, <2>3, <2>4, <2>5 DEF ProgramStep
<1>12. CASE DeleteAll
  BY <1>12, <1>9 DEF DeleteAll
<1>13. CASE UNCHANGED vars
  BY <1>13, <1>8 DEF vars
<1> QED BY <1>10, <1>11, <1>12, <1>13 DEF Next

\* Finalizers run in the order their objects were separated, whatever new
\* garbage comes, whichever of them the sweep frees and whenever the state
\* closes: nothing enters tobefnz before what is there.
THEOREM FinalizersInOrder == Spec => FinalizationOrder
<1> DEFINE Inv == TypeInv /\ Control /\ Placement
<1>1. Init => Inv
  BY TypeInit, ControlInit, PlacementInit
<1>2. Inv /\ [Next]_vars => Inv' /\ KeepsOrder
  <2> SUFFICES ASSUME Inv, [Next]_vars PROVE Inv' /\ KeepsOrder
    OBVIOUS
  <2>1. TypeInv'
    BY TypeCollector, TypeProgram, TypeDeleteAll, TypeStutter DEF Next
  <2>2. Control'
    BY ControlCollector, ControlProgram, ControlRest DEF Next
  <2>3. Placement'
    BY PlacementCollector, PlacementProgram, PlacementRest DEF Next
  <2>4. KeepsOrder
    BY <2>1, OrderStep
  <2> QED BY <2>1, <2>2, <2>3, <2>4
<1> HIDE DEF Inv
<1>3. Spec => [][KeepsOrder]_vars
  BY <1>1, <1>2, PTL DEF Spec
<1> QED BY <1>3 DEF KeepsOrder, FinalizationOrder

-----------------------------------------------------------------------------
(* The sweep *)

\* the state is open, or nothing can collect while it closes
Orderly == closing = "no" \/ "emergency" \notin Features

\* only luaC_freeallobjects closes the state
LEMMA ClosingSteps ==
  ASSUME [Next]_vars
  PROVE  closing' = closing \/ (closing' = "finalizers" /\ CloseState) \/ (closing' = "done" /\ DeleteAll)
<1> USE DEF heapVars, grayVars, atomicVars, sweepVars, runVars
<1>1. CASE CollectorStep
  <2>1. RestartCollection \/ Propagate \/ EnterAtomic \/ AtomicStart => closing' = closing
    BY DEF RestartCollection, Propagate, EnterAtomic, AtomicStart
  <2>2. AtomicPropagate \/ AtomicRemarkUpvals \/ AtomicGrayAgain \/ ConvergePass => closing' = closing
    BY DEF AtomicPropagate, AtomicRemarkUpvals, AtomicGrayAgain, ConvergePass
  <2>3. ASSUME NEW o, ConvergeVisit(o) PROVE closing' = closing
    BY <2>3 DEF ConvergeVisit
  <2>4. AtomicClearValues \/ AtomicSeparate \/ AtomicMarkBeingFnz => closing' = closing
    BY DEF AtomicClearValues, AtomicSeparate, AtomicMarkBeingFnz
  <2>5. AtomicClearKeys \/ AtomicEnd \/ SweepObject \/ SweepNothing \/ SweepNext => closing' = closing
    BY DEF AtomicClearKeys, AtomicEnd, SweepObject, SweepNothing, SweepNext
  <2>6. CallFinalizer \/ NextFinalizer \/ FinalizersEnd \/ FinishCycle \/ FullGCEnd => closing' = closing
    BY DEF CallFinalizer, NextFinalizer, GCTM, FinalizersEnd, FinishCycle, FullGCEnd
  <2> QED BY <1>1, <2>1, <2>2, <2>3, <2>4, <2>5, <2>6 DEF CollectorStep
<1>2. CASE ProgramStep
  <2>1. ASSUME NEW o, NewObject(o) \/ InternString(o) \/ Pop(o) \/ CheckFinalizer(o) \/ Resume(o)
                     \/ CloseUpval(o)
        PROVE  closing' = closing
    BY <2>1 DEF NewObject, InternString, Pop, CheckFinalizer, Resume, CloseUpval
  <2>2. ASSUME NEW o, NEW v, Load(o, v) \/ SetField(o, v) \/ ClearField(o, v) \/ SetMode(o, v)
                             \/ Transfer(o, v) \/ SetClosure(o, v)
        PROVE  closing' = closing
    BY <2>2 DEF Load, SetField, ClearField, SetMode, Transfer, SetClosure
  <2>3. ASSUME NEW o, NEW u, NEW v, NewUpval(o, u, v) \/ SetUpval(o, u, v) PROVE closing' = closing
    BY <2>3 DEF NewUpval, SetUpval
  <2>4. Yield \/ StopGC \/ RestartGC \/ FinalizerReturn => closing' = closing
    BY DEF Yield, StopGC, RestartGC, FinalizerReturn
  <2>5. ASSUME NEW b, FullGC(b) PROVE closing' = closing
    BY <2>5 DEF FullGC
  <2>6. CloseState => closing' = "finalizers"
    BY DEF CloseState
  <2> QED BY <1>2, <2>1, <2>2, <2>3, <2>4, <2>5, <2>6 DEF ProgramStep
<1>3. CASE DeleteAll
  BY <1>3 DEF DeleteAll
<1>4. CASE UNCHANGED vars
  BY <1>4 DEF vars
<1> QED BY <1>1, <1>2, <1>3, <1>4 DEF Next

LEMMA OrderlyBefore ==
  ASSUME [Next]_vars, Orderly'
  PROVE  Orderly
  BY ClosingSteps DEF Orderly

LEMMA CollectorWhileOpen ==
  ASSUME Control, Orderly
  PROVE  /\ CollectorRuns => closing = "no"
         /\ at # "no" => closing = "no"
  BY DEF Control, Orderly, CollectorRuns

-----------------------------------------------------------------------------
(* What is still ahead of the sweep *)

Cur(o)         == mark[o] = currentwhite
AllCur(l)      == \A o \in Elems(list[l]) : Cur(o)
Ahead(p, s, o) == p \in ListName \/ Before(s, p, o)
SweepAt(l)     == /\ sweepgc \in {Nil, l} \cup Elems(list[l])
                  /\ \A o \in Elems(list[l]) : Cur(o) \/ Ahead(sweepgc, list[l], o)

\* each object of the lists the sweep has passed, and of the one it is in
\* behind its position, has the current white; outside a sweep no object has
\* the other white
Sweeping ==
  /\ closing = "no" =>
       /\ gcstate = "swpallgc" => SweepAt("allgc")
       /\ gcstate = "swpfinobj" => AllCur("allgc") /\ SweepAt("finobj")
       /\ gcstate = "swptobefnz" => AllCur("allgc") /\ AllCur("finobj") /\ SweepAt("tobefnz")
       /\ gcstate = "swpend" => sweepgc = Nil /\ \A o \in Allocated : Cur(o)
  /\ gcstate \in {"callfin", "pause"} => \A o \in Allocated : Cur(o)
  /\ at = "flip" => \A o \in Obj : ~Cur(o)
  /\ ~IsSweepPhase /\ at # "flip" => \A o \in Obj : ~IsDead(o)

LEMMA AheadIndex ==
  ASSUME list \in Lists, Apart(list), NEW l \in ListName,
         NEW p, p = l \/ p \in Elems(list[l])
  PROVE  /\ ListOf(p) = l
         /\ Behind(p) \in 0 .. Len(list[l])
         /\ \A i \in 1 .. Len(list[l]) : Ahead(p, list[l], list[l][i]) <=> i > Behind(p)
<1> DEFINE s == list[l]
<1>1. s \in Seq(Obj) /\ Distinct(s) /\ DOMAIN s = 1 .. Len(s)
  BY DEF Lists, Apart
<1>2. \A k \in ListName : Elems(list[k]) \subseteq Obj
  BY DEF Lists, Elems
<1>3. Obj \cap ListName = {}
  BY ConstantsAssumption
<1>4. \A k \in ListName : p = k \/ p \in Elems(list[k]) => k = l
  BY <1>2, <1>3 DEF Apart
<1>5. ListOf(p) = l
  BY <1>4 DEF ListOf
<1>6. CASE p \in ListName
  <2>1. Behind(p) = 0
    BY <1>6 DEF Behind
  <2> QED BY <1>1, <1>5, <1>6, <2>1 DEF Ahead
<1>7. CASE p \notin ListName
  <2>1. p \in Elems(s) /\ Behind(p) = Index(s, p)
    BY <1>5, <1>7 DEF Behind
  <2> DEFINE n == Index(s, p)
  <2>2. n \in 1 .. Len(s) /\ s[n] = p
    <3> HIDE DEF s
    <3> QED BY <1>1, <2>1, IndexProperties
  <2> HIDE DEF n, s
  <2>3. \A i \in 1 .. Len(s) : Before(s, p, s[i]) <=> i > n
    BY <1>1, <2>2 DEF Before, Distinct
  <2> QED BY <1>1, <1>5, <1>7, <2>1, <2>2, <2>3 DEF Ahead, s, n
<1> QED BY <1>6, <1>7

\* sweeptolive leaves nothing with the old white behind the position it finds
LEMMA SweepToLiveAt ==
  ASSUME TypeOK, Apart(list), NEW p, p \in ListName \/ \E k \in ListName : p \in Elems(list[k]),
         NEW r, r = SweepToLive(p),
         \A x \in Elems(list[ListOf(p)]) : Cur(x) \/ Ahead(p, list[ListOf(p)], x),
         \A x \in Obj \ r.dead : Cur(x) => Cur(x)',
         \A x \in r.live : Cur(x)'
  PROVE  LET s == r.list[ListOf(p)]
         IN  /\ r.sweepgc \in {Nil} \cup Elems(s) /\ r.sweepgc # p
             /\ \A x \in Elems(s) : Cur(x)' \/ Before(s, r.sweepgc, x)
<1> DEFINE l == ListOf(p)
           s == list[l]
           n == Behind(p)
<1>0. l \in ListName /\ (p = l \/ p \in Elems(list[l]))
  BY DEF ListOf
<1>1. list \in Lists /\ s \in Seq(Obj) /\ Distinct(s)
  BY <1>0 DEF Lists, TypeOK, Apart
<1>2. /\ n \in 0 .. Len(s)
      /\ \A i \in 1 .. Len(s) : Ahead(p, s, s[i]) <=> i > n
  <2> HIDE DEF n, l
  <2> QED BY <1>0, <1>1, AheadIndex DEF n
<1>3. PICK k \in n+1 .. Len(s)+1 :
         /\ r.list = [list EXCEPT ![l] = Cut(s, n, k)]
         /\ r.dead = {s[i] : i \in n+1 .. k-1}
         /\ r.live = IF k <= Len(s) THEN {s[k]} ELSE {}
         /\ r.sweepgc = IF k >= Len(s) THEN Nil ELSE s[k]
  BY SweepToLiveCut
<1> DEFINE t == Cut(s, n, k)
<1> HIDE DEF l
<1>4. r.list[l] = t
  BY <1>0, <1>1, <1>3 DEF Lists
<1> HIDE DEF s, n, t
<1>5. /\ Elems(t) = Elems(s) \ r.dead
      /\ \A x, y \in Elems(t) : Before(t, x, y) <=> Before(s, x, y)
  BY <1>1, <1>2, <1>3, CutElems DEF t
<1>6. \A i \in 1 .. Len(s) : s[i] \in Elems(s) /\ s[i] \in Obj
  BY <1>1 DEF Elems
<1>7. k <= Len(s) => s[k] \in Elems(t)
  <2> SUFFICES ASSUME k <= Len(s) PROVE s[k] \in Elems(t)
    OBVIOUS
  <2>1. k \in 1 .. Len(s) /\ \A i \in n+1 .. k-1 : i \in 1 .. Len(s) /\ i # k
    BY <1>2
  <2>2. s[k] \notin r.dead
    BY <1>1, <1>3, <2>1 DEF Distinct
  <2> QED BY <1>5, <1>6, <2>1, <2>2
<1>8. ASSUME NEW x \in Elems(t) PROVE Cur(x)' \/ Before(t, r.sweepgc, x)
  <2>1. PICK i \in 1 .. Len(s) : s[i] = x
    BY <1>1, <1>5, ElemsMember
  <2>2. x \notin r.dead /\ x \in Obj /\ x \in Elems(s)
    BY <1>5, <1>6, <2>1
  <2>3. CASE i <= n
    <3>1. ~Ahead(p, s, x)
      BY <1>2, <2>1, <2>3
    <3> QED BY <2>2, <3>1 DEF s, l
  <2>4. CASE i \in n+1 .. k-1
    BY <1>3, <2>1, <2>2, <2>4
  <2>5. CASE i = k
    <3>1. x \in r.live
      BY <1>3, <2>1, <2>5
    <3> QED BY <3>1
  <2>6. CASE i > k
    <3>1. k < Len(s) /\ k \in 1 .. Len(s)
      BY <1>2, <2>1, <2>6
    <3>2. r.sweepgc = s[k] /\ s[k] \in Elems(t)
      BY <1>3, <1>7, <3>1
    <3>3. Before(s, s[k], x)
      BY <1>1, <2>1, <2>6, <3>1 DEF Before
    <3> QED BY <1>5, <3>2, <3>3
  <2> QED BY <1>2, <2>1, <2>3, <2>4, <2>5, <2>6
<1>9. r.sweepgc \in {Nil} \cup Elems(t)
  <2>1. CASE k >= Len(s)
    BY <1>3, <2>1
  <2>2. CASE ~(k >= Len(s))
    BY <1>1, <1>2, <1>3, <1>7, <2>2
  <2> QED BY <2>1, <2>2
<1>10. r.sweepgc # p
  <2>1. p # Nil
    BY ConstantsAssumption DEF ListName, Elems, TypeOK
  <2>2. CASE k >= Len(s)
    BY <1>3, <2>1, <2>2
  <2>3. CASE ~(k >= Len(s))
    <3>1. k \in 1 .. Len(s) /\ k > n /\ r.sweepgc = s[k]
      BY <1>1, <1>2, <1>3, <2>3
    <3>2. Ahead(p, s, s[k]) /\ s[k] \in Obj
      BY <1>2, <1>6, <3>1
    <3>3. ~Before(s, p, p)
      BY <1>1 DEF Before, Distinct
    <3> QED BY <3>1, <3>2, <3>3, ConstantsAssumption DEF Ahead
  <2> QED BY <2>2, <2>3
<1> QED BY <1>4, <1>8, <1>9, <1>10 DEF l

LEMMA SweepingInit == Init => Sweeping
  BY OtherWhiteType, ConstantsAssumption
     DEF Init, Sweeping, IsSweepPhase, Allocated, Cur, IsDead, OtherWhite

\* a step that starts and ends no phase: white objects stay so unless the
\* collector marks, nothing gets the other white, new objects and those that
\* change lists get the current one, and lists keep their order
LEMMA SweepingKept ==
  ASSUME TypeOK, Sweeping, UNCHANGED <<gcstate, currentwhite, sweepgc, closing>>,
         at' # "flip", at # "flip",
         ~KeepInvariant => \A x \in Obj : Cur(x) => Cur(x)',
         \A x \in Obj : IsDead(x)' => IsDead(x),
         ~KeepInvariant => \A x \in Obj : mark'[x] # "free" => Cur(x)' \/ mark[x] # "free",
         closing = "no" /\ IsSweepPhase =>
           /\ sweepgc \in Obj => \A l \in ListName : sweepgc \in Elems(list[l]) => sweepgc \in Elems(list'[l])
           /\ \A l \in ListName : \A x \in Elems(list'[l]) :
                Cur(x)' \/ (x \in Elems(list[l])
                            /\ (Before(list[l], sweepgc, x) => Before(list'[l], sweepgc, x)))
  PROVE  Sweeping'
<1>1. IsSweepPhase' = IsSweepPhase /\ (IsSweepPhase => ~KeepInvariant)
      /\ (gcstate \in {"callfin", "pause"} => ~KeepInvariant)
  BY DEF IsSweepPhase, KeepInvariant
<1>2. (gcstate \in {"callfin", "pause"} => \A o \in Allocated : Cur(o))'
  BY <1>1 DEF Sweeping, Allocated
<1>3. (~IsSweepPhase /\ at # "flip" => \A o \in Obj : ~IsDead(o))'
  BY <1>1 DEF Sweeping
<1>4. ASSUME closing = "no", IsSweepPhase
      PROVE  /\ \A l \in ListName : AllCur(l) => AllCur(l)'
             /\ \A l \in ListName : SweepAt(l) => SweepAt(l)'
  <2>1. ~KeepInvariant /\ \A l \in ListName : list[l] \in Seq(Obj)
    BY <1>1, <1>4 DEF TypeOK
  <2>2. \A l \in ListName : \A x \in Elems(list[l]) : x \in Obj
    BY <2>1 DEF Elems
  <2>3. \A l \in ListName : \A x \in Elems(list'[l]) : Cur(x)' \/ x \in Elems(list[l])
    BY <1>4
  <2>4. \A l \in ListName : AllCur(l) => AllCur(l)'
    BY <2>1, <2>2, <2>3 DEF AllCur
  <2>5. ASSUME NEW l \in ListName, SweepAt(l) PROVE SweepAt(l)'
    <3>1. sweepgc' \in {Nil, l} \cup Elems(list'[l])
      BY <1>4, <2>2, <2>5 DEF SweepAt
    <3>2. ASSUME NEW x \in Elems(list'[l]), ~Cur(x)' PROVE Ahead(sweepgc', list'[l], x)
      <4>1. x \in Elems(list[l]) /\ (Before(list[l], sweepgc, x) => Before(list'[l], sweepgc, x))
        BY <1>4, <3>2
      <4>2. ~Cur(x)
        BY <2>1, <2>2, <3>2, <4>1
      <4>3. Ahead(sweepgc, list[l], x)
        BY <2>5, <4>1, <4>2 DEF SweepAt
      <4> QED BY <4>1, <4>3 DEF Ahead
    <3> QED BY <3>1, <3>2 DEF SweepAt
  <2> QED BY <2>4, <2>5
<1>5. (gcstate = "swpend" /\ closing = "no" => sweepgc = Nil /\ \A o \in Allocated : Cur(o))'
  BY <1>1 DEF Sweeping, Allocated, IsSweepPhase, KeepInvariant
<1> QED
  BY <1>2, <1>3, <1>4, <1>5 DEF Sweeping, IsSweepPhase, ListName

LEMMA SweepingFrame ==
  ASSUME TypeOK, Sweeping, UNCHANGED <<mark, list, gcstate, currentwhite, sweepgc>>,
         closing = "no" \/ closing' # "no",
         at' # "flip", at # "flip"
  PROVE  Sweeping'
  BY DEF Sweeping, SweepAt, AllCur, Cur, Ahead, IsDead, OtherWhite, IsSweepPhase, Allocated

\* while the collector marks, only the absence of the other white matters
LEMMA SweepingMarking ==
  ASSUME TypeOK, Sweeping, Darker, UNCHANGED currentwhite, at # "flip", ~IsSweepPhase,
         KeepInvariant', at' # "flip"
  PROVE  Sweeping'
<1>1. \A x \in Obj : ~IsDead(x)'
  BY OtherWhiteType DEF Sweeping, Darker, IsDead, OtherWhite, Whites
<1> QED BY <1>1 DEF Sweeping, KeepInvariant, IsSweepPhase

LEMMA SweptColours ==
  ASSUME TypeInv, Placement, NEW D \in SUBSET Obj, NEW W \in SUBSET Allocated, Swept(D, W),
         UNCHANGED currentwhite, D \cap W = {}
  PROVE  /\ \A x \in Obj \ D : Cur(x) => Cur(x)'
         /\ \A x \in Obj : IsDead(x)' => IsDead(x)
         /\ \A x \in W : Cur(x)'
         /\ \A x \in Obj : mark'[x] # "free" => mark[x] # "free"
<1>0. TypeOK /\ \A o \in Obj : mark[o] = "free" => owner[o] = Nil
  BY DEF TypeInv, Placement
<1>1. \A o \in Obj \ D : \/ mark'[o] = mark[o] /\ o \notin W
                         \/ o \in W /\ mark'[o] = currentwhite
                         \/ ~IsWhite(o) /\ mark[o] # "free"
                            /\ mark'[o] \in {currentwhite, "black"}
  BY <1>0, SweptMarks
<1>2. \A o \in D : mark'[o] = "free"
  BY DEF Swept
<1>3. \A o \in W : mark'[o] = currentwhite
  BY DEF Swept, Allocated
<1>4. currentwhite \in Whites /\ OtherWhite # currentwhite /\ OtherWhite \in Whites /\ OtherWhite' = OtherWhite
  BY <1>0, OtherWhiteType DEF OtherWhite, Whites, TypeOK
<1>5. \A x \in W : x \in Obj /\ mark[x] # "free"
  BY DEF Allocated
<1> QED BY <1>1, <1>2, <1>3, <1>4, <1>5 DEF Cur, IsDead, IsWhite, White, Whites

LEMMA SweepingEnterSweep ==
  ASSUME TypeInv, Placement, EnterSweep, UNCHANGED <<currentwhite, closing>>, ~IsDead(MainThread),
         at' = "no"
  PROVE  Sweeping'
<1> DEFINE p == "allgc"
           r == SweepToLive(p)
           D == r.dead
           W == r.live
<1>1. /\ Swept(D, W) /\ list' = r.list /\ sweepgc' = r.sweepgc /\ gcstate' = "swpallgc"
  BY DEF EnterSweep
<1>2. p \in ListName /\ TypeOK /\ list \in Lists /\ Apart(list) /\ r = SweepToLive(p)
  BY MainThreadPlaced DEF ListName, TypeInv, Placement, Placed
<1> HIDE DEF r, p
<1>3. D \in SUBSET Obj /\ W \in SUBSET Allocated /\ D \cap W = {}
  <2>1. (\A o \in r.dead : o \in Allocated) /\ r.live \subseteq Allocated /\ r.dead \cap r.live = {}
    BY <1>2, SweepToLivePlaced DEF Placement
  <2> QED BY <2>1 DEF Allocated
<1> HIDE DEF D, W
<1>4. /\ \A x \in Obj \ D : Cur(x) => Cur(x)'
      /\ \A x \in W : Cur(x)'
  BY <1>1, <1>3, SweptColours
<1>5. ListOf(p) = p /\ \A x \in Elems(list[p]) : Ahead(p, list[p], x)
  <2>1. ListOf(p) = p
    BY <1>2, AheadIndex
  <2> QED BY <1>2, <2>1 DEF Ahead
<1>6. /\ r.sweepgc \in {Nil} \cup Elems(r.list[p])
      /\ \A x \in Elems(r.list[p]) : Cur(x)' \/ Before(r.list[p], r.sweepgc, x)
  <2>1. LET s == r.list[ListOf(p)]
        IN  /\ r.sweepgc \in {Nil} \cup Elems(s)
            /\ \A x \in Elems(s) : Cur(x)' \/ Before(s, r.sweepgc, x)
    BY <1>2, <1>4, <1>5, SweepToLiveAt DEF D, W
  <2> QED BY <1>5, <2>1
<1>7. SweepAt("allgc")'
  BY <1>1, <1>6 DEF SweepAt, Ahead, p
<1> QED BY <1>1, <1>7 DEF Sweeping, IsSweepPhase

\* the list the sweep is in
Current ==
  IF gcstate = "swpallgc" THEN "allgc" ELSE IF gcstate = "swpfinobj" THEN "finobj" ELSE "tobefnz"

LEMMA CurrentAt ==
  ASSUME TypeInv, Placement, Sweeping, closing = "no", closing # "done",
         gcstate \in {"swpallgc", "swpfinobj", "swptobefnz"}
  PROVE  /\ Current \in ListName /\ SweepAt(Current)
         /\ sweepgc # Nil => ListOf(sweepgc) = Current
         /\ sweepgc = Nil => AllCur(Current)
<1>1. Current \in ListName /\ SweepAt(Current)
  BY DEF Current, ListName, Sweeping
<1>2. ASSUME sweepgc # Nil PROVE ListOf(sweepgc) = Current
  <2>1. sweepgc = Current \/ sweepgc \in Elems(list[Current])
    BY <1>1, <1>2 DEF SweepAt
  <2>2. list \in Lists /\ Apart(list)
    BY DEF TypeInv, TypeOK, Lists, Placement, Placed
  <2> QED BY <1>1, <2>1, <2>2, AheadIndex
<1>3. ASSUME sweepgc = Nil PROVE AllCur(Current)
  <2>1. \A x : ~Before(list[Current], Nil, x)
    <3>1. list[Current] \in Seq(Obj)
      BY <1>1 DEF TypeInv, TypeOK
    <3> QED BY <3>1, ConstantsAssumption DEF Before
  <2> QED BY <1>1, <1>3, <2>1, ConstantsAssumption DEF SweepAt, AllCur, Ahead
<1> QED BY <1>1, <1>2, <1>3

LEMMA SweepingObject ==
  ASSUME TypeInv, Placement, Sweeping, closing = "no", SweepObject
  PROVE  Sweeping'
<1> USE DEF atomicVars, runVars
<1> DEFINE c == Current
           p == sweepgc
           n == Behind(p) + 1
           s == list[c]
           o == s[n]
<1>1. /\ gcstate \in {"swpallgc", "swpfinobj", "swptobefnz"} /\ p # Nil
      /\ UNCHANGED <<gcstate, currentwhite, closing, at>> /\ at = "no"
  BY DEF SweepObject, CollectorRuns
<1>2. c \in ListName /\ SweepAt(c) /\ ListOf(p) = c /\ (p = c \/ p \in Elems(s))
  BY <1>1, CurrentAt DEF SweepAt
<1>3. /\ n <= Len(s)
      /\ IF IsDead(o)
         THEN /\ Swept({o}, {}) /\ list' = [list EXCEPT ![c] = Unlinked(s, n)]
              /\ sweepgc' = IF n = Len(s) THEN Nil ELSE p
         ELSE /\ Swept({}, {o}) /\ UNCHANGED list
              /\ sweepgc' = IF n = Len(s) THEN Nil ELSE o
  BY <1>2 DEF SweepObject
<1>4. /\ TypeOK /\ list \in Lists /\ Apart(list) /\ s \in Seq(Obj) /\ Distinct(s)
      /\ \A l \in ListName : Elems(list[l]) \subseteq Allocated
  BY <1>2, MainThreadPlaced DEF Placement, Placed, Apart, TypeInv, Lists
<1>5. /\ n \in 1 .. Len(s)
      /\ \A i \in 1 .. Len(s) : Ahead(p, s, s[i]) <=> i > n - 1
  <2>1. /\ Behind(p) \in 0 .. Len(s)
        /\ \A i \in 1 .. Len(s) : Ahead(p, s, s[i]) <=> i > Behind(p)
    <3> HIDE DEF c, p
    <3> QED BY <1>2, <1>4, AheadIndex
  <2> DEFINE b == Behind(p)
  <2> HIDE DEF b, s
  <2> QED BY <1>3, <2>1 DEF b
<1>6. \A x \in Elems(s) : Cur(x) \/ Ahead(p, s, x)
  BY <1>2 DEF SweepAt
<1> HIDE DEF c, p, n, s
<1>7. o \in Elems(s) /\ o \in Allocated /\ o \in Obj
  <2>1. o \in Elems(s)
    BY <1>4, <1>5, ElemsMember
  <2> QED BY <1>2, <1>4, <2>1 DEF s, Allocated
<1> HIDE DEF o
<1>8. SweepAt(c)' /\ \A l \in ListName \ {c} : AllCur(l) => AllCur(l)'
  <2>1. CASE IsDead(o)
    <3> DEFINE D == {o}
    <3>1. D \in SUBSET Obj /\ {} \in SUBSET Allocated /\ Swept(D, {}) /\ D \cap {} = {}
      BY <1>3, <1>7, <2>1
    <3>2. \A x \in Obj \ D : Cur(x) => Cur(x)'
      <4> HIDE DEF D
      <4> QED BY <1>1, <3>1, SweptColours
    <3> DEFINE t == Cut(s, n - 1, n + 1)
    <3>3. Elems(t) = Elems(s) \ {o} /\ \A x, y \in Elems(t) : Before(t, x, y) <=> Before(s, x, y)
      <4>1. n - 1 \in 0 .. Len(s) /\ n + 1 \in (n - 1) + 1 .. Len(s) + 1
            /\ (n - 1) + 1 .. (n + 1) - 1 = {n}
        BY <1>5
      <4>2. {s[i] : i \in (n - 1) + 1 .. (n + 1) - 1} = {o}
        BY <4>1 DEF o
      <4> QED BY <1>4, <4>1, <4>2, CutElems
    <3>4. list' = [list EXCEPT ![c] = t] /\ sweepgc' = IF n = Len(s) THEN Nil ELSE p
      BY <1>3, <2>1 DEF Unlinked, Cut
    <3> HIDE DEF t
    <3>5. list'[c] = t /\ \A l \in ListName \ {c} : list'[l] = list[l]
      BY <1>2, <1>4, <3>4 DEF Lists
    <3>6. ASSUME NEW x \in Elems(t) PROVE Cur(x)' \/ (n # Len(s) /\ Ahead(p, t, x))
      <4>1. x \in Obj \ D /\ x \in Elems(s)
        BY <1>2, <1>4, <3>3 DEF s, Allocated
      <4>2. CASE Cur(x)
        BY <3>2, <4>1, <4>2
      <4>3. CASE ~Cur(x)
        <5>1. Ahead(p, s, x)
          BY <1>6, <4>1, <4>3
        <5>2. PICK i \in 1 .. Len(s) : s[i] = x
          BY <1>4, <4>1, ElemsMember
        <5>3. i # n
          BY <4>1, <5>2 DEF o
        <5>4. i > n - 1
          BY <1>5, <5>1, <5>2
        <5>5. n # Len(s)
          BY <1>5, <5>3, <5>4
        <5>6. p \in ListName \/ (p \in Elems(t) /\ Before(s, p, x))
          <6>1. CASE p \in Elems(s) /\ p \notin ListName
            <7>1. ~Before(s, p, p)
              BY <1>4 DEF Before, Distinct
            <7>2. Ahead(p, s, o)
              BY <1>5 DEF o
            <7> QED BY <3>3, <5>1, <6>1, <7>1, <7>2 DEF Ahead
          <6> QED BY <1>2, <6>1
        <5> QED BY <3>3, <5>5, <5>6 DEF Ahead
      <4> QED BY <4>2, <4>3
    <3>7. p \in {c} \cup Elems(t)
      <4>1. CASE p \in Elems(s) /\ p # c
        <5>1. ~Before(s, p, p)
          BY <1>4 DEF Before, Distinct
        <5>2. Ahead(p, s, o)
          BY <1>5 DEF o
        <5>3. p \notin ListName
          BY <1>2, <1>4, <4>1, ConstantsAssumption DEF s, Allocated
        <5> QED BY <3>3, <4>1, <5>1, <5>2, <5>3 DEF Ahead
      <4> QED BY <1>2, <4>1
    <3>8. SweepAt(c)'
      <4>1. c' = c
        BY <1>1 DEF c, Current
      <4> QED BY <3>4, <3>5, <3>6, <3>7, <4>1 DEF SweepAt
    <3>9. \A l \in ListName \ {c} : AllCur(l) => AllCur(l)'
      <4>1. \A l \in ListName \ {c} : o \notin Elems(list[l])
        BY <1>2, <1>4, <1>7 DEF Apart, s
      <4>2. \A l \in ListName \ {c} : \A x \in Elems(list[l]) : x \in Obj \ D
        BY <1>4, <4>1 DEF Allocated
      <4> QED BY <3>2, <3>5, <4>2 DEF AllCur
    <3> QED BY <3>8, <3>9
  <2>2. CASE ~IsDead(o)
    <3> DEFINE W == {o}
    <3>1. {} \in SUBSET Obj /\ W \in SUBSET Allocated /\ Swept({}, W) /\ {} \cap W = {}
          /\ UNCHANGED list /\ sweepgc' = IF n = Len(s) THEN Nil ELSE o
      BY <1>3, <1>7, <2>2
    <3> DEFINE D == {}
    <3>2. (\A x \in Obj : Cur(x) => Cur(x)') /\ \A x \in W : Cur(x)'
      <4>1. D \in SUBSET Obj /\ W \in SUBSET Allocated /\ Swept(D, W) /\ D \cap W = {}
        BY <3>1
      <4>2. Obj \ D = Obj
        OBVIOUS
      <4> HIDE DEF W, D
      <4> QED BY <1>1, <4>1, <4>2, SweptColours
    <3>3. c' = c
      BY <1>1 DEF c, Current
    <3>4. ASSUME NEW x \in Elems(s) PROVE Cur(x)' \/ (n # Len(s) /\ Before(s, o, x))
      <4>1. PICK i \in 1 .. Len(s) : s[i] = x
        BY <1>4, ElemsMember
      <4>2. CASE i < n
        <5>1. ~Ahead(p, s, x)
          BY <1>5, <4>1, <4>2
        <5>2. x \in Obj
          BY <1>2, <1>4 DEF s, Allocated
        <5> QED BY <1>6, <3>2, <5>1, <5>2
      <4>3. CASE i = n
        <5>1. x \in W
          BY <4>1, <4>3 DEF o
        <5> QED BY <3>2, <5>1
      <4>4. CASE i > n
        BY <1>4, <1>5, <4>1, <4>4 DEF o, Before
      <4> QED BY <1>5, <4>2, <4>3, <4>4
    <3>5. SweepAt(c)'
      <4>1. list'[c] = s
        BY <3>1 DEF s
      <4> QED BY <1>7, <3>1, <3>3, <3>4, <4>1 DEF SweepAt, Ahead
    <3>6. \A l \in ListName : \A x \in Elems(list[l]) : x \in Obj
      BY <1>4 DEF Allocated
    <3> QED BY <3>1, <3>2, <3>5, <3>6 DEF AllCur
  <2> QED BY <2>1, <2>2
<1> QED BY <1>1, <1>8 DEF c, Current, Sweeping, IsSweepPhase, ListName

LEMMA SweepingNext ==
  ASSUME TypeInv, Placement, Sweeping, closing = "no", SweepNothing \/ SweepNext
  PROVE  Sweeping'
<1> USE DEF heapVars, atomicVars, runVars
<1>1. UNCHANGED <<mark, list, currentwhite, closing, at>> /\ at = "no"
  BY DEF SweepNothing, SweepNext, CollectorRuns
<1>2. /\ TypeOK /\ list \in Lists /\ Apart(list)
      /\ \A l \in ListName : list[l] \in Seq(Obj) /\ Elems(list[l]) \subseteq Allocated
      /\ \A o \in Allocated : \E l \in ListName : o \in Elems(list[l])
  BY MainThreadPlaced DEF Placement, Placed, TypeInv
<1>3. \A l \in ListName : AllCur(l) => AllCur(l)'
  BY <1>1 DEF AllCur, Cur
<1>4. CASE SweepNothing
  <2> DEFINE c == Current
  <2>1. /\ gcstate \in {"swpallgc", "swpfinobj", "swptobefnz"} /\ sweepgc # Nil /\ sweepgc' = Nil
        /\ Behind(sweepgc) = Len(list[ListOf(sweepgc)]) /\ gcstate' = gcstate
    BY <1>4 DEF SweepNothing
  <2>2. c \in ListName /\ SweepAt(c) /\ ListOf(sweepgc) = c
    BY <2>1, CurrentAt
  <2> HIDE DEF c
  <2>3. \A i \in 1 .. Len(list[c]) : ~Ahead(sweepgc, list[c], list[c][i])
    <3>1. \A i \in 1 .. Len(list[c]) : Ahead(sweepgc, list[c], list[c][i]) <=> i > Behind(sweepgc)
      BY <1>2, <2>1, <2>2, AheadIndex DEF SweepAt
    <3> QED BY <1>2, <2>1, <2>2, <3>1
  <2>4. AllCur(c)
    <3>1. \A x \in Elems(list[c]) : \E i \in 1 .. Len(list[c]) : list[c][i] = x
      BY <1>2, <2>2, ElemsMember
    <3> QED BY <2>2, <2>3, <3>1 DEF SweepAt, AllCur
  <2>5. SweepAt(c)'
    <3>1. c' = c
      BY <2>1 DEF c, Current
    <3>2. list'[c] = list[c] /\ \A x \in Elems(list'[c]) : Cur(x)'
      BY <1>1, <2>4 DEF AllCur, Cur
    <3> QED BY <2>1, <3>1, <3>2 DEF SweepAt
  <2> QED BY <1>1, <1>3, <2>1, <2>2, <2>5 DEF Sweeping, IsSweepPhase, Current, c, ListName
<1>5. CASE SweepNext
  <2>1. sweepgc = Nil
    BY <1>5 DEF SweepNext
  <2>2. gcstate \in {"swpallgc", "swpfinobj", "swptobefnz"} => AllCur(Current)
    BY <2>1, CurrentAt
  <2>3. \A l \in ListName : sweepgc' = l => SweepAt(l)'
    BY DEF SweepAt, Ahead
  <2>4. CASE gcstate = "swpallgc"
    <3>1. AllCur("allgc") /\ gcstate' = "swpfinobj" /\ sweepgc' = "finobj"
      BY <1>5, <2>2, <2>4 DEF SweepNext, Current
    <3> QED BY <1>1, <1>3, <2>3, <3>1 DEF Sweeping, IsSweepPhase, ListName
  <2>5. CASE gcstate = "swpfinobj"
    <3>1. AllCur("allgc") /\ AllCur("finobj") /\ gcstate' = "swptobefnz" /\ sweepgc' = "tobefnz"
      BY <1>5, <2>2, <2>5 DEF SweepNext, Current, Sweeping
    <3> QED BY <1>1, <1>3, <2>3, <3>1 DEF Sweeping, IsSweepPhase, ListName
  <2>6. CASE gcstate = "swptobefnz"
    <3>1. /\ AllCur("allgc") /\ AllCur("finobj") /\ AllCur("tobefnz")
          /\ gcstate' = "swpend" /\ sweepgc' = Nil
      BY <1>5, <2>2, <2>6 DEF SweepNext, Current, Sweeping
    <3>2. \A o \in Allocated : Cur(o)
      BY <1>2, <3>1 DEF AllCur, ListName
    <3>3. (\A o \in Allocated : Cur(o))'
      BY <1>1, <3>2 DEF Allocated, Cur
    <3> QED BY <1>1, <3>1, <3>3 DEF Sweeping, IsSweepPhase
  <2>7. CASE gcstate = "swpend"
    <3>1. (\A o \in Allocated : Cur(o)) /\ gcstate' = "callfin"
      BY <1>5, <2>7 DEF SweepNext, Sweeping
    <3>2. (\A o \in Allocated : Cur(o))'
      BY <1>1, <3>1 DEF Allocated, Cur
    <3>3. \A o \in Obj : ~IsDead(o)'
      BY <1>1, <1>2, <3>1, OtherWhiteType
         DEF Allocated, Cur, IsDead, OtherWhite, Whites, TypeOK
    <3> QED BY <1>1, <3>1, <3>2, <3>3 DEF Sweeping, IsSweepPhase
  <2> QED BY <1>5, <2>4, <2>5, <2>6, <2>7 DEF SweepNext
<1> QED BY <1>4, <1>5

LEMMA SweepingGCTM ==
  ASSUME TypeInv, Sweeping, GCTM, at = "no",
         closing = "no" => gcstate \in {"callfin", "pause"}
  PROVE  Sweeping'
<1>1. UNCHANGED <<gcstate, currentwhite, closing, at>>
  BY DEF GCTM, sweepVars, atomicVars, runVars
<1>2. ~IsSweepPhase => UNCHANGED mark
  BY DEF GCTM, Repainted
<1> QED
  BY <1>1, <1>2 DEF Sweeping, IsSweepPhase, Allocated, Cur, IsDead, OtherWhite

LEMMA SweepingCollector ==
  ASSUME TypeInv, Control, Placement, Sweeping, Orderly, CollectorStep
  PROVE  Sweeping'
<1> USE DEF heapVars, grayVars, atomicVars, sweepVars, runVars
<1>0. TypeOK /\ mark[MainThread] # "free" /\ MainThread \in Obj
  BY MainThreadPlaced DEF TypeInv
<1>a. /\ BeingFnz \in SUBSET Obj /\ RootTables \in SUBSET Obj /\ running \in Obj
  <2>1. \A l \in ListName : list[l] \in Seq(Obj)
    BY <1>0 DEF TypeOK
  <2> QED BY <2>1, <1>0, ConstantsAssumption DEF BeingFnz, Elems, ListName, ObjOfKind, TypeOK
<1>b. /\ gcstate = "atomic" <=> at # "no"
      /\ CollectorRuns \/ at # "no" => closing = "no"
      /\ KeepInvariant => ~IsSweepPhase
  BY CollectorWhileOpen DEF Control, KeepInvariant, IsSweepPhase
<1>c. at # "no" => KeepInvariant /\ closing # "done"
  BY <1>b DEF KeepInvariant
<1>d. KeepInvariant /\ closing # "done" => Grays \subseteq Allocated
  BY DEF Placement
<1>e. ASSUME KeepInvariant \/ gcstate = "pause", Darker, KeepInvariant', UNCHANGED currentwhite,
             at # "flip", at' # "flip"
      PROVE  Sweeping'
  <2>1. ~IsSweepPhase
    BY <1>b, <1>e DEF IsSweepPhase
  <2> QED BY <1>0, <1>e, <2>1, SweepingMarking
<1>f. UNCHANGED <<mark, list, gcstate, currentwhite, sweepgc, closing>> /\ at # "flip" /\ at' # "flip" => Sweeping'
  BY <1>0, SweepingFrame
<1>1. CASE RestartCollection
  <2> DEFINE roots == {MainThread} \cup RootTables \cup BeingFnz
  <2>1. roots \in SUBSET Obj /\ mark' = Marked(mark, roots) /\ gcstate = "pause" /\ at = "no"
        /\ KeepInvariant' /\ UNCHANGED <<at, currentwhite>>
    BY <1>1, <1>0, <1>a DEF RestartCollection, CollectorRuns, KeepInvariant
  <2> HIDE DEF roots
  <2>2. Darker
    BY <2>1, MarkDarker
  <2> QED BY <1>e, <2>1, <2>2
<1>2. CASE Propagate \/ AtomicPropagate
  <2>1. KeepInvariant /\ KeepInvariant' /\ closing # "done" /\ UNCHANGED <<at, currentwhite>>
    BY <1>2, <1>c DEF Propagate, AtomicPropagate, CollectorRuns, KeepInvariant
  <2>2. PICK o \in Obj : PropagateMark(o)
    BY <1>2 DEF Propagate, AtomicPropagate
  <2>3. mark[o] # "free"
    BY <2>1, <2>2, <1>d DEF PropagateMark, Grays, Allocated
  <2>4. Darker
    BY <2>2, <2>3, TraverseDarker DEF PropagateMark
  <2>5. CASE at # "flip"
    BY <1>e, <2>1, <2>4, <2>5
  <2>6. CASE at = "flip"
    <3>1. \A o2 \in Obj : ~Cur(o2)'
      BY <1>0, <2>1, <2>4, <2>6 DEF Sweeping, Darker, Cur, TypeOK, Whites
    <3>2. gcstate' = "atomic" /\ at' = "flip"
      BY <1>2, <1>b, <2>6 DEF Propagate, AtomicPropagate, CollectorRuns
    <3> QED BY <3>1, <3>2 DEF Sweeping
  <2> QED BY <2>5, <2>6
<1>3. CASE EnterAtomic
  <2>1. KeepInvariant /\ KeepInvariant' /\ Darker /\ at = "no" /\ UNCHANGED <<at, currentwhite>>
    BY <1>3 DEF EnterAtomic, CollectorRuns, KeepInvariant, Darker
  <2> QED BY <1>e, <2>1
<1>4. CASE AtomicStart
  <2> DEFINE roots == {running} \cup RootTables
  <2>1. roots \in SUBSET Obj /\ mark' = Marked(mark, roots) /\ KeepInvariant /\ at = "no"
        /\ KeepInvariant' /\ at' = "propagate" /\ UNCHANGED currentwhite
    BY <1>4, <1>a DEF AtomicStart, CollectorRuns, KeepInvariant
  <2> HIDE DEF roots
  <2>2. Darker
    BY <2>1, MarkDarker
  <2> QED BY <1>e, <2>1, <2>2
<1>5. CASE AtomicRemarkUpvals
  <2> DEFINE roots == Remarked(twups \ {t \in twups : ~IsWhite(t) /\ OpenUpvals(t) # {}})
  <2>1. roots \in SUBSET Obj /\ mark' = Marked(mark, roots)
    <3>1. \A T \in SUBSET Obj : Remarked(T) \in SUBSET Obj
      <4> SUFFICES ASSUME NEW T \in SUBSET Obj PROVE Remarked(T) \in SUBSET Obj
        OBVIOUS
      <4>1. {x \in UNION {OpenUpvals(t) : t \in T} : ~IsWhite(x)} \subseteq Obj
        BY DEF OpenUpvals
      <4> QED BY <4>1, <1>0, RefsType DEF Remarked
    <3>2. twups \ {t \in twups : ~IsWhite(t) /\ OpenUpvals(t) # {}} \in SUBSET Obj
      BY <1>0 DEF TypeOK
    <3> QED BY <1>5, <3>1, <3>2 DEF AtomicRemarkUpvals
  <2> HIDE DEF roots
  <2>2. KeepInvariant /\ KeepInvariant' /\ at = "propagate" /\ at' = "remark" /\ UNCHANGED currentwhite
    BY <1>5, <1>c DEF AtomicRemarkUpvals, AtomicAt, KeepInvariant
  <2>3. Darker
    BY <2>1, MarkDarker
  <2> QED BY <1>e, <2>2, <2>3
<1>6. CASE AtomicGrayAgain \/ ConvergePass
  <2>1. KeepInvariant /\ KeepInvariant' /\ Darker /\ UNCHANGED currentwhite /\ at # "flip" /\ at' # "flip"
    BY <1>6, <1>c DEF AtomicGrayAgain, ConvergePass, AtomicAt, KeepInvariant, Darker
  <2> QED BY <1>e, <2>1
<1>7. ASSUME NEW o \in Obj, ConvergeVisit(o) PROVE Sweeping'
  <2>1. KeepInvariant /\ KeepInvariant' /\ closing # "done" /\ at # "flip" /\ UNCHANGED <<at, currentwhite>>
    BY <1>7, <1>c DEF ConvergeVisit, AtomicAt, KeepInvariant
  <2>2. mark[o] # "free"
    BY <1>7, <2>1, <1>d DEF ConvergeVisit, Grays, Allocated
  <2>3. Darker
    BY <1>7, <2>2, TraverseDarker DEF ConvergeVisit
  <2> QED BY <1>e, <2>1, <2>3
<1>8. CASE AtomicClearValues \/ AtomicClearKeys
  <2>1. weak \cup allweak \in SUBSET Obj /\ (weak \cup allweak) \ orig \in SUBSET Obj
        /\ ephemeron \cup allweak \in SUBSET Obj /\ {} \in SUBSET Obj
    BY <1>0 DEF TypeOK
  <2>2. Darker
    BY <1>8, <2>1, ClearByDarker DEF AtomicClearValues, AtomicClearKeys
  <2>3. CASE AtomicClearValues
    <3>1. KeepInvariant /\ KeepInvariant' /\ UNCHANGED currentwhite /\ at # "flip" /\ at' # "flip"
      BY <2>3, <1>c DEF AtomicClearValues, Converged, AtomicAt, KeepInvariant
    <3> QED BY <1>e, <2>2, <3>1
  <2>4. CASE AtomicClearKeys
    <3>1. at = "converge2" /\ at' = "flip" /\ currentwhite' = OtherWhite /\ gcstate = "atomic"
          /\ UNCHANGED gcstate
      BY <2>4, <1>b DEF AtomicClearKeys, Converged, AtomicAt, Flip
    <3>2. \A o \in Obj : ~Cur(o)'
      BY <1>0, <2>2, <3>1, OtherWhiteType DEF Sweeping, IsSweepPhase, IsDead, Darker, Cur, Whites
    <3> QED BY <3>1, <3>2 DEF Sweeping
  <2> QED BY <1>8, <2>3, <2>4
<1>9. CASE AtomicSeparate
  <2>1. KeepInvariant /\ KeepInvariant' /\ Darker /\ UNCHANGED currentwhite /\ at # "flip" /\ at' # "flip"
    BY <1>9, <1>c DEF AtomicSeparate, KeepInvariant, Darker
  <2> QED BY <1>e, <2>1
<1>10. CASE AtomicMarkBeingFnz
  <2>1. mark' = Marked(mark, BeingFnz) /\ KeepInvariant /\ KeepInvariant' /\ UNCHANGED currentwhite
        /\ at # "flip" /\ at' # "flip"
    BY <1>10, <1>c DEF AtomicMarkBeingFnz, KeepInvariant
  <2>2. Darker
    BY <2>1, <1>a, MarkDarker
  <2> QED BY <1>e, <2>1, <2>2
<1>11. CASE AtomicEnd
  <2>1. EnterSweep /\ UNCHANGED <<currentwhite, closing>> /\ KeepInvariant /\ at' = "no"
    BY <1>11, <1>c DEF AtomicEnd
  <2>2. ~IsDead(MainThread)
    BY <2>1, <1>0, OtherWhiteType DEF Placement, MainKept, IsDead, IsWhite, White
  <2> QED BY <2>1, <2>2, SweepingEnterSweep
<1>12. CASE SweepObject
  BY <1>12, <1>b, SweepingObject DEF SweepObject
<1>13. CASE SweepNothing \/ SweepNext
  BY <1>13, <1>b, SweepingNext DEF SweepNothing, SweepNext
<1>14. CASE CallFinalizer \/ NextFinalizer
  <2>1. GCTM /\ at = "no" /\ (closing = "no" => gcstate \in {"callfin", "pause"})
    BY <1>14 DEF CallFinalizer, NextFinalizer, CollectorRuns, Control
  <2> QED BY <2>1, SweepingGCTM
<1>15. CASE FinalizersEnd \/ FullGCEnd
  <2>1. at = "no"
    BY <1>15 DEF FinalizersEnd, FullGCEnd, CollectorRuns, Control
  <2> QED BY <1>15, <1>f, <2>1 DEF FinalizersEnd, FullGCEnd
<1>16. CASE FinishCycle
  <2>1. /\ UNCHANGED <<mark, currentwhite, at, closing>> /\ at = "no"
        /\ gcstate = "callfin" /\ gcstate' = "pause"
    BY <1>16 DEF FinishCycle, CollectorRuns
  <2> QED BY <2>1 DEF Sweeping, IsSweepPhase, Allocated, Cur, IsDead, OtherWhite
<1> QED BY <1>1, <1>2, <1>3, <1>4, <1>5, <1>6, <1>7, <1>8, <1>9, <1>10, <1>11, <1>12, <1>13, <1>14, <1>15, <1>16 DEF CollectorStep

\* a step of the program that moves no object, seen by the sweep
Whitens == /\ ~KeepInvariant => \A x \in Obj : Cur(x) => Cur(x)'
           /\ \A x \in Obj : IsDead(x)' => IsDead(x)

LEMMA SweepingRecoloured ==
  ASSUME TypeOK, Sweeping, UNCHANGED <<list, gcstate, currentwhite, sweepgc, closing>>,
         at = "no", at' = "no", Whitens,
         \A x \in Obj : mark'[x] # "free" => mark[x] # "free"
  PROVE  Sweeping'
<1>1. \A l \in ListName : \A x \in Elems(list[l]) : x \in Obj
  BY DEF TypeOK, Elems
<1>2. closing = "no" /\ IsSweepPhase =>
        \A l \in ListName : \A x \in Elems(list'[l]) :
           Cur(x)' \/ (x \in Elems(list[l])
                       /\ (Before(list[l], sweepgc, x) => Before(list'[l], sweepgc, x)))
  BY <1>1
<1> QED BY <1>2, SweepingKept DEF Whitens

LEMMA SweepingNew ==
  ASSUME TypeInv, Placement, Sweeping, UNCHANGED <<gcstate, currentwhite, sweepgc, closing>>,
         at = "no", at' = "no", Whitens,
         NEW o \in Obj, mark[o] = "free", ~KeepInvariant => Cur(o)',
         list' = [list EXCEPT !["allgc"] = <<o>> \o @],
         \A x \in Obj \ {o} : mark'[x] # "free" => mark[x] # "free"
  PROVE  Sweeping'
<1> DEFINE s == list["allgc"]
           t == <<o>> \o s
<1>1. /\ list \in Lists /\ TypeOK /\ "allgc" \in ListName /\ s \in Seq(Obj) /\ Distinct(s)
      /\ o \notin Elems(s)
  BY MainThreadPlaced DEF Placement, Placed, Apart, ListName, TypeInv, Allocated
<1>2. /\ t \in Seq(Obj) /\ Elems(t) = Elems(s) \cup {o}
      /\ \A x, y : Before(t, x, y) <=> Before(s, x, y) \/ (x = o /\ y \in Elems(s))
  <2> HIDE DEF s
  <2> QED BY <1>1, PrependProperties, PrependOrder
<1> HIDE DEF t
<1>3. list'["allgc"] = t /\ \A l \in ListName \ {"allgc"} : list'[l] = list[l]
  BY <1>1 DEF Lists, t
<1>4. IsSweepPhase => ~KeepInvariant
  BY DEF IsSweepPhase, KeepInvariant
<1>5. ASSUME IsSweepPhase, NEW l \in ListName, NEW x \in Elems(list'[l])
      PROVE  Cur(x)' \/ (x \in Elems(list[l])
                         /\ (Before(list[l], sweepgc, x) => Before(list'[l], sweepgc, x)))
  <2>1. CASE l = "allgc"
    <3>1. list'[l] = t /\ list[l] = s /\ (x = o \/ x \in Elems(s))
      BY <1>2, <1>3, <1>5, <2>1
    <3>2. CASE x = o
      BY <1>4, <1>5, <3>2
    <3>3. CASE x \in Elems(s)
      BY <1>2, <3>1, <3>3
    <3> QED BY <3>1, <3>2, <3>3
  <2>2. CASE l # "allgc"
    <3>1. list'[l] = list[l]
      BY <1>3, <2>2
    <3> QED BY <1>5, <3>1
  <2> QED BY <2>1, <2>2
<1>6. \A l \in ListName : sweepgc \in Elems(list[l]) => sweepgc \in Elems(list'[l])
  <2> SUFFICES ASSUME NEW l \in ListName, sweepgc \in Elems(list[l])
               PROVE  sweepgc \in Elems(list'[l])
    OBVIOUS
  <2>1. l = "allgc" => list'[l] = t /\ list[l] = s
    BY <1>3
  <2>2. l # "allgc" => list'[l] = list[l]
    BY <1>3
  <2> QED BY <1>2, <2>1, <2>2
<1> QED BY <1>1, <1>5, <1>6, SweepingKept DEF Whitens

LEMMA BarrierWhitens ==
  ASSUME TypeInv, UNCHANGED <<gcstate, currentwhite>>, NEW o \in Obj, NEW v \in Obj, Barrier(o, v)
  PROVE  Whitens /\ \A x \in Obj : mark'[x] # "free" => mark[x] # "free"
<1>1. \A x \in Obj : Recoloured(x)
  BY BarrierRecolours
<1>2. ~KeepInvariant => \A x \in Obj : Cur(x) => Cur(x)'
  BY DEF Barrier, Cur, TypeInv, TypeOK
<1> QED BY <1>1, <1>2, OtherWhiteType
       DEF Whitens, Recoloured, IsDead, OtherWhite, TypeInv, TypeOK, Whites

LEMMA CloseBarrierWhitens ==
  ASSUME TypeInv, UNCHANGED <<gcstate, currentwhite>>, NEW u \in Obj, mark[u] # "free", CloseBarrier(u)
  PROVE  Whitens /\ \A x \in Obj : mark'[x] # "free" => mark[x] # "free"
<1> DEFINE m == [mark EXCEPT ![u] = "black"]
           whites == {v \in Refs(u) : IsWhite(v)}
<1>1. \A x \in Obj : Recoloured(x)
  BY CloseBarrierRecolours
<1>2. ~KeepInvariant => \A x \in Obj : Cur(x) => Cur(x)'
  <2>1. CASE IsWhite(u)
    BY <2>1 DEF CloseBarrier, Cur
  <2>2. CASE ~IsWhite(u) /\ whites # {}
    BY <2>2 DEF CloseBarrier, Cur, TypeInv, TypeOK
  <2>3. CASE ~IsWhite(u) /\ whites = {}
    <3>1. mark' = Marked(m, whites)
      BY <2>3 DEF CloseBarrier
    <3>2. \A x \in Obj : mark'[x] = m[x]
      BY <2>3, <3>1 DEF Marked, Reached
    <3>3. currentwhite # mark[u]
      BY <2>3 DEF TypeInv, TypeOK, IsWhite, White
    <3> QED BY <3>2, <3>3 DEF Cur, TypeInv, TypeOK
  <2> QED BY <2>1, <2>2, <2>3
<1> QED BY <1>1, <1>2, OtherWhiteType
       DEF Whitens, Recoloured, IsDead, OtherWhite, TypeInv, TypeOK, Whites

LEMMA SweepingNewUpval ==
  ASSUME TypeInv, Placement, Sweeping, at = "no", NEW c, NEW u \in Obj, NEW v \in Obj, NewUpval(c, u, v)
  PROVE  Sweeping'
<1> USE DEF heapVars, grayVars, atomicVars, sweepVars, runVars
<1> DEFINE m == [mark EXCEPT ![u] = currentwhite]
           g == [mark EXCEPT ![u] = "gray"]
<1>1. c \in Obj /\ u \in Obj /\ c # u /\ mark[u] = "free" /\ TypeOK
  BY StackTypes, ConstantsAssumption DEF NewUpval, TypeInv, Kinds
<1>2. m \in Heaps /\ g \in Heaps /\ m[u] = currentwhite /\ g[u] = "gray"
      /\ \A x \in Obj \ {u} : m[x] = mark[x] /\ g[x] = mark[x]
  BY <1>1 DEF TypeOK, Heaps, Colours, Whites
<1>3. /\ \/ mark' = m
         \/ KeepInvariant /\ mark' = Marked(g, {v})
         \/ ~KeepInvariant /\ mark[c] = "black" /\ mark' = [m EXCEPT ![c] = currentwhite]
      /\ list' = [list EXCEPT !["allgc"] = <<u>> \o @]
      /\ UNCHANGED <<gcstate, currentwhite, sweepgc, closing, at>>
  BY DEF NewUpval
<1>4. currentwhite \in Whites /\ OtherWhite \in Whites /\ OtherWhite # currentwhite /\ OtherWhite' = OtherWhite
      /\ "free" \notin Whites /\ "gray" \notin Whites /\ "black" \notin Whites
  BY <1>1, <1>3, OtherWhiteType DEF OtherWhite, Whites, TypeOK
<1> HIDE DEF m, g
<1>5. /\ Whitens /\ (~KeepInvariant => Cur(u)')
      /\ \A x \in Obj \ {u} : mark'[x] # "free" => mark[x] # "free"
  <2>1. CASE mark' = m
    BY <2>1, <1>1, <1>2, <1>3, <1>4 DEF Whitens, Cur, IsDead
  <2>2. CASE KeepInvariant /\ mark' = Marked(g, {v})
    <3>1. {v} \in SUBSET Obj
      OBVIOUS
    <3>2. \A x \in Obj : \/ mark'[x] = g[x]
                         \/ White(g, x) /\ mark'[x] \in {"gray", "black"}
      BY <2>2, <1>2, <3>1, MarkedDarker
    <3> QED BY <2>2, <1>1, <1>2, <1>3, <1>4, <3>2 DEF Whitens, Cur, IsDead, White
  <2>3. CASE ~KeepInvariant /\ mark[c] = "black" /\ mark' = [m EXCEPT ![c] = currentwhite]
    BY <2>3, <1>1, <1>2, <1>3, <1>4 DEF Whitens, Cur, IsDead, Heaps
  <2> QED BY <1>3, <2>1, <2>2, <2>3
<1> QED BY <1>1, <1>3, <1>5, SweepingNew

\* luaC_checkfinalizer takes an object from under the sweep: if it was the one
\* swept last the sweep first goes on to the next one; in another list it is
\* either not swept yet or gets the current white
LEMMA SweepingCheckFinalizer ==
  ASSUME TypeInv, Placement, Sweeping, at = "no", NEW o, CheckFinalizer(o)
  PROVE  Sweeping'
<1> USE DEF grayVars, atomicVars, runVars
<1> DEFINE r     == SweepToLive(sweepgc)
           lists == IF SweptLast(o) THEN r.list ELSE list
           s     == lists["allgc"]
           i     == Index(s, o)
<1>1. /\ o \in Finalizable /\ o \in Obj /\ o \notin tofin /\ o \in Elems(s) /\ closing # "done"
      /\ list' = [lists EXCEPT !["allgc"] = Unlinked(s, i), !["finobj"] = <<o>> \o @]
      /\ UNCHANGED <<closing, gcstate, currentwhite, at>>
  BY ConstantsAssumption DEF CheckFinalizer, ProgramRuns, ObjOfKind
<1>2. /\ list \in Lists /\ TypeOK /\ Apart(list)
      /\ \A l \in ListName : list[l] \in Seq(Obj) /\ Distinct(list[l]) /\ Elems(list[l]) \subseteq Allocated
      /\ "allgc" \in ListName /\ "finobj" \in ListName /\ "tobefnz" \in ListName
      /\ tofin = Elems(list["finobj"]) \cup Elems(list["tobefnz"])
  BY MainThreadPlaced DEF Placement, Placed, Apart, ListName, TypeInv
<1>3. CASE ~IsSweepPhase
  <2>1. ~SweptLast(o) /\ UNCHANGED mark
    BY <1>1, <1>3 DEF CheckFinalizer, SweptLast, Repainted
  <2> QED BY <1>1, <1>3, <2>1 DEF Sweeping, IsSweepPhase, Allocated, Cur, IsDead, OtherWhite
<1>4. CASE IsSweepPhase /\ closing # "no"
  BY <1>1, <1>4 DEF Sweeping, IsSweepPhase
\* what the move does to allgc, if a sequence is left without o
<1>5. ASSUME lists \in Lists, Distinct(s)
      PROVE  /\ Elems(list'["allgc"]) = Elems(s) \ {o}
             /\ \A x, y \in Elems(s) \ {o} : Before(list'["allgc"], x, y) <=> Before(s, x, y)
             /\ list'["finobj"] = <<o>> \o lists["finobj"] /\ list'["tobefnz"] = lists["tobefnz"]
  <2>1. s \in Seq(Obj)
    BY <1>2, <1>5 DEF Lists
  <2>2. i \in 1 .. Len(s) /\ s[i] = o
    <3> HIDE DEF s
    <3> QED BY <1>1, <2>1, IndexProperties
  <2> DEFINE f == <<o>> \o lists["finobj"]
             c == Unlinked(s, i)
  <2>3. c = Cut(s, i - 1, i + 1)
    BY DEF Unlinked, Cut
  <2>4. list'["allgc"] = c /\ list'["finobj"] = f /\ list'["tobefnz"] = lists["tobefnz"]
    <3> HIDE DEF s, i
    <3>1. lists = [l \in ListName |-> lists[l]]
      BY <1>5 DEF Lists
    <3> HIDE DEF lists, c
    <3>2. list' = [lists EXCEPT !["allgc"] = c, !["finobj"] = f]
      BY <1>1 DEF c
    <3> QED BY <1>2, <3>1, <3>2
  <2> HIDE DEF c, f, i, s, lists
  <2>5. i - 1 \in 0 .. Len(s) /\ i + 1 \in (i - 1) + 1 .. Len(s) + 1
    BY <2>1, <2>2
  <2>6. {s[j] : j \in (i - 1) + 1 .. (i + 1) - 1} = {o}
    <3>1. (i - 1) + 1 .. (i + 1) - 1 = {i}
      BY <2>2
    <3> QED BY <2>2, <3>1
  <2>7. Elems(c) = Elems(s) \ {o} /\ \A x, y \in Elems(c) : Before(c, x, y) <=> Before(s, x, y)
    BY <1>5, <2>1, <2>3, <2>5, <2>6, CutElems
  <2> QED BY <2>4, <2>7 DEF f
<1>6. CASE IsSweepPhase /\ closing = "no" /\ SweptLast(o)
  <2> DEFINE p == sweepgc
  <2>1. /\ Swept(r.dead, r.live \cup {o}) /\ sweepgc' = r.sweepgc /\ lists = r.list /\ p = o
    BY <1>6 DEF CheckFinalizer, SweptLast
  <2>2. p # Nil /\ p \notin ListName
    BY <1>1, <2>1, ConstantsAssumption
  <2>3. gcstate = "swpallgc" /\ ListOf(p) = "allgc" /\ SweepAt("allgc") /\ p \in Elems(list["allgc"])
    <3>1. gcstate \in {"swpallgc", "swpfinobj", "swptobefnz"}
      BY <1>6, <2>2 DEF IsSweepPhase, Sweeping
    <3>2. SweepAt(Current) /\ ListOf(p) = Current /\ p \in Elems(list[Current])
      BY <1>1, <1>6, <2>2, <3>1, CurrentAt DEF SweepAt
    <3>3. Current = "allgc"
      BY <1>1, <1>2, <2>1, <3>2 DEF Current
    <3> QED BY <3>1, <3>2, <3>3 DEF Current
  <2>4. ~IsDead(MainThread) /\ MainThread \in Obj /\ Placed(list, Allocated, tofin)
    BY <1>6, MainThreadPlaced DEF Placement, MainKept
  <2>5. r = SweepToLive(p) /\ \E k \in ListName : p \in Elems(list[k])
    BY <1>2, <2>3
  <2> HIDE DEF r, p, lists, s, i
  <2>6. /\ r.list \in Lists /\ Placed(r.list, Allocated \ r.dead, tofin \ r.dead)
        /\ (\A x \in r.dead : x \in Allocated) /\ r.live \subseteq Allocated
        /\ r.dead \cap r.live = {}
    BY <1>2, <2>4, <2>5, SweepToLivePlaced
  <2> DEFINE D == r.dead
             W == r.live \cup {o}
  <2>7. D \in SUBSET Obj /\ W \in SUBSET Allocated /\ D \cap W = {} /\ Swept(D, W)
    <3>1. Elems(r.list["allgc"]) \subseteq Allocated \ r.dead
      BY <1>2, <2>6 DEF Placed
    <3>2. o \in Allocated \ r.dead
      BY <1>1, <2>1, <3>1 DEF s
    <3> QED BY <2>1, <2>6, <3>2 DEF Allocated
  <2>8. (\A x \in Obj \ D : Cur(x) => Cur(x)') /\ \A x \in W : Cur(x)'
    <3> HIDE DEF D, W
    <3> QED BY <1>1, <2>7, SweptColours
  <2>9. /\ r.sweepgc \in {Nil} \cup Elems(r.list["allgc"]) /\ r.sweepgc # o
        /\ \A x \in Elems(r.list["allgc"]) : Cur(x)' \/ Before(r.list["allgc"], r.sweepgc, x)
    <3>1. \A x \in Elems(list[ListOf(p)]) : Cur(x) \/ Ahead(p, list[ListOf(p)], x)
      BY <2>3 DEF SweepAt, p
    <3>2. LET t == r.list[ListOf(p)]
          IN  /\ r.sweepgc \in {Nil} \cup Elems(t) /\ r.sweepgc # p
              /\ \A x \in Elems(t) : Cur(x)' \/ Before(t, r.sweepgc, x)
      BY <1>2, <2>5, <2>8, <3>1, SweepToLiveAt DEF D, W
    <3> QED BY <2>1, <2>3, <3>2
  <2>10. lists \in Lists /\ Distinct(s)
    BY <1>2, <2>1, <2>6 DEF Placed, Apart, s
  <2>11. /\ Elems(list'["allgc"]) = Elems(s) \ {o}
         /\ \A x, y \in Elems(s) \ {o} : Before(list'["allgc"], x, y) <=> Before(s, x, y)
    BY <1>5, <2>10
  <2>12. s = r.list["allgc"]
    BY <2>1 DEF s
  <2>13. ASSUME NEW x \in Elems(list'["allgc"]) PROVE Cur(x)' \/ Before(list'["allgc"], sweepgc', x)
    <3>1. x \in Elems(s) \ {o}
      BY <2>11
    <3>2. CASE Before(s, r.sweepgc, x)
      <4>1. r.sweepgc \in Elems(s) \ {o}
        BY <2>9, <2>12, <3>2 DEF Before, Elems
      <4> QED BY <2>1, <2>11, <3>1, <3>2, <4>1
    <3> QED BY <2>9, <2>12, <3>1, <3>2
  <2>14. SweepAt("allgc")'
    BY <2>1, <2>9, <2>11, <2>12, <2>13 DEF SweepAt, Ahead
  <2> QED BY <1>1, <2>3, <2>14 DEF Sweeping, IsSweepPhase
<1>7. CASE IsSweepPhase /\ closing = "no" /\ ~SweptLast(o)
  <2>1. /\ mark' = [mark EXCEPT ![o] = currentwhite] /\ UNCHANGED sweepgc /\ lists = list /\ sweepgc # o
    BY <1>7 DEF CheckFinalizer, SweptLast, Repainted
  <2>2. s = list["allgc"] /\ s \in Seq(Obj) /\ Distinct(s)
    BY <1>2, <2>1
  <2> HIDE DEF lists, s, i
  <2>3. /\ Elems(list'["allgc"]) = Elems(s) \ {o}
        /\ \A x, y \in Elems(s) \ {o} : Before(list'["allgc"], x, y) <=> Before(s, x, y)
        /\ list'["finobj"] = <<o>> \o list["finobj"] /\ list'["tobefnz"] = list["tobefnz"]
    BY <1>2, <1>5, <2>1, <2>2
  <2>4. mark \in [Obj -> Colours] /\ currentwhite \in Whites /\ mark[o] # "free"
    <3>1. o \in Allocated
      BY <1>1, <1>2, <2>2
    <3> QED BY <1>2, <3>1 DEF TypeOK, Allocated
  <2>5. /\ Cur(o)' /\ \A x \in Obj : Cur(x) => Cur(x)'
        /\ \A x \in Obj : IsDead(x)' => IsDead(x)
        /\ \A x \in Obj : mark'[x] # "free" => mark[x] # "free"
    BY <1>1, <1>2, <2>1, <2>4, OtherWhiteType DEF Cur, IsDead, OtherWhite, Whites
  <2>6. /\ Elems(list'["finobj"]) = Elems(list["finobj"]) \cup {o}
        /\ \A x, y : Before(list["finobj"], x, y) => Before(list'["finobj"], x, y)
    <3> DEFINE f == list["finobj"]
    <3>1. f \in Seq(Obj) /\ Distinct(f) /\ o \notin Elems(f) /\ list'["finobj"] = <<o>> \o f
      BY <1>1, <1>2, <2>3
    <3> HIDE DEF f
    <3>2. Elems(<<o>> \o f) = Elems(f) \cup {o}
          /\ \A x, y : Before(f, x, y) => Before(<<o>> \o f, x, y)
      BY <1>1, <3>1, PrependProperties, PrependOrder
    <3> QED BY <3>1, <3>2 DEF f
  <2>7. ASSUME NEW l \in ListName, NEW x \in Elems(list'[l])
        PROVE  Cur(x)' \/ (x \in Elems(list[l])
                           /\ (Before(list[l], sweepgc, x) => Before(list'[l], sweepgc, x)))
    <3>1. CASE l = "allgc"
      <4>1. x \in Elems(s) \ {o} /\ (Before(s, sweepgc, x) => sweepgc \in Elems(s) \ {o})
        <5>1. Before(s, sweepgc, x) => sweepgc \in Elems(s)
          BY DEF Before, Elems
        <5> QED BY <2>1, <2>3, <3>1, <5>1
      <4> QED BY <2>2, <2>3, <3>1, <4>1
    <3>2. CASE l = "finobj"
      BY <2>5, <2>6, <3>2
    <3>3. CASE l = "tobefnz"
      BY <2>3, <3>3
    <3> QED BY <3>1, <3>2, <3>3 DEF ListName
  <2>8. \A l \in ListName : sweepgc \in Elems(list[l]) => sweepgc \in Elems(list'[l])
    <3>1. sweepgc \in Elems(list["allgc"]) => sweepgc \in Elems(list'["allgc"])
      BY <2>1, <2>2, <2>3
    <3>2. sweepgc \in Elems(list["finobj"]) => sweepgc \in Elems(list'["finobj"])
      BY <2>6
    <3> QED BY <2>3, <3>1, <3>2 DEF ListName
  <2> QED BY <1>1, <1>2, <2>1, <2>5, <2>7, <2>8, SweepingKept
<1> QED BY <1>3, <1>4, <1>6, <1>7

LEMMA SweepingProgram ==
  ASSUME TypeInv, Control, Placement, Sweeping, ProgramStep
  PROVE  Sweeping'
<1> USE DEF heapVars, grayVars, atomicVars, sweepVars, runVars
<1>0. TypeOK /\ list \in Lists
  BY MainThreadPlaced DEF TypeInv
<1>a. /\ Regs \subseteq Obj /\ AtHand \subseteq Obj
      /\ \A o \in Obj : Refs(o) \subseteq Obj /\ OpenUpvals(o) \subseteq Obj
  BY <1>0, StackTypes, RefsType
<1>b. /\ mark \in [Obj -> Colours] /\ currentwhite \in Whites /\ running \in Obj
      /\ OtherWhite # currentwhite /\ "free" \notin Whites /\ "gray" \notin Whites /\ "black" \notin Whites
      /\ OtherWhite \in Whites
  BY <1>0, OtherWhiteType DEF TypeOK, Whites, OtherWhite
<1>d. UNCHANGED <<mark, list, gcstate, currentwhite, sweepgc, closing, at>> /\ at = "no" => Sweeping'
  BY <1>0, SweepingFrame
<1>1. ASSUME NEW o \in Obj, mark[o] = "free", mark' = [mark EXCEPT ![o] = currentwhite],
             list' = [list EXCEPT !["allgc"] = <<o>> \o @],
             UNCHANGED <<gcstate, currentwhite, sweepgc, closing, at>>, at = "no"
      PROVE  Sweeping'
  <2>1. /\ Whitens /\ Cur(o)' /\ \A x \in Obj \ {o} : mark'[x] # "free" => mark[x] # "free"
    BY <1>1, <1>b DEF Whitens, Cur, IsDead, OtherWhite
  <2> QED BY <1>1, <2>1, SweepingNew
<1>2. ASSUME NEW o \in Obj, NewObject(o) PROVE Sweeping'
  BY <1>1, <1>2 DEF NewObject, ProgramRuns
<1>3. ASSUME NEW o \in Obj, InternString(o) PROVE Sweeping'
  <2>1. CASE mark[o] = "free"
    BY <1>1, <1>3, <2>1 DEF InternString, ProgramRuns
  <2>2. CASE mark[o] # "free"
    <3>1. /\ mark' = IF IsDead(o) THEN [mark EXCEPT ![o] = currentwhite] ELSE mark
          /\ UNCHANGED <<list, gcstate, currentwhite, sweepgc, closing, at>> /\ at = "no"
      BY <1>3, <2>2 DEF InternString, ProgramRuns
    <3>2. Whitens /\ \A x \in Obj : mark'[x] # "free" => mark[x] # "free"
      BY <1>b, <2>2, <3>1 DEF Whitens, Cur, IsDead, OtherWhite
    <3> QED BY <1>0, <3>1, <3>2, SweepingRecoloured
  <2> QED BY <2>1, <2>2
<1>4. ASSUME NEW v, Pop(v) PROVE Sweeping'
  BY <1>4, <1>d DEF Pop, ProgramRuns
<1>5. ASSUME NEW o, NEW v, Load(o, v) \/ Transfer(o, v) PROVE Sweeping'
  BY <1>5, <1>d DEF Load, Transfer, ProgramRuns
<1>6. ASSUME NEW o, NEW e, ClearField(o, e) \/ SetMode(o, e) PROVE Sweeping'
  BY <1>6, <1>d DEF ClearField, SetMode, ProgramRuns
<1>7. ASSUME NEW o \in AtHand, NEW e, SetField(o, e) PROVE Sweeping'
  <2>1. PICK news : BarrierBack(o, news)
    BY <1>7 DEF SetField
  <2>2. o \in Obj /\ UNCHANGED <<list, gcstate, currentwhite, sweepgc, closing, at>> /\ at = "no"
    BY <1>7, <1>a DEF SetField, ProgramRuns
  <2>3. Whitens /\ \A x \in Obj : mark'[x] # "free" => mark[x] # "free"
    BY <1>b, <2>1, <2>2 DEF BarrierBack, Whitens, Cur, IsDead, OtherWhite
  <2> QED BY <1>0, <2>2, <2>3, SweepingRecoloured
<1>8. ASSUME NEW o \in Regs, CheckFinalizer(o) PROVE Sweeping'
  BY <1>8, SweepingCheckFinalizer DEF CheckFinalizer, ProgramRuns
<1>9. ASSUME NEW o, Resume(o) PROVE Sweeping'
  BY <1>9, <1>d DEF Resume, ProgramRuns
<1>10. ASSUME NEW o \in Obj, NEW v \in Obj, Barrier(o, v),
              UNCHANGED <<list, gcstate, currentwhite, sweepgc, closing, at>>, at = "no"
       PROVE  Sweeping'
  <2>1. Whitens /\ \A x \in Obj : mark'[x] # "free" => mark[x] # "free"
    BY <1>10, BarrierWhitens
  <2> QED BY <1>0, <1>10, <2>1, SweepingRecoloured
<1>11. ASSUME NEW o \in Regs, NEW v \in Regs \cup OpenUpvals(running), SetClosure(o, v) PROVE Sweeping'
  BY <1>10, <1>11, <1>a, <1>b DEF SetClosure, ProgramRuns
<1>12. ASSUME NEW o \in Regs, NEW u \in ObjOfKind({"upval"}), NEW v \in Regs, SetUpval(o, u, v) PROVE Sweeping'
  BY <1>10, <1>12, <1>a, <1>b DEF SetUpval, ObjOfKind, ProgramRuns
<1>13. ASSUME NEW o, NEW u \in ObjOfKind({"upval"}), NEW v \in Regs, NewUpval(o, u, v) PROVE Sweeping'
  BY <1>13, <1>a, SweepingNewUpval DEF ObjOfKind, NewUpval, ProgramRuns
<1>14. ASSUME NEW u \in OpenUpvals(running), CloseUpval(u) PROVE Sweeping'
  <2>1. u \in Obj /\ owner[u] = running /\ running # Nil /\ mark[u] # "free"
    BY <1>14, <1>b, ConstantsAssumption DEF OpenUpvals, Placement
  <2>2. CloseBarrier(u) /\ UNCHANGED <<list, gcstate, currentwhite, sweepgc, closing, at>> /\ at = "no"
    BY <1>14 DEF CloseUpval, ProgramRuns
  <2>3. Whitens /\ \A x \in Obj : mark'[x] # "free" => mark[x] # "free"
    BY <2>1, <2>2, CloseBarrierWhitens
  <2> QED BY <1>0, <2>2, <2>3, SweepingRecoloured
<1>15. CASE Yield \/ StopGC \/ RestartGC \/ FinalizerReturn
  BY <1>15, <1>d DEF Yield, StopGC, RestartGC, FinalizerReturn, ProgramRuns
<1>16. ASSUME NEW b \in BOOLEAN, FullGC(b) PROVE Sweeping'
  <2>1. CASE KeepInvariant
    <3>1. EnterSweep /\ UNCHANGED <<currentwhite, closing, at>> /\ at = "no"
      BY <1>16, <2>1 DEF FullGC, ProgramRuns
    <3>2. ~IsDead(MainThread)
      BY <2>1, <1>0, OtherWhiteType DEF Placement, MainKept, IsDead, IsWhite, White
    <3> QED BY <3>1, <3>2, SweepingEnterSweep
  <2>2. CASE ~KeepInvariant
    BY <1>16, <2>2, <1>d DEF FullGC, ProgramRuns
  <2> QED BY <2>1, <2>2
<1>17. CASE CloseState
  <2>1. /\ closing' = "finalizers" /\ UNCHANGED <<mark, gcstate, currentwhite, at>>
    BY <1>17 DEF CloseState
  <2> QED BY <2>1 DEF Sweeping, IsSweepPhase, Allocated, Cur, IsDead, OtherWhite
<1> QED BY <1>2, <1>3, <1>4, <1>5, <1>6, <1>7, <1>8, <1>9, <1>11, <1>12, <1>13, <1>14, <1>15, <1>16, <1>17, <1>a DEF ProgramStep

LEMMA SweepingRest == TypeOK /\ Sweeping /\ (DeleteAll \/ UNCHANGED vars) => Sweeping'
<1> USE DEF heapVars, grayVars, atomicVars, sweepVars, runVars
<1>1. ASSUME TypeOK, Sweeping, DeleteAll PROVE Sweeping'
  <2>1. \A x \in Obj : mark'[x] \in {"free", mark[x]}
    BY <1>1 DEF DeleteAll
  <2>2. closing' = "done" /\ UNCHANGED <<gcstate, currentwhite, at>>
    BY <1>1 DEF DeleteAll
  <2> QED BY <1>1, <2>1, <2>2, OtherWhiteType
          DEF Sweeping, IsSweepPhase, Allocated, Cur, IsDead, OtherWhite, TypeOK, Whites
<1>2. TypeOK /\ Sweeping /\ UNCHANGED vars => Sweeping'
  BY DEF vars, Sweeping, SweepAt, AllCur, Ahead, IsSweepPhase, Allocated, Cur, IsDead, OtherWhite
<1> QED BY <1>1, <1>2

\* the invariant the proofs of this module and the next ones start from
SweepInv == TypeInv /\ Control /\ Placement /\ (Orderly => Sweeping)

LEMMA SweepInvInit == Init => SweepInv
  BY TypeInit, ControlInit, PlacementInit, SweepingInit DEF SweepInv

LEMMA SweepInvNext ==
  ASSUME SweepInv, [Next]_vars
  PROVE  SweepInv'
<1> USE DEF SweepInv
<1>1. TypeInv'
  BY TypeCollector, TypeProgram, TypeDeleteAll, TypeStutter DEF Next
<1>2. Control'
  BY ControlCollector, ControlProgram, ControlRest DEF Next
<1>3. Placement'
  BY PlacementCollector, PlacementProgram, PlacementRest DEF Next
<1>4. ASSUME Orderly' PROVE Sweeping'
  <2>1. Orderly /\ Sweeping
    BY <1>4, OrderlyBefore
  <2>2. CASE CollectorStep
    BY <2>1, <2>2, SweepingCollector
  <2>3. CASE ProgramStep
    BY <2>1, <2>3, SweepingProgram
  <2>4. CASE DeleteAll \/ UNCHANGED vars
    BY <2>1, <2>4, SweepingRest DEF TypeInv
  <2> QED BY <2>2, <2>3, <2>4 DEF Next
<1> QED BY <1>1, <1>2, <1>3, <1>4

\* The sweep misses nothing: outside it no object has the old white, and when
\* a cycle is over every object has the current one, however the program that
\* runs between its steps allocates objects, moves them to finobj, resurrects
\* strings, closes upvalues and has its barriers repaint objects; while the
\* state is open, and as it closes if no allocation fails then.
THEOREM SweepMissesNothing == Spec => [](Orderly => SweepComplete)
<1>1. SweepInv => (Orderly => SweepComplete)
  BY DEF SweepInv, Sweeping, SweepComplete, Cur
<1>2. Spec => []SweepInv
  <2>1. SweepInv /\ [Next]_vars => SweepInv'
    BY SweepInvNext
  <2> QED BY <2>1, SweepInvInit, PTL DEF Spec
<1> QED BY <1>1, <1>2, PTL

=============================================================================
