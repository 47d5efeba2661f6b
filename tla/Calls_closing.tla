--------------------------- MODULE Calls_closing ----------------------------
(***************************************************************************)
(* Theorems about to-be-closed variables and the status of coroutines:     *)
(* every step keeps the second invariant of Calls_safety; and what follows *)
(* from both.                                                              *)
(***************************************************************************)
EXTENDS Calls_safety

-----------------------------------------------------------------------------
(* A function returns *)

OneLess(ci, ci2, n) ==
  ci2 \in Seq(CallInfo) /\ Len(ci2) = n - 1 /\ \A j \in 1 .. n - 1 : ci2[j] = ci[j]

\* ci2: the CallInfos of t without the last, which began where no less than x
\* variables were pending
LEMMA ReturnLow ==
  ASSUME NEW m, IsM(m), InvM(m), Calm(m.th, m.cs), NEW t, NEW b, NEW n, TopIs(m, t, b, n),
         Runs(b), n > 0, NEW x \in Nat, x <= m.th[t].ci[n].level,
         NEW ci2, OneLess(m.th[t].ci, ci2, n),
         OnTop(ci2, b, Acts(m.cs, t), "return")
  PROVE  OnReturn(ci2, b, m.cs[Len(m.cs) - 1], x)
<1> DEFINE ci == m.th[t].ci
           b2 == m.cs[Len(m.cs) - 1]
<1>1. /\ b \in Activation /\ b.depth \in Nat /\ n \in Nat /\ n = Len(ci) /\ ci \in Seq(CallInfo)
      /\ b = m.cs[Len(m.cs)] /\ t = b.t /\ Len(m.cs) > 0
  <2>1. b \in Activation /\ b.depth \in Nat /\ n \in Nat /\ ci \in Seq(CallInfo)
    BY TopFacts
  <2> QED BY Zenon, <2>1 DEF TopIs
<1>r. ci2 \in Seq(CallInfo) /\ Len(ci2) = n - 1 /\ \A j \in 1 .. n - 1 : ci2[j] = ci[j]
  BY Zenon DEF OneLess
<1>2. ActLevel(ci, b, b2) /\ CILevels(ci) /\ \A c : BelowIs(m, t, b, c) => \E c3 : ActLevel(ci, c, c3)
  BY TopLevels
<1>3. Core(m.th, m.cs) /\ Good(m.th, m.cs, Len(m.cs))
  BY TopReady
<1>4. ci[n].level \in Nat
  <2> HIDE DEF ci, b2
  <2>1. n \in 1 .. Len(ci)
    BY <1>1
  <2>2. ci \in Seq(CallInfo)
    BY Zenon, <1>1
  <2>3. ci[n] \in CallInfo
    BY <2>1, <2>2
  <2> QED BY SMTT(20), <2>3, CallInfoFields
<1>c. ci \in Seq(CallInfo) /\ n = Len(ci) /\ n \in Nat
  BY Zenon, <1>1
<1>l. b = m.cs[Len(m.cs)] /\ t = b.t /\ Len(m.cs) > 0 /\ Core(m.th, m.cs)
  BY Zenon, <1>1, <1>3
<1> HIDE DEF ci, b2
<1>5. CASE b.k = "call"
  <2>1. n - 1 = b.depth
    BY <1>5, <1>r DEF OnTop
  <2>2. Expected(ci, b, b2, ci[n].level)
    <3>1. Len(ci) > b.depth /\ b.depth + 1 = n
      BY <1>1, <2>1
    <3>2. CallLevel(ci, b, b2)
      BY SMTT(20), <1>2 DEF ActLevel
    <3> QED BY SMTT(20), <1>5, <3>1, <3>2 DEF CallLevel
  <2>3. Runs(b2) => b.depth \in 1 .. n - 1
    <3>1. ~First(m.cs, Len(m.cs))
      BY <1>1, <1>3, <1>5 DEF Good, BlockStarts
    <3>2. Linked(m.th[t].ci, b, b2)
      BY <1>3, <3>1, BelowFacts DEF b2
    <3>3. Runs(b2) => b.depth \in 1 .. Len(m.th[t].ci)
      BY <1>5, <3>2 DEF Linked, LinkedCall
    <3> QED BY SMTT(20), <1>1, <2>1, <3>3
  <2>4. Runs(b2) => ci2[b.depth] = ci[b.depth] /\ ci[b.depth].level \in Nat
    <3> SUFFICES ASSUME Runs(b2) PROVE ci2[b.depth] = ci[b.depth] /\ ci[b.depth].level \in Nat
      BY SMTT(20)
    <3>1. b.depth \in 1 .. Len(ci) /\ b.depth \in 1 .. n - 1
      BY <1>1, <2>3
    <3>2. ci[b.depth] \in CallInfo
      BY <1>c, <3>1
    <3> QED BY <1>r, <3>1, <3>2, CallInfoFields
  <2>5. b2.k = "prot" => BaseLevel(b2) \in Nat
    <3>1. b2.k = "prot" => b2.level \in Nat
      <4>1. ~First(m.cs, Len(m.cs))
        BY <1>1, <1>3, <1>5 DEF Good, BlockStarts
      <4>2. BelowIs(m, t, b, b2)
        BY <1>3, <4>1, BelowFacts DEF b2
      <4>3. b2 \in Activation
        BY <1>3, <4>1, <4>2, BelowFacts
      <4> QED BY <4>3, ActivationFields
    <3> QED BY <3>1 DEF BaseLevel
  <2>6. x <= ci[n].level
    BY DEF ci
  <2>7. Expected(ci2, b, b2, x)
    BY <1>4, <2>2, <2>4, <2>5, <2>6 DEF Expected
  <2> QED BY <1>5, <2>7 DEF OnReturn, b2
<1>6. CASE b.k = "unroll"
  <2>1. x <= ci[n].level
    BY DEF ci
  <2>2. n - 1 = 0 => x = 0
    <3> SUFFICES ASSUME n = 1 PROVE x = 0
      BY <1>c
    <3>1. BelowIs(m, t, b, b2) /\ Resumes(b2)
      <4>1. Len(m.cs) > 1 /\ Resumes(b2) /\ b2.t = t
        BY <1>l, <1>6, UnrollAlone DEF b2
      <4> QED BY SMTT(20), <4>1 DEF BelowIs, b2
    <3>2. PICK c3 : ActLevel(ci, b2, c3)
      BY <1>2, <3>1
    <3>3. ci[1].level = 0
      BY Zenon, <1>1, <3>1, <3>2 DEF ActLevel, ProtLevel, Resumes
    <3> QED BY <2>1, <3>3
  <2>3. ASSUME n - 1 > 0, ci2[n - 1].func # "lua", ci2[n - 1].recst = "OK"
        PROVE  x <= ci2[n - 1].level
    <3>1. n - 1 \in 1 .. n - 1 /\ n \in 1 .. Len(ci) /\ n > 1 /\ n - 1 \in 1 .. Len(ci)
      BY <1>1, <2>3
    <3>2. ci2[n - 1] = ci[n - 1]
      BY <1>r, <3>1
    <3>3. ci[n - 1].ypcall
      <4>1. Continues(ci2[n - 1])
        BY <1>6, <1>r, <2>3 DEF OnTop
      <4> QED BY <2>3, <3>2, <4>1 DEF Continues
    <3>4. ci[n].level <= ci[n - 1].level
      BY <1>2, <2>3, <3>1, <3>2, <3>3 DEF CILevels
    <3>5. ci[n - 1].level \in Nat
      <4>1. ci[n - 1] \in CallInfo
        BY <1>c, <3>1
      <4> QED BY <4>1, CallInfoFields
    <3> QED BY SMTT(20), <1>4, <2>1, <3>2, <3>4, <3>5
  <2> QED BY <1>6, <1>r, <2>2, <2>3 DEF OnReturn
<1> QED BY <1>5, <1>6 DEF Runs

\* the arithmetic of a return to the topmost activation
LEMMA ReturnsIs ==
  ASSUME NEW m, NEW t, NEW b, NEW n, TopIs(m, t, b, n), Calm(m.th, m.cs),
         m.mode = "return" => OnReturn(m.th[t].ci, b, m.cs[Len(m.cs) - 1], Len(m.th[t].tbclist))
  PROVE  Inv2M(m)
  BY DEF TopIs, Inv2M, Inv2, Returns

LEMMA LuaReturnsCalm ==
  ASSUME NEW m, NEW t, NEW b, NEW n, LuaTop(m, t, b, n), Calm(m.th, m.cs),
         Len(m.th[t].tbclist) <= m.th[t].ci[n].level
  PROVE  Inv2M(In(PopCI(m, t), IF Last(m.th[t].ci).fresh THEN "return" ELSE "run"))
<1> DEFINE md == IF Last(m.th[t].ci).fresh THEN "return" ELSE "run"
           m1 == PopCI(m, t)
           m2 == In(m1, md)
           ci == m.th[t].ci
           x  == Len(m.th[t].tbclist)
<1>1. /\ IsM(m) /\ InvM(m) /\ TopIs(m, t, b, n) /\ Runs(b) /\ Core(m.th, m.cs) /\ t \in Threads
      /\ n \in Nat /\ n > 0 /\ m.th[t].status = "OK" /\ ci \in Seq(CallInfo) /\ IsTh(m.th)
      /\ m.cs \in Seq(Activation) /\ x \in Nat
  <2>1. /\ IsM(m) /\ InvM(m) /\ TopIs(m, t, b, n) /\ Runs(b) /\ Core(m.th, m.cs) /\ t \in Threads
        /\ n \in Nat /\ n > 0 /\ m.th[t].status = "OK" /\ ci \in Seq(CallInfo) /\ IsTh(m.th)
        /\ m.cs \in Seq(Activation)
    BY LuaReady
  <2>2. x \in Nat
    BY <2>1, ThreadFields DEF IsTh
  <2> QED BY <2>1, <2>2
<1>2. InvM(m2)
  BY LuaReturns
<1>3. n = Len(ci) /\ Len(ci) > 0
  BY Zenon, <1>1 DEF TopIs
<1>4. OnlyCI(m, m1, t) /\ m1.th[t].ci = Front(ci)
  BY <1>1, <1>3, PopCIFacts
<1>5. md \in {"run", "return"}
  OBVIOUS
<1> HIDE DEF m1, md
<1>6. /\ Moves(m.th, m1.th, t) /\ m1.th[t].status = m.th[t].status /\ m1.cs = m.cs /\ IsM(m1)
  BY <1>4, OnlyMoves
<1>7. m2.th = m1.th /\ m2.cs = m.cs /\ m2.mode = md /\ IsM(m2)
  BY <1>5, <1>6, InFacts
<1> HIDE DEF m2
<1>8. Cuts(m.th, m2.th, t) /\ SameUpTo(ci, m2.th[t].ci, Len(m2.th[t].ci))
  <2>1. Cuts(m.th, m1.th, t) /\ SameUpTo(m.th[t].ci, m1.th[t].ci, Len(m1.th[t].ci))
    BY <1>1, <1>3, <1>4, <1>6, FrontCuts
  <2> QED BY <1>7, <2>1
<1>9. TopIs(m2, t, b, n - 1) /\ m2.th[t].ci \in Seq(CallInfo) /\ Len(m2.th[t].ci) = n - 1
      /\ \A j \in 1 .. n - 1 : m2.th[t].ci[j] = ci[j]
  <2>1. /\ Front(ci) \in Seq(CallInfo) /\ Len(Front(ci)) = Len(ci) - 1
        /\ \A j \in 1 .. Len(ci) - 1 : Front(ci)[j] = ci[j]
    <3> HIDE DEF ci
    <3> QED BY <1>1, <1>3, FrontFacts
  <2>2. m2.th[t].ci = Front(ci) /\ b = m.cs[Len(m.cs)] /\ t = b.t /\ Len(m.cs) > 0
    BY Zenon, <1>1, <1>4, <1>7 DEF TopIs
  <2> HIDE DEF ci
  <2>3. m2.th[t].ci \in Seq(CallInfo) /\ Len(m2.th[t].ci) = n - 1
        /\ \A j \in 1 .. n - 1 : m2.th[t].ci[j] = ci[j]
    BY <1>3, <2>1, <2>2
  <2> QED BY <1>7, <2>2, <2>3 DEF TopIs
<1>10. PrefixOf(m2.cs, m.cs) /\ \A i \in Len(m2.cs) + 1 .. Len(m.cs) : m.cs[i].t = t
  BY <1>1, <1>7 DEF PrefixOf
<1>11. Calm(m2.th, m2.cs)
  <2>1. SameUpTo(m.th[t].ci, m2.th[t].ci, Len(m2.th[t].ci))
    BY <1>8
  <2> QED BY <1>1, <1>2, <1>7, <1>8, <1>9, <1>10, <2>1, StepCalm
<1>12. m2.mode = "return" => OnReturn(m2.th[t].ci, b, m2.cs[Len(m2.cs) - 1], Len(m2.th[t].tbclist))
  <2> SUFFICES ASSUME m2.mode = "return"
               PROVE  OnReturn(m2.th[t].ci, b, m2.cs[Len(m2.cs) - 1], Len(m2.th[t].tbclist))
    OBVIOUS
  <2> DEFINE ci2 == m2.th[t].ci
  <2>1. OnTop(ci2, b, Acts(m2.cs, t), "return")
    <3>1. OnTop(m2.th[t].ci, b, Acts(m2.cs, t), m2.mode)
      BY <1>2, <1>7, <1>9, TopReady
    <3> QED BY <3>1
  <2>2. Len(m2.th[t].tbclist) = x
    BY <1>6, <1>7 DEF Moves
  <2>3. OneLess(m.th[t].ci, ci2, n) /\ OnTop(ci2, b, Acts(m.cs, t), "return")
    <3>1. \A j \in 1 .. n - 1 : ci2[j] = m.th[t].ci[j]
      BY <1>9
    <3>2. ci2 \in Seq(CallInfo) /\ Len(ci2) = n - 1
      BY <1>9
    <3> HIDE DEF ci2
    <3> QED BY <1>7, <2>1, <3>1, <3>2 DEF OneLess
  <2>4. x \in Nat /\ x <= m.th[t].ci[n].level
    BY <1>1
  <2>s. IsM(m) /\ InvM(m) /\ TopIs(m, t, b, n) /\ Runs(b) /\ n > 0
    BY <1>1
  <2> HIDE DEF x, ci2, ci
  <2>5. OnReturn(ci2, b, m.cs[Len(m.cs) - 1], x)
    BY <2>s, <2>3, <2>4, ReturnLow
  <2> QED BY <1>7, <2>2, <2>5 DEF ci2
<1>13. Inv2M(m2)
  BY <1>9, <1>11, <1>12, ReturnsIs
<1> QED BY <1>13 DEF m2, m1, md

-----------------------------------------------------------------------------
(* Variables begin and end to be pending *)

NotClosing(T, v) == \A w \in Threads : \A i \in 1 .. Len(T[w].ci) : T[w].ci[i].of # v

LEMMA TidyMore ==
  ASSUME NEW T, IsTh(T), Tidy(T), NEW T2, IsTh(T2), NEW u \in Threads, Others(T, T2, u),
         T2[u].ci = T[u].ci, T2[u].status = T[u].status,
         NEW v, T2[u].tbclist = Append(T[u].tbclist, v), NotPending(T, v), NotClosing(T, v)
  PROVE  Tidy(T2)
<1> DEFINE q == T[u].tbclist
           n == Len(q)
<1>1. Once(T) /\ Awake(T)
  BY DEF Tidy
<1>2. \A w \in Threads : T2[w].ci = T[w].ci /\ T2[w].status = T[w].status
  BY DEF Others
<1>3. q \in Seq(Variables) /\ n \in Nat
  BY ThreadFields DEF IsTh
<1>4. Len(T2[u].tbclist) = n + 1 /\ T2[u].tbclist[n + 1] = v
      /\ \A i \in 1 .. n : T2[u].tbclist[i] = q[i]
  <2> HIDE DEF q
  <2>1. T2[u].tbclist = Append(q, v)
    BY DEF q
  <2> QED BY <1>3, <2>1
<1> HIDE DEF n
<1>q. n = Len(T[u].tbclist) /\ q = T[u].tbclist
  BY DEF n
<1> HIDE DEF q
<1>5. ASSUME NEW w \in Threads, NEW j \in 1 .. Len(T2[w].tbclist)
      PROVE  \/ w = u /\ j = n + 1 /\ T2[w].tbclist[j] = v
             \/ j \in 1 .. Len(T[w].tbclist) /\ T2[w].tbclist[j] = T[w].tbclist[j]
  <2>1. CASE w # u
    <3>1. T2[w] = T[w]
      BY <2>1 DEF Others
    <3> QED BY <1>5, <3>1
  <2>2. CASE w = u
    <3>1. j \in 1 .. n + 1
      BY <1>4, <1>5, <2>2
    <3>2. j = n + 1 \/ j \in 1 .. n
      BY <1>3, <3>1
    <3>3. CASE j = n + 1
      BY <1>4, <2>2, <3>3
    <3>4. CASE j \in 1 .. n
      BY <1>4, <1>q, <2>2, <3>4
    <3> QED BY <3>2, <3>3, <3>4, <1>5, <2>2
  <2> QED BY <2>1, <2>2
<1>6. ASSUME NEW t \in Threads, NEW w \in Threads, NEW j \in 1 .. Len(T2[w].tbclist)
      PROVE  /\ \A i \in 1 .. Len(T2[t].tbclist) :
                  T2[t].tbclist[i] = T2[w].tbclist[j] => t = w /\ i = j
             /\ \A i \in 1 .. Len(T2[t].ci) : T2[t].ci[i].of # T2[w].tbclist[j]
  <2> DEFINE e == T2[w].tbclist[j]
  <2>1. \/ w = u /\ j = n + 1 /\ e = v
        \/ j \in 1 .. Len(T[w].tbclist) /\ e = T[w].tbclist[j]
    BY <1>5, <1>6
  <2> HIDE DEF e
  <2>2. ASSUME NEW i \in 1 .. Len(T2[t].tbclist), T2[t].tbclist[i] = e
        PROVE  t = w /\ i = j
    <3>1. \/ t = u /\ i = n + 1 /\ e = v
          \/ i \in 1 .. Len(T[t].tbclist) /\ e = T[t].tbclist[i]
      BY <1>5, <2>2
    <3>2. (i \in 1 .. Len(T[t].tbclist) /\ e = T[t].tbclist[i]) => e # v
      BY DEF NotPending
    <3>3. (j \in 1 .. Len(T[w].tbclist) /\ e = T[w].tbclist[j]) => e # v
      BY DEF NotPending
    <3>4. ASSUME i \in 1 .. Len(T[t].tbclist), e = T[t].tbclist[i],
                 j \in 1 .. Len(T[w].tbclist), e = T[w].tbclist[j]
          PROVE  t = w /\ i = j
      <4>1. \A k \in 1 .. Len(T[w].tbclist) :
              /\ \A l \in 1 .. Len(T[t].tbclist) :
                   T[t].tbclist[l] = T[w].tbclist[k] => t = w /\ l = k
              /\ \A l \in 1 .. Len(T[t].ci) : T[t].ci[l].of # T[w].tbclist[k]
        BY <1>1, <1>6, Zenon DEF Once
      <4> QED BY <3>4, <4>1
    <3> QED BY <2>1, <3>1, <3>2, <3>3, <3>4
  <2>3. ASSUME NEW i \in 1 .. Len(T2[t].ci)
        PROVE  T2[t].ci[i].of # e
    <3>1. i \in 1 .. Len(T[t].ci) /\ T2[t].ci[i] = T[t].ci[i]
      BY <1>2, <2>3
    <3>2. e = v => T[t].ci[i].of # e
      BY <3>1 DEF NotClosing
    <3>3. j \in 1 .. Len(T[w].tbclist) /\ e = T[w].tbclist[j] => T[t].ci[i].of # e
      BY <1>1, <3>1 DEF Once
    <3> QED BY <2>1, <3>1, <3>2, <3>3
  <2> QED BY <2>2, <2>3 DEF e
<1>7. Once(T2)
  BY <1>6, Zenon DEF Once
<1>8. Awake(T2)
  BY <1>1, <1>2 DEF Awake
<1> QED BY <1>7, <1>8 DEF Tidy

LEMMA TidyLess ==
  ASSUME NEW T, IsTh(T), Tidy(T), NEW T2, IsTh(T2), NEW u \in Threads, Others(T, T2, u),
         \/ T2[u].ci = T[u].ci /\ T2[u].status = T[u].status
         \/ Len(T2[u].ci) = 0,
         Len(T2[u].tbclist) <= Len(T[u].tbclist),
         \A i \in 1 .. Len(T2[u].tbclist) : T2[u].tbclist[i] = T[u].tbclist[i]
  PROVE  Tidy(T2)
<1>1. Once(T) /\ Awake(T)
  BY DEF Tidy
<1>2. \A w \in Threads : Len(T2[w].tbclist) \in Nat /\ Len(T[w].tbclist) \in Nat
  BY ThreadFields DEF IsTh
<1>3. ASSUME NEW w \in Threads, NEW j \in 1 .. Len(T2[w].tbclist)
      PROVE  j \in 1 .. Len(T[w].tbclist) /\ T2[w].tbclist[j] = T[w].tbclist[j]
  <2>1. CASE w # u
    BY <1>3, <2>1 DEF Others
  <2>2. CASE w = u
    <3>1. j \in 1 .. Len(T[u].tbclist)
      BY <1>2, <1>3, <2>2
    <3> QED BY <2>2, <3>1
  <2> QED BY <2>1, <2>2
<1>4. ASSUME NEW w \in Threads, NEW i \in 1 .. Len(T2[w].ci)
      PROVE  i \in 1 .. Len(T[w].ci) /\ T2[w].ci[i] = T[w].ci[i] /\ T2[w].status = T[w].status
  <2>1. CASE w # u
    BY <1>4, <2>1 DEF Others
  <2>2. CASE w = u
    <3>1. CASE Len(T2[u].ci) = 0
      <4>1. i \in 1 .. 0
        BY <1>4, <2>2, <3>1
      <4> QED BY <4>1
    <3>2. CASE T2[u].ci = T[u].ci /\ T2[u].status = T[u].status
      BY <1>4, <2>2, <3>2
    <3> QED BY <3>1, <3>2
  <2> QED BY <2>1, <2>2
<1>5. ASSUME NEW t \in Threads, NEW w \in Threads, NEW j \in 1 .. Len(T2[w].tbclist)
      PROVE  /\ \A i \in 1 .. Len(T2[t].tbclist) :
                  T2[t].tbclist[i] = T2[w].tbclist[j] => t = w /\ i = j
             /\ \A i \in 1 .. Len(T2[t].ci) : T2[t].ci[i].of # T2[w].tbclist[j]
  <2>1. j \in 1 .. Len(T[w].tbclist) /\ T2[w].tbclist[j] = T[w].tbclist[j]
    BY <1>3, <1>5
  <2>2. \A k \in 1 .. Len(T[w].tbclist) :
          /\ \A i \in 1 .. Len(T[t].tbclist) : T[t].tbclist[i] = T[w].tbclist[k] => t = w /\ i = k
          /\ \A i \in 1 .. Len(T[t].ci) : T[t].ci[i].of # T[w].tbclist[k]
    BY <1>1, <1>5, ZenonT(40) DEF Once
  <2> QED BY ZenonT(40), <1>3, <1>4, <2>1, <2>2
<1>6. Once(T2)
  BY <1>5, Zenon DEF Once
<1>7. Awake(T2)
  BY <1>1, <1>4 DEF Awake
<1> QED BY <1>6, <1>7 DEF Tidy

\* tbclist alone changes
TbcIs(m, m2, t, tbc) ==
  /\ IsM(m2) /\ m2.cs = m.cs /\ m2.mode = m.mode /\ Others(m.th, m2.th, t)
  /\ m2.th[t].ci = m.th[t].ci /\ m2.th[t].status = m.th[t].status /\ m2.th[t].tbclist = tbc
  /\ IsTh(m2.th) /\ IsTh(m.th)

LEMMA TbcSetIs ==
  ASSUME NEW m, IsM(m), NEW t \in Threads, NEW tbc \in Seq(Variables)
  PROVE  TbcIs(m, SetT(m, t, [m.th[t] EXCEPT !.tbclist = tbc]), t, tbc)
<1> DEFINE s  == m.th[t]
           s2 == [s EXCEPT !.tbclist = tbc]
           m2 == SetT(m, t, s2)
<1>1. IsTh(m.th) /\ s \in LuaState
  BY MachineParts, ThreadFields DEF IsTh
<1>2. s2 \in LuaState /\ s2.ci = s.ci /\ s2.status = s.status /\ s2.tbclist = tbc
  BY <1>1 DEF LuaState
<1> HIDE DEF s2
<1>3. IsM(m2) /\ m2.cs = m.cs /\ m2.mode = m.mode /\ m2.th[t] = s2 /\ Others(m.th, m2.th, t)
  BY <1>2, SetTFacts
<1> HIDE DEF m2
<1>4. IsTh(m2.th)
  BY <1>3, MachineParts
<1> QED BY <1>1, <1>2, <1>3, <1>4 DEF TbcIs, m2, s2

LEMMA TbcCalm ==
  ASSUME NEW m, IsM(m), Core(m.th, m.cs), Calm(m.th, m.cs), NEW t, NEW b, NEW n,
         TopIs(m, t, b, n), NEW m2, NEW tbc, TbcIs(m, m2, t, tbc), Tidy(m2.th)
  PROVE  Calm(m2.th, m2.cs)
<1>1. t \in Threads /\ t \in ChainOf(m.cs)
  BY TopFacts
<1>2. /\ m2.cs = m.cs /\ Others(m.th, m2.th, t) /\ m2.th[t].ci = m.th[t].ci /\ IsTh(m2.th)
  BY DEF TbcIs
<1>3. Shortens(m.th, m.cs, m2.th, m.cs, t)
  BY <1>2, WholePrefix
<1>4. Calm(m2.th, m.cs)
  BY <1>1, <1>2, <1>3, CalmSame
<1> QED BY <1>2, <1>4

LEMMA NewTbcCalm ==
  ASSUME NEW m, NEW t, NEW b, NEW n, LuaTop(m, t, b, n), Calm(m.th, m.cs),
         NEW v \in Variables, NotPending(m.th, v), NotClosing(m.th, v)
  PROVE  Inv2M(SetT(m, t, [m.th[t] EXCEPT !.tbclist = Append(m.th[t].tbclist, v)]))
<1> DEFINE tbc == Append(m.th[t].tbclist, v)
           m2  == SetT(m, t, [m.th[t] EXCEPT !.tbclist = tbc])
<1>1. /\ IsM(m) /\ Core(m.th, m.cs) /\ TopIs(m, t, b, n) /\ t \in Threads /\ IsTh(m.th)
      /\ m.mode = "run"
  BY LuaReady
<1>2. tbc \in Seq(Variables)
  <2>1. m.th[t].tbclist \in Seq(Variables)
    BY <1>1, ThreadFields DEF IsTh
  <2> QED BY <2>1
<1>3. tbc = Append(m.th[t].tbclist, v)
  OBVIOUS
<1> HIDE DEF tbc
<1>4. TbcIs(m, m2, t, tbc)
  BY <1>1, <1>2, TbcSetIs
<1> HIDE DEF m2
<1>5. Tidy(m2.th)
  <2>1. /\ IsTh(m2.th) /\ Others(m.th, m2.th, t) /\ m2.th[t].ci = m.th[t].ci
        /\ m2.th[t].status = m.th[t].status /\ m2.th[t].tbclist = Append(m.th[t].tbclist, v)
    BY <1>3, <1>4 DEF TbcIs
  <2>2. Tidy(m.th)
    BY DEF Calm
  <2> QED BY <1>1, <2>1, <2>2, TidyMore
<1>6. Calm(m2.th, m2.cs)
  BY <1>1, <1>4, <1>5, TbcCalm
<1>7. m2.mode # "return"
  BY <1>1, <1>4 DEF TbcIs
<1>8. Inv2M(m2)
  BY <1>6, <1>7, NoReturn DEF Inv2M
<1> QED BY <1>8 DEF m2, tbc

\* A call that closes the variables of a protected call has marked it, or is
\* not that of lua_pcallk
LEMMA CloseLow ==
  ASSUME NEW m, IsM(m), InvM(m), m.mode = "run", Calm(m.th, m.cs), NEW t, NEW b, NEW n,
         TopIs(m, t, b, n), b.k = "close", n > 0, m.th[t].ci[n].ypcall
  PROVE  m.th[t].ci[n].recst # "OK"
<1> DEFINE C  == m.cs
           ci == m.th[t].ci
           b2 == C[Len(C) - 1]
<1>1. /\ Core(m.th, C) /\ OnTop(ci, b, Acts(C, t), "run") /\ FramesOK(ci, Acts(C, t))
      /\ Good(m.th, C, Len(C))
  BY TopReady
<1>2. /\ b \in Activation /\ b.depth \in Nat /\ t \in Threads /\ n \in Nat
      /\ ci \in Seq(CallInfo) /\ Len(C) \in Nat /\ Len(C) > 0 /\ b = C[Len(C)] /\ b.t = t
      /\ n = Len(ci) /\ C \in Seq(Activation)
  <2>1. Len(C) > 0 /\ b = C[Len(C)] /\ b.t = t /\ n = Len(ci)
    BY DEF TopIs
  <2> QED BY SMTT(20), <2>1, TopFacts, MachineParts
<1>3. n = b.depth
  BY <1>1, <1>2, Zenon DEF OnTop
<1>4. ~First(C, Len(C))
  BY <1>1, <1>2, Zenon DEF Good, BlockStarts
<1>5. BelowIs(m, t, b, b2) /\ Linked(ci, b, b2)
  BY <1>1, <1>4, BelowFacts
<1>6. CloseLevel(ci, b, b2)
  <2>1. ActLevel(ci, b, b2)
    BY TopLevels
  <2> QED BY <2>1 DEF ActLevel
<1>7. ci[n].func = "pcall"
  BY <1>1, <1>2 DEF FramesOK, OldHandlers
<1>8. CASE b.yy
  <2>1. ci[n].recst = "ERR"
    BY <1>3, <1>6, <1>7, <1>8 DEF CloseLevel
  <2> QED BY <2>1
<1>9. CASE ~b.yy
  <2>1. b2.k = "prot" /\ b2.use = "closep" /\ b.depth = b2.depth
    BY <1>5, <1>9 DEF Linked, LinkedClose
  <2>2. Len(C) > 1 /\ b2.t = t
    BY <1>5 DEF BelowIs
  <2> DEFINE i == Len(C) - 1
  <2>3. i \in 1 .. Len(C) /\ C[i].k = "prot" /\ ~Resumes(C[i]) /\ C[i].depth > 0
    BY <1>2, <1>3, <2>1, <2>2 DEF Resumes
  <2>4. i > 1 /\ C[i - 1].t = C[i].t
    <3> HIDE DEF i, C
    <3> QED BY <1>1, <2>3, ProtCall
  <2>5. Good(m.th, C, i)
    BY <1>1, <2>3 DEF Core, Stack
  <2>6. Linked(m.th[C[i].t].ci, C[i], C[i - 1])
    <3> HIDE DEF i, C
    <3>1. ~First(C, i)
      BY SMTT(20), <2>4 DEF First
    <3> QED BY <2>5, <3>1, Zenon DEF Good
  <2>7. LinkedProt(m.th[C[i].t].ci, C[i], C[i - 1]) /\ C[i].depth = n /\ C[i].t = t
    BY <1>3, <2>1, <2>2, <2>6 DEF Linked
  <2>8. ~ci[n].ypcall
    BY <2>3, <2>7, Zenon DEF LinkedProt
  <2> QED BY <2>8
<1> QED BY <1>2, <1>8, <1>9

LEMMA CloseNextCalm ==
  ASSUME NEW m, IsM(m), InvM(m), m.mode = "run", Calm(m.th, m.cs), NEW t, NEW b, NEW n,
         TopIs(m, t, b, n), b.k = "close", Len(m.th[t].tbclist) > 0
  PROVE  Inv2M(Ccall(SetT(m, t, [m.th[t] EXCEPT !.tbclist = Front(m.th[t].tbclist)]), t,
                     IF b.yy THEN "yieldable" ELSE "nyci", Last(m.th[t].tbclist)))
<1> DEFINE q   == m.th[t].tbclist
           of  == Last(q)
           tbc == Front(q)
           m2  == SetT(m, t, [m.th[t] EXCEPT !.tbclist = tbc])
           inc == IF b.yy THEN "yieldable" ELSE "nyci"
           ci  == m.th[t].ci
<1>1. Core(m.th, m.cs) /\ t \in Threads /\ IsTh(m.th) /\ b.t = t /\ n = Len(ci)
      /\ b = m.cs[Len(m.cs)] /\ Len(m.cs) > 0
  <2>1. Core(m.th, m.cs)
    BY TopReady
  <2>2. t \in Threads /\ IsTh(m.th)
    BY TopFacts, MachineParts
  <2> QED BY <2>1, <2>2 DEF TopIs
<1>2. q \in Seq(Variables)
  BY <1>1, ThreadFields DEF IsTh
<1>3. /\ tbc \in Seq(Variables) /\ Len(tbc) = Len(q) - 1 /\ \A i \in 1 .. Len(q) - 1 : tbc[i] = q[i]
      /\ of = q[Len(q)] /\ of \in Variables /\ Len(q) \in Nat /\ Len(q) > 0
  <2>1. /\ tbc \in Seq(Variables) /\ Len(tbc) = Len(q) - 1
        /\ \A i \in 1 .. Len(q) - 1 : tbc[i] = q[i]
    <3> HIDE DEF q
    <3> QED BY <1>2, FrontFacts DEF q
  <2>2. Len(q) \in Nat /\ Len(q) > 0 /\ of = q[Len(q)]
    BY <1>2 DEF Last
  <2> HIDE DEF q
  <2>3. q[Len(q)] \in Variables
    BY <1>2, <2>2
  <2> QED BY <2>1, <2>2, <2>3
<1> HIDE DEF tbc, of
<1>4. TbcIs(m, m2, t, tbc)
  BY <1>1, <1>3, TbcSetIs
<1>5. Begins(m2, t, inc)
  BY <1>3, CloseBegun
<1> HIDE DEF m2, inc
<1>6. /\ m2.cs = m.cs /\ Others(m.th, m2.th, t) /\ m2.th[t].ci = ci /\ IsTh(m2.th)
      /\ m2.th[t].status = m.th[t].status /\ m2.th[t].tbclist = tbc
  BY <1>4 DEF TbcIs
<1>7. Tidy(m.th)
  BY DEF Calm
<1>8. Tidy(m2.th)
  <2>1. Len(m2.th[t].tbclist) <= Len(m.th[t].tbclist)
    BY <1>3, <1>6
  <2>2. \A i \in 1 .. Len(m2.th[t].tbclist) : m2.th[t].tbclist[i] = m.th[t].tbclist[i]
    BY <1>3, <1>6
  <2>3. m2.th[t].ci = m.th[t].ci /\ m2.th[t].status = m.th[t].status
    BY <1>6
  <2> QED BY <1>1, <1>6, <1>7, <2>1, <2>2, <2>3, TidyLess
<1>9. Calm(m2.th, m2.cs)
  BY <1>1, <1>4, <1>8, TbcCalm
<1>10. NotPending(m2.th, of)
  <2> SUFFICES ASSUME NEW w \in Threads, NEW j \in 1 .. Len(m2.th[w].tbclist),
                      m2.th[w].tbclist[j] = of
               PROVE  FALSE
    BY DEF NotPending
  <2>1. \A k \in 1 .. Len(m.th[w].tbclist) :
          /\ \A i \in 1 .. Len(m.th[t].tbclist) :
               m.th[t].tbclist[i] = m.th[w].tbclist[k] => t = w /\ i = k
          /\ \A i \in 1 .. Len(m.th[t].ci) : m.th[t].ci[i].of # m.th[w].tbclist[k]
    <3>1. Once(m.th)
      BY <1>7 DEF Tidy
    <3> QED BY <1>1, <3>1, ZenonT(40) DEF Once
  <2>2. CASE w # t
    <3>1. m2.th[w] = m.th[w]
      BY <1>6, <2>2 DEF Others
    <3>2. j \in 1 .. Len(m.th[w].tbclist) /\ m.th[w].tbclist[j] = q[Len(q)]
      BY <1>3, <3>1
    <3>3. Len(q) \in 1 .. Len(q)
      BY <1>3
    <3> QED BY <2>1, <2>2, <3>2, <3>3
  <2>3. CASE w = t
    <3>1. j \in 1 .. Len(q) - 1 /\ q[j] = q[Len(q)]
      BY <1>3, <1>6, <2>3
    <3>2. j \in 1 .. Len(q) /\ Len(q) \in 1 .. Len(q) /\ j # Len(q)
      BY <1>3, <3>1
    <3> QED BY <2>1, <2>3, <3>1, <3>2
  <2> QED BY <2>2, <2>3
<1>11. TopIs(m2, t, b, n)
  BY <1>1, <1>6 DEF TopIs
<1>12. CallLow(m2.th[t].ci, b, n, Len(m2.th[t].tbclist))
  <2>1. n > 0 /\ ci[n].ypcall => ci[n].recst # "OK"
    BY CloseLow
  <2> QED BY <1>6, <2>1 DEF CallLow, Runs
<1>13. of \in Variables \cup {None}
  BY <1>3
<1>14. Inv2M(Ccall(m2, t, inc, of))
  BY <1>5, <1>9, <1>10, <1>11, <1>12, <1>13, CcallCalm
<1> QED BY <1>14 DEF m2, inc, of, tbc

-----------------------------------------------------------------------------
(* luaF_close begins *)

LEMMA CloseActLevel ==
  ASSUME NEW t, NEW level, NEW status, NEW yy, NEW n
  PROVE  CloseAct(t, level, status, yy, n).level = level
  BY DEF CloseAct, Blank

LEMMA ClosePush ==
  ASSUME NEW m, IsM(m), m.cs[1].k = "prot", Calm(m.th, m.cs), NEW t, NEW b, NEW n,
         TopIs(m, t, b, n), NEW level \in Nat, NEW status \in {"OK", "ERR"},
         NEW yy \in BOOLEAN, ~yy => level = b.level,
         yy /\ m.th[t].ci[n].func = "pcall" =>
           level = m.th[t].ci[n].level /\ m.th[t].ci[n].recst = "ERR"
  PROVE  Inv2M(Close(m, t, level, status, yy))
<1> DEFINE a  == CloseAct(t, level, status, yy, n)
           m2 == In(PushC(m, a), "run")
<1>1. /\ t \in Threads /\ n \in Nat /\ b = m.cs[Len(m.cs)] /\ Len(m.cs) > 0
      /\ n = Len(m.th[t].ci) /\ m.cs \in Seq(Activation)
  BY Zenon, TopFacts, MachineParts DEF TopIs
<1>2. /\ a \in Activation /\ a.t = t /\ a.k = "close" /\ a.yy = yy /\ a.depth = n
      /\ a.level = level
  BY <1>1, CloseActFields, CloseActLevel
<1>3. Close(m, t, level, status, yy) = m2
  BY <1>1 DEF Close, CloseAct
<1> HIDE DEF a
<1>4. m2.th = m.th /\ m2.cs = Append(m.cs, a) /\ m2.mode = "run"
  <2>1. IsM(PushC(m, a)) /\ PushC(m, a).th = m.th /\ PushC(m, a).cs = Append(m.cs, a)
    BY <1>2, PushCFacts
  <2> QED BY <2>1, InFacts
<1>5. ActLevel(m.th[a.t].ci, a, b)
  BY <1>2 DEF ActLevel, CallLevel, ProtLevel, CloseLevel
<1>6. m.cs[1].k = "prot"
  OBVIOUS
<1>7. Calm(m.th, Append(m.cs, a))
  <2>1. Len(m.cs) > 0 => b = m.cs[Len(m.cs)] /\ m.cs[1].k = "prot"
    BY <1>1, <1>6
  <2>2. Len(m.cs) = 0 => a.k = "prot"
    BY <1>1
  <2>3. m.cs \in Seq(Activation) /\ a \in Activation
    BY <1>1, <1>2
  <2> QED BY <1>5, <2>1, <2>2, <2>3, CalmPush
<1> HIDE DEF m2
<1>8. Inv2(m2.th, m2.cs, m2.mode)
  BY <1>4, <1>7, NoReturn
<1> QED BY <1>3, <1>8 DEF Inv2M

LEMMA OpClosesCalm ==
  ASSUME NEW m, NEW t, NEW b, NEW n, LuaTop(m, t, b, n), Calm(m.th, m.cs), NEW level \in Nat
  PROVE  Inv2M(Close(m, t, level, "OK", TRUE))
<1>1. /\ IsM(m) /\ Core(m.th, m.cs) /\ TopIs(m, t, b, n) /\ m.th[t].ci[n].func = "lua"
  BY LuaReady
<1>2. m.cs[1].k = "prot"
  BY Zenon, <1>1, FirstProt DEF TopIs
<1> QED BY <1>1, <1>2, ClosePush

\* coroutine.create
LEMMA NewThreadTbc ==
  /\ [NewThread EXCEPT !.body = TRUE].tbclist = <<>> /\ [NewThread EXCEPT !.body = TRUE].ci = <<>>
  /\ [NewThread EXCEPT !.body = TRUE].status = "OK" /\ [NewThread EXCEPT !.body = TRUE] \in LuaState
  BY NewThreadFields DEF NewThread, LuaState

LEMMA CreatedCalm ==
  ASSUME NEW m, IsM(m), Core(m.th, m.cs), Calm(m.th, m.cs), m.mode # "return",
         NEW u \in Threads, u \notin ChainOf(m.cs)
  PROVE  Inv2M(SetT(m, u, [NewThread EXCEPT !.body = TRUE]))
<1> DEFINE s  == [NewThread EXCEPT !.body = TRUE]
           m2 == SetT(m, u, s)
<1>1. s.tbclist = <<>> /\ s.ci = <<>> /\ s.status = "OK" /\ s \in LuaState
  BY NewThreadTbc
<1> HIDE DEF s
<1>2. IsM(m2) /\ m2.cs = m.cs /\ m2.mode = m.mode /\ m2.th[u] = s /\ Others(m.th, m2.th, u)
  BY <1>1, SetTFacts
<1> HIDE DEF m2
<1>3. IsTh(m2.th) /\ IsTh(m.th)
  BY <1>2, MachineParts
<1>4. Len(m2.th[u].ci) = 0 /\ Len(m2.th[u].tbclist) = 0
  BY <1>1, <1>2
<1>5. Tidy(m2.th)
  <2>1. Len(m.th[u].tbclist) \in Nat /\ Tidy(m.th)
    BY <1>3, ThreadFields DEF IsTh, Calm
  <2>2. Len(m2.th[u].tbclist) <= Len(m.th[u].tbclist)
        /\ \A i \in 1 .. Len(m2.th[u].tbclist) : m2.th[u].tbclist[i] = m.th[u].tbclist[i]
    BY <1>4, <2>1
  <2> QED BY <1>2, <1>3, <1>4, <2>1, <2>2, TidyLess
<1>6. CILevels(m2.th[u].ci)
  BY <1>4 DEF CILevels
<1>7. Left(m2.th[u])
  BY <1>1, <1>2, <1>4 DEF Left
<1>8. Shortens(m.th, m.cs, m2.th, m.cs, u)
  BY <1>2, <1>3, WholePrefix
<1>9. Calm(m2.th, m.cs)
  BY <1>5, <1>6, <1>7, <1>8, CalmKept
<1>10. Inv2M(m2)
  BY <1>2, <1>9, NoReturn DEF Inv2M
<1> QED BY <1>10 DEF m2, s

-----------------------------------------------------------------------------
(* A protected call of another thread begins *)

LEMMA BlockCalm ==
  ASSUME NEW T, NEW C, Core(T, C), Calm(T, C), NEW T2, IsTh(T2), NEW u \in Threads,
         Others(T, T2, u), u \notin ChainOf(C), Tidy(T2), CILevels(T2[u].ci),
         NEW p \in Activation, p.k = "prot", p.t = u, ProtLevel(T2[u].ci, p)
  PROVE  Calm(T2, Append(C, p)) /\ Append(C, p)[1].k = "prot"
<1> DEFINE C2 == Append(C, p)
           b  == C[Len(C)]
<1>1. C \in Seq(Activation) /\ Len(C) \in Nat
  BY DEF Core, Types
<1>2. Levels(T) /\ ActLevels(T, C) /\ Leftovers(T, C)
  BY DEF Calm
<1>3. Levels(T2)
  BY <1>2, LevelsKept
<1>4. PrefixOf(C, C)
  BY <1>1 DEF PrefixOf
<1>5. ActLevels(T2, C)
  BY <1>2, <1>4, ActsKept
<1>6. ActLevel(T2[p.t].ci, p, b)
  BY DEF ActLevel, CallLevel, CloseLevel
<1>7. Len(C) > 0 => b = C[Len(C)] /\ C[1].k = "prot"
  BY FirstProt
<1> HIDE DEF b
<1>8. ActLevels(T2, C2)
  <2>1. Len(C) = 0 => p.k = "prot"
    OBVIOUS
  <2> QED BY <1>1, <1>5, <1>6, <1>7, <2>1, ActLevelsPush
<1>9. ChainOf(C2) = ChainOf(C) \cup {u}
  BY <1>1, ChainPush
<1>10. Leftovers(T2, C2)
  <2> HIDE DEF C2
  <2> QED BY <1>2, <1>9, LeftKept
<1>11. C2[1].k = "prot"
  <2>1. Len(C) = 0 => C2[1] = p
    BY <1>1
  <2>2. Len(C) > 0 => C2[1] = C[1]
    BY <1>1
  <2> QED BY <1>1, <1>7, <2>1, <2>2
<1> QED BY <1>3, <1>8, <1>10, <1>11 DEF Calm

LEMMA ResetTbc ==
  ASSUME NEW s \in LuaState, NEW c \in Nat
  PROVE  ResetState(s, c).tbclist = s.tbclist
  BY DEF ResetState, LuaState

\* lua_closethread
LEMMA ResetCalm ==
  ASSUME NEW m, IsM(m), Core(m.th, m.cs), Calm(m.th, m.cs), NEW u \in Threads,
         NEW then \in {"close", "wrap"}, NEW t \in Threads, t \notin ChainOf(m.cs)
  PROVE  Inv2M(ResetThread(m, t, u, then))
<1> DEFINE s  == ResetState(m.th[t], m.th[u].nCcalls)
           m1 == SetT(m, t, s)
           T1 == m1.th
           C  == m.cs
           p  == ProtectClose(m1, t, 0, then, 0)
           m2 == PushC(m1, p)
           C2 == Append(C, p)
<1>1. C \in Seq(Activation) /\ Len(C) \in Nat /\ IsTh(m.th)
  BY MachineParts
<1>2. m.th[t] \in LuaState /\ m.th[u].nCcalls \in Nat
  BY <1>1, ThreadFields DEF IsTh
<1>3. s \in LuaState /\ s.ci = <<>> /\ s.status = "OK" /\ s.tbclist = m.th[t].tbclist
  BY <1>2, ResetStateFields, ResetTbc
<1> HIDE DEF s
<1>4. IsM(m1) /\ m1.cs = C /\ T1[t] = s /\ Others(m.th, T1, t)
  BY <1>3, SetTFacts
<1> HIDE DEF m1
<1>5. IsTh(T1) /\ Len(T1[t].ci) = 0
  BY <1>3, <1>4, MachineParts
<1>6. p \in Activation /\ p.k = "prot" /\ p.t = t /\ p.use = "closep" /\ p.depth = 0 /\ p.level = 0
  BY SMTT(20), <1>4, <1>5, ProtectCloseFacts, ProtectLevel
<1> HIDE DEF p
<1>7. Tidy(T1)
  <2>1. Tidy(m.th) /\ Len(m.th[t].tbclist) \in Nat
    BY <1>1, ThreadFields DEF IsTh, Calm
  <2>2. Len(T1[t].tbclist) <= Len(m.th[t].tbclist)
        /\ \A i \in 1 .. Len(T1[t].tbclist) : T1[t].tbclist[i] = m.th[t].tbclist[i]
    BY <1>3, <1>4, <2>1
  <2> HIDE DEF T1
  <2> QED BY <1>1, <1>4, <1>5, <2>1, <2>2, TidyLess
<1>8. CILevels(T1[t].ci)
  BY <1>5 DEF CILevels
<1>9. ProtLevel(T1[t].ci, p)
  BY <1>6 DEF ProtLevel, Resumes
<1>10. Calm(T1, C2) /\ C2[1].k = "prot"
  <2> HIDE DEF T1
  <2> QED BY <1>4, <1>5, <1>6, <1>7, <1>8, <1>9, BlockCalm
<1>11. IsM(m2) /\ m2.th = T1 /\ m2.cs = C2
  BY <1>4, <1>6, PushCFacts
<1>12. PICK status \in {"OK", "ERR"} : ResetThread(m, t, u, then) = Close(m2, t, 0, status, FALSE)
  <2>1. PICK status \in {"OK", "ERR"} : ResetThread(m, t, u, then) = ResetTo(m, t, u, then, status)
    BY ResetIs
  <2>2. ResetTo(m, t, u, then, status) = Close(m2, t, 0, status, FALSE)
    BY DEF ResetTo, ResetFirst, m1, p, s
  <2> QED BY <2>1, <2>2
<1> HIDE DEF m2
<1>13. TopIs(m2, t, p, 0)
  <2>1. Len(C2) > 0 /\ C2[Len(C2)] = p
    <3> HIDE DEF C
    <3> QED BY <1>1, <1>6
  <2> HIDE DEF C2, T1, C
  <2> QED BY <1>5, <1>6, <1>11, <2>1 DEF TopIs
<1>14. m2.cs[1].k = "prot" /\ Calm(m2.th, m2.cs)
  BY <1>10, <1>11
<1>15. Inv2M(Close(m2, t, 0, status, FALSE))
  BY <1>6, <1>11, <1>13, <1>14, ClosePush
<1> QED BY <1>12, <1>15

LEMMA CloseCalledCalm ==
  ASSUME NEW m, NEW t, NEW b, NEW n, LuaTop(m, t, b, n), Calm(m.th, m.cs),
         NEW level \in Nat, NEW u \in Threads, u \notin ChainOf(m.cs)
  PROVE  Inv2M(ResetThread(PushCI(m, t, Frame("close", level)), u, t, "close"))
<1> DEFINE f  == Frame("close", level)
           m2 == PushCI(m, t, f)
<1>1. f \in CallInfo /\ f.func # "yield" /\ f.of = None /\ f.op = None
  BY PushedFrame DEF CFunctions
<1>2. Called1(m, m2, t, b, n, f)
  BY CPushed DEF CFunctions
<1> HIDE DEF f
<1>3. Calm(m2.th, m2.cs)
  BY <1>1, PushCalm
<1> HIDE DEF m2
<1>4. IsM(m2) /\ m2.cs = m.cs /\ Core(m2.th, m2.cs) /\ t \in Threads
  BY <1>2, LuaReady DEF Called1
<1>5. Inv2M(ResetThread(m2, u, t, "close"))
  BY <1>3, <1>4, ResetCalm
<1> QED BY <1>5 DEF m2, f

-----------------------------------------------------------------------------
(* lua_resume *)

LEMMA NewCalm ==
  ASSUME NEW m, IsM(m), Core(m.th, m.cs), Live(m.th, m.cs), Caller(m), Calm(m.th, m.cs),
         NEW t \in Threads, t \notin ChainOf(m.cs), t # MainThread, m.th[t].body,
         NEW c \in Nat, c = Cnt(m.cs, Len(m.cs))
  PROVE  Inv2M(Ccall(SetBody(ResumeProt(m, t, c), t), t, "none", None))
<1> DEFINE p  == ResumeP(m, t, c)
           m2 == ResumeProt(m, t, c)
           m3 == SetBody(m2, t)
           T3 == m3.th
           C  == m.cs
           C3 == Append(C, p)
<1>1. C \in Seq(Activation) /\ Len(C) \in Nat /\ IsTh(m.th)
  BY MachineParts
<1>2. /\ IsM(m2) /\ m2.cs = C3 /\ Others(m.th, m2.th, t)
      /\ m2.th[t].status = m.th[t].status /\ m2.th[t].ci = m.th[t].ci
      /\ m2.th[t].tbclist = m.th[t].tbclist
      /\ p \in Activation /\ p.k = "prot" /\ p.use = "resume" /\ p.t = t
  <2>1. ResumeBegun(m, m2, p, t, c)
    BY ResumeProtFacts
  <2> HIDE DEF p, m2
  <2> QED BY <2>1 DEF ResumeBegun
<1>3. Begins(m3, t, "none")
  BY ResumeNew
<1> HIDE DEF p, m2
<1>4. /\ IsM(m3) /\ m3.cs = m2.cs /\ Others(m2.th, T3, t)
      /\ T3[t].status = m2.th[t].status /\ T3[t].ci = m2.th[t].ci
      /\ T3[t].tbclist = m2.th[t].tbclist
  <2>1. IsM(m2)
    BY <1>2
  <2> QED BY <2>1, SetBodyFacts
<1> HIDE DEF m3
<1>5. /\ IsTh(T3) /\ Others(m.th, T3, t) /\ m3.cs = C3 /\ T3[t].ci = m.th[t].ci
      /\ T3[t].tbclist = m.th[t].tbclist /\ T3[t].status = m.th[t].status
  BY <1>2, <1>4, MachineParts DEF Others
<1>6. m.th[t].status = "OK" /\ Len(m.th[t].ci) = 0 /\ Len(m.th[t].tbclist) = 0
  <2>1. StatusOf(m.th, C, t) /\ Left(m.th[t])
    BY DEF Core, States, Calm, Leftovers
  <2>2. m.th[t].status = "OK" /\ Len(m.th[t].ci) = 0
    BY <2>1 DEF StatusOf
  <2> QED BY <2>1, <2>2 DEF Left
<1>7. Tidy(T3)
  <2>1. Moves(m.th, T3, t) /\ Tidy(m.th)
    BY <1>5 DEF Moves, Calm
  <2> QED BY <1>1, <1>5, <2>1, TidySame
<1>8. CILevels(T3[t].ci) /\ ProtLevel(T3[t].ci, p)
  BY <1>2, <1>5, <1>6 DEF CILevels, ProtLevel, Resumes
<1>9. Calm(T3, C3)
  <2> HIDE DEF T3
  <2> QED BY <1>2, <1>5, <1>7, <1>8, BlockCalm
<1>10. TopIs(m3, t, p, 0)
  <2>1. Len(C3) > 0 /\ C3[Len(C3)] = p
    <3> HIDE DEF C
    <3> QED BY <1>1, <1>2
  <2> HIDE DEF C3, T3, C
  <2> QED BY <1>2, <1>5, <1>6, <2>1 DEF TopIs, T3
<1>11. CallLow(m3.th[t].ci, p, 0, Len(m3.th[t].tbclist))
  BY <1>2, <1>5, <1>6 DEF CallLow, BaseLevel, Resumes, Runs
<1>12. NotPending(m3.th, None) /\ Calm(m3.th, m3.cs)
  BY <1>5, <1>9, NoneNotPending
<1>13. Inv2M(Ccall(m3, t, "none", None))
  BY <1>3, <1>10, <1>11, <1>12, CcallCalm
<1> QED BY <1>13 DEF m3, m2

LEMMA AgainCalm ==
  ASSUME NEW m, IsM(m), Core(m.th, m.cs), Calm(m.th, m.cs),
         NEW t \in Threads, t \notin ChainOf(m.cs), m.th[t].status = "YIELD", NEW c \in Nat
  PROVE  Inv2M(In(PushC(PopCI(SetStatus(ResumeProt(m, t, c), t, "OK"), t), Blank(t)), "return"))
<1> DEFINE p  == ResumeP(m, t, c)
           m2 == ResumeProt(m, t, c)
           m3 == SetStatus(m2, t, "OK")
           m4 == PopCI(m3, t)
           m5 == PushC(m4, Blank(t))
           m6 == In(m5, "return")
           C  == m.cs
           C3 == Append(C, p)
           C5 == Append(C3, Blank(t))
           T  == m.th
           T4 == m4.th
           ci == T[t].ci
           n  == Len(ci)
<1>1. C \in Seq(Activation) /\ Len(C) \in Nat /\ IsTh(T) /\ ci \in Seq(CallInfo) /\ n \in Nat
  BY MachineParts, ThreadFields DEF IsTh
<1>2. /\ IsM(m2) /\ m2.cs = C3 /\ Others(T, m2.th, t)
      /\ m2.th[t].ci = ci /\ m2.th[t].tbclist = T[t].tbclist
      /\ p \in Activation /\ p.k = "prot" /\ p.use = "resume" /\ p.t = t
  <2>1. ResumeBegun(m, m2, p, t, c)
    BY ResumeProtFacts
  <2> HIDE DEF p, m2
  <2> QED BY <2>1 DEF ResumeBegun
<1> HIDE DEF p, m2
<1>3. /\ IsM(m3) /\ m3.cs = C3 /\ Others(m2.th, m3.th, t)
      /\ m3.th[t].status = "OK" /\ m3.th[t].ci = ci /\ m3.th[t].tbclist = T[t].tbclist
  <2>1. /\ IsM(m3) /\ m3.cs = m2.cs /\ Others(m2.th, m3.th, t) /\ m3.th[t].status = "OK"
        /\ m3.th[t].ci = m2.th[t].ci /\ m3.th[t].tbclist = m2.th[t].tbclist
    <3>1. IsM(m2)
      BY <1>2
    <3> QED BY <3>1, SetStatusFacts
  <2> HIDE DEF m3, C3, C, ci, T
  <2> QED BY <1>2, <2>1
<1> HIDE DEF m3
<1>4. Suspended(T[t]) /\ Left(T[t]) /\ LuaBelow(ci)
  BY DEF Core, States, StatusOf, Frames, FramesOK, Calm, Leftovers
<1>5. /\ n > 0 /\ ci[n].func = "yield" /\ \A j \in 1 .. n - 1 : Continues(ci[j])
  BY <1>4 DEF Suspended
<1>6. n > 1 /\ ci[n - 1].func = "lua" /\ ci[1].level = 0
  <2>1. n \in 1 .. Len(ci)
    BY <1>1, <1>5
  <2>2. ~ci[n].fresh /\ n > 1 /\ ci[n - 1].func = "lua"
    BY <1>4, <1>5, <2>1 DEF LuaBelow
  <2> QED BY <1>4, <2>2 DEF Left
<1>7. /\ IsM(m4) /\ m4.cs = C3 /\ Others(m3.th, T4, t) /\ T4[t].status = "OK"
      /\ T4[t].ci = Front(ci) /\ T4[t].tbclist = T[t].tbclist
  BY <1>3, <1>5, PopCIFacts DEF OnlyCI
<1> HIDE DEF m4
<1>8. IsTh(T4) /\ Others(T, T4, t)
  BY <1>2, <1>3, <1>7, MachineParts DEF Others
<1>9. /\ T4[t].ci \in Seq(CallInfo) /\ Len(T4[t].ci) = n - 1
      /\ \A j \in 1 .. n - 1 : T4[t].ci[j] = ci[j]
  <2> HIDE DEF ci
  <2> QED BY <1>1, <1>5, <1>7, FrontFacts
<1> HIDE DEF n
<1>10. Cuts(T, T4, t)
  <2>1. Moves(T, T4, t)
    BY <1>7, <1>8 DEF Moves
  <2>2. LeftOf(ci, T4[t].ci)
    <3>1. Len(T4[t].ci) <= Len(ci) /\ Len(T4[t].ci) = n - 1 /\ n \in Nat
      BY SMTT(20), <1>1, <1>9 DEF n
    <3> QED BY <1>9, <3>1 DEF LeftOf
  <2>3. NoYield(T4[t].ci)
    <3> SUFFICES ASSUME NEW j \in 1 .. Len(T4[t].ci)
                 PROVE  T4[t].ci[j].func # "yield"
      BY DEF NoYield
    <3>1. Continues(ci[j]) /\ T4[t].ci[j] = ci[j]
      BY <1>5, <1>9
    <3> QED BY <3>1 DEF Continues
  <2> QED BY <2>1, <2>2, <2>3 DEF Cuts
<1>11. Tidy(T4)
  <2>1. Tidy(T)
    BY DEF Calm
  <2> QED BY <1>1, <1>10, <2>1, TidyCut
<1>12. CILevels(T4[t].ci)
  <2>1. CILevels(ci)
    BY DEF Calm, Levels
  <2>2. LeftOf(ci, T4[t].ci)
    BY <1>10 DEF Cuts
  <2> HIDE DEF ci, T4
  <2> QED BY <1>1, <1>9, <2>1, <2>2, LevelsLeft
<1>13. ProtLevel(T4[t].ci, p)
  <2>1. 1 \in 1 .. n - 1
    BY <1>1, <1>6 DEF n
  <2>2. T4[t].ci[1].level = 0
    BY <1>6, <1>9, <2>1
  <2> QED BY <1>2, <2>2 DEF ProtLevel, Resumes
<1>14. Calm(T4, C3) /\ C3[1].k = "prot"
  <2>1. Core(T, C) /\ Calm(T, C) /\ t \notin ChainOf(C)
    OBVIOUS
  <2> HIDE DEF T4, T, C
  <2> QED BY <1>2, <1>8, <1>11, <1>12, <1>13, <2>1, BlockCalm
<1>15. Blank(t) \in Activation /\ Blank(t).t = t /\ Blank(t).k = "unroll"
  BY BlankFields
<1>16. IsM(m5) /\ m5.th = T4 /\ m5.cs = C5
  BY <1>7, <1>15, PushCFacts
<1> HIDE DEF m5
<1>17. m6.th = T4 /\ m6.cs = C5 /\ m6.mode = "return"
  BY <1>16, InFacts
<1> HIDE DEF m6
<1>18. C3 \in Seq(Activation) /\ Len(C3) > 0 /\ C3[Len(C3)] = p
  <2> HIDE DEF C
  <2> QED BY <1>1, <1>2
<1> HIDE DEF C3
<1>19. Len(C5) > 0 /\ C5[Len(C5)] = Blank(t)
  BY <1>15, <1>18
<1>20. Calm(T4, C5)
  <2> DEFINE a == Blank(t)
             b == C3[Len(C3)]
  <2>1. ActLevel(T4[a.t].ci, a, b)
    BY <1>15 DEF ActLevel, CallLevel, ProtLevel, CloseLevel
  <2>2. Len(C3) > 0 => b = C3[Len(C3)] /\ C3[1].k = "prot"
    BY <1>14
  <2>3. Len(C3) = 0 => a.k = "prot"
    BY <1>18
  <2>4. a \in Activation
    BY <1>15
  <2> HIDE DEF a, b, T4
  <2>5. Calm(T4, Append(C3, a))
    BY <1>14, <1>18, <2>1, <2>2, <2>3, <2>4, CalmPush
  <2> QED BY <2>5 DEF a
<1> HIDE DEF C5
<1>21. TopIs(m6, t, Blank(t), n - 1)
  <2>1. Len(m6.cs) > 0 /\ Blank(t) = m6.cs[Len(m6.cs)] /\ m6.th = T4
    BY <1>17, <1>19
  <2>2. Len(m6.th[t].ci) = n - 1 /\ t = Blank(t).t
    BY <1>9, <1>15, <1>17
  <2> QED BY <2>1, <2>2 DEF TopIs
<1>22. OnReturn(m6.th[t].ci, Blank(t), m6.cs[Len(m6.cs) - 1], Len(m6.th[t].tbclist))
  <2> DEFINE c2 == m6.th[t].ci
  <2>1. Len(c2) = n - 1 /\ c2[n - 1].func = "lua"
    <3>1. n - 1 \in 1 .. n - 1
      BY <1>1, <1>6
    <3> QED BY <1>6, <1>9, <1>17, <3>1
  <2>2. n - 1 # 0
    BY <1>1, <1>6
  <2> HIDE DEF c2
  <2> QED BY <1>15, <2>1, <2>2 DEF OnReturn, c2
<1>23. Inv2M(m6)
  <2>1. Calm(m6.th, m6.cs)
    BY <1>17, <1>20
  <2> QED BY <1>21, <1>22, <2>1, ReturnsIs
<1> QED BY <1>23 DEF m6, m5, m4, m3, m2

LEMMA ThreadResumedCalm ==
  ASSUME NEW m, IsM(m), Core(m.th, m.cs), Live(m.th, m.cs), Caller(m), Calm(m.th, m.cs),
         NEW t \in Threads, t \notin ChainOf(m.cs), t # MainThread,
         m.th[t].status = "YIELD" \/ m.th[t].body, th[t].status = m.th[t].status,
         NEW c \in Nat, c = Cnt(m.cs, Len(m.cs))
  PROVE  Inv2M(ResumeThread(m, t, c))
<1>1. m.th[t].body => m.th[t].status = "OK"
  BY DEF Core, States, StatusOf
<1>2. CASE m.th[t].status = "YIELD"
  <2>1. ResumeThread(m, t, c)
          = In(PushC(PopCI(SetStatus(ResumeProt(m, t, c), t, "OK"), t), Blank(t)), "return")
    BY <1>2, ResumeIs
  <2> QED BY <1>2, <2>1, AgainCalm
<1>3. CASE m.th[t].body
  <2>1. ResumeThread(m, t, c) = Ccall(SetBody(ResumeProt(m, t, c), t), t, "none", None)
    BY <1>1, <1>3, ResumeIs
  <2>2. Inv2M(Ccall(SetBody(ResumeProt(m, t, c), t), t, "none", None))
    BY <1>3, NewCalm
  <2> QED BY <2>1, <2>2
<1> QED BY <1>2, <1>3

LEMMA ResumeCalledCalm ==
  ASSUME NEW m, NEW t, NEW b, NEW n, LuaTop(m, t, b, n), Calm(m.th, m.cs),
         NEW func \in {"resume", "wrap"}, NEW level \in Nat, NEW u \in Threads,
         u \notin ChainOf(m.cs), u # MainThread,
         m.th[u].status = "YIELD" \/ m.th[u].body, th[u].status = m.th[u].status
  PROVE  Inv2M(ResumeThread(PushCI(m, t, Frame(func, level)), u, m.th[t].nCcalls))
<1> DEFINE f  == Frame(func, level)
           m2 == PushCI(m, t, f)
           c  == m.th[t].nCcalls
<1>1. f.func = func /\ f \in CallInfo /\ f.func # "yield" /\ f.of = None /\ f.op = None
  BY PushedFrame DEF CFunctions
<1>2. Called1(m, m2, t, b, n, f)
  BY CPushed DEF CFunctions
<1> HIDE DEF f
<1>c. Calm(m2.th, m2.cs)
  BY <1>1, PushCalm
<1> HIDE DEF m2
<1>3. /\ m.th[t] \in LuaState /\ t \in ChainOf(m.cs) /\ Live(m.th, m.cs) /\ TopIs(m, t, b, n)
  BY LuaReady
<1>4. /\ IsM(m2) /\ m2.cs = m.cs /\ Core(m2.th, m2.cs) /\ Live(m2.th, m2.cs)
      /\ TopIs(m2, t, b, n + 1) /\ Runs(b) /\ n + 1 > b.depth /\ m2.th[t].status = "OK"
      /\ Last(m2.th[t].ci) = f /\ m2.th[u] = m.th[u]
  BY <1>2, <1>3 DEF Called1, Others
<1>5. Caller(m2)
  BY <1>1, <1>4 DEF Caller
<1>6. c \in Nat
  BY <1>3 DEF LuaState
<1>7. c = Cnt(m2.cs, Len(m2.cs))
  <2>1. m.cs[Len(m.cs)].t = t /\ Len(m.cs) > 0
    BY <1>3 DEF TopIs
  <2> QED BY <1>3, <1>4, <2>1 DEF Live, CountedTo
<1> HIDE DEF c
<1>8. Inv2M(ResumeThread(m2, u, c))
  BY <1>c, <1>4, <1>5, <1>6, <1>7, ThreadResumedCalm
<1> QED BY <1>8 DEF m2, c, f

-----------------------------------------------------------------------------
(* Yields and returns *)

LEMMA YieldedCalm ==
  ASSUME NEW m, NEW t, NEW b, NEW n, LuaTop(m, t, b, n), Calm(m.th, m.cs), NEW level \in Nat
  PROVE  Inv2M(In(PushCI(SetStatus(m, t, "YIELD"), t, Frame("yield", level)), "YIELD"))
<1> DEFINE f  == Frame("yield", level)
           m1 == SetStatus(m, t, "YIELD")
           m2 == PushCI(m1, t, f)
           m3 == In(m2, "YIELD")
           ci == m.th[t].ci
<1>1. /\ IsM(m) /\ Core(m.th, m.cs) /\ TopIs(m, t, b, n) /\ t \in Threads /\ n \in Nat
      /\ t \in ChainOf(m.cs) /\ ci \in Seq(CallInfo) /\ IsTh(m.th)
  BY LuaReady
<1>2. f \in CallInfo /\ f.of = None /\ f.op = None
  BY FrameFields, FrameRest
<1> HIDE DEF f
<1>3. /\ IsM(m1) /\ m1.cs = m.cs /\ Others(m.th, m1.th, t) /\ m1.th[t].status = "YIELD"
      /\ m1.th[t].ci = ci /\ m1.th[t].tbclist = m.th[t].tbclist
  BY <1>1, SetStatusFacts
<1> HIDE DEF m1
<1>4. OnlyCI(m1, m2, t) /\ m2.th[t].ci = Append(ci, f)
  BY ZenonT(40), <1>1, <1>2, <1>3, PushCIFacts
<1> HIDE DEF m2
<1>5. /\ IsM(m2) /\ m2.cs = m.cs /\ Others(m.th, m2.th, t) /\ m2.th[t].status = "YIELD"
      /\ m2.th[t].tbclist = m.th[t].tbclist
  BY <1>3, <1>4 DEF OnlyCI, Others
<1>6. Moves(m.th, m2.th, t) /\ IsTh(m2.th)
  BY <1>5, MachineParts DEF Moves
<1>7. n = Len(ci)
  BY <1>1 DEF TopIs
<1>8. /\ SameUpTo(ci, Append(ci, f), n) /\ Len(Append(ci, f)) = n + 1
      /\ Append(ci, f)[n + 1] = f
  BY <1>1, <1>7, PushedUpTo
<1>9. AllKept(m.th[t], m2.th[t])
  <2> SUFFICES ASSUME NEW j \in 1 .. n + 1
               PROVE  Kept(m.th[t], m2.th[t], Append(ci, f)[j])
    BY <1>4, <1>8 DEF AllKept
  <2>1. CASE j = n + 1
    BY <1>2, <1>5, <1>8, <2>1 DEF Kept
  <2>2. CASE j \in 1 .. n
    <3>1. Append(ci, f)[j] = ci[j]
      <4> HIDE DEF ci
      <4> QED BY <1>1, <1>7, <2>2
    <3>2. j \in 1 .. Len(m.th[t].ci)
      BY <1>7, <2>2
    <3> HIDE DEF ci
    <3> QED BY <3>1, <3>2 DEF Kept, ci
  <2>3. n \in Nat
    BY <1>1
  <2>4. j = n + 1 \/ j \in 1 .. n
    BY <2>3
  <2> QED BY <2>1, <2>2, <2>4
<1>10. Tidy(m2.th)
  <2>1. Tidy(m.th)
    BY DEF Calm
  <2> QED BY <1>1, <1>5, <1>6, <1>9, <2>1, TidyKept
<1>11. CILevels(m2.th[t].ci)
  <2>1. CILevels(ci)
    BY <1>1 DEF Calm, Levels
  <2>2. ~ci[n].ypcall
    BY LuaNoYpcall
  <2> HIDE DEF ci
  <2> QED BY <1>1, <1>2, <1>4, <1>7, <2>1, <2>2, LevelsPush
<1>12. Calm(m2.th, m.cs)
  <2>1. Shortens(m.th, m.cs, m2.th, m.cs, t)
    BY <1>1, <1>5, <1>6, WholePrefix
  <2>2. SameUpTo(m.th[t].ci, m2.th[t].ci, n) /\ ReachAll(m.cs, t, n, m2.th[t].ci)
    BY <1>4, <1>8, LuaReach
  <2> QED BY <1>1, <1>10, <1>11, <2>1, <2>2, CalmKept
<1>13. m3.th = m2.th /\ m3.cs = m.cs /\ m3.mode = "YIELD"
  BY <1>5, InFacts
<1>14. Inv2M(m3)
  BY <1>12, <1>13, NoReturn DEF Inv2M
<1> QED BY <1>14 DEF m3, m2, m1, f

\* m2 is m when the last call, or activation, of the running thread is over
Down(m, m2, t) ==
  /\ IsM(m2) /\ Moves(m.th, m2.th, t) /\ m2.th[t].status = m.th[t].status
  /\ \/ m2.th[t].ci = m.th[t].ci
     \/ Len(m.th[t].ci) > 0 /\ m2.th[t].ci = Front(m.th[t].ci)
  /\ m2.cs = m.cs \/ m2.cs = Front(m.cs)

LEMMA StepDown ==
  ASSUME NEW m, IsM(m), Core(m.th, m.cs), Calm(m.th, m.cs), NEW t, NEW b, NEW n,
         TopIs(m, t, b, n), NEW m2, Down(m, m2, t), InvM(m2), NEW b2, NEW n2, TopIs(m2, t, b2, n2)
  PROVE  Calm(m2.th, m2.cs)
<1>1. t \in Threads /\ IsTh(m.th) /\ m.cs \in Seq(Activation) /\ Len(m.cs) \in Nat
      /\ Len(m.cs) > 0 /\ m.cs[Len(m.cs)].t = t
  BY TopFacts, MachineParts DEF TopIs
<1>2. Cuts(m.th, m2.th, t) /\ SameUpTo(m.th[t].ci, m2.th[t].ci, Len(m2.th[t].ci))
  BY <1>1, FrontCuts DEF Down
<1>3. PrefixOf(m2.cs, m.cs) /\ \A i \in Len(m2.cs) + 1 .. Len(m.cs) : m.cs[i].t = t
  <2>1. CASE m2.cs = m.cs
    BY <1>1, <2>1 DEF PrefixOf
  <2>2. CASE m2.cs = Front(m.cs)
    <3>1. /\ Front(m.cs) \in Seq(Activation) /\ Len(Front(m.cs)) = Len(m.cs) - 1
          /\ \A i \in 1 .. Len(m.cs) - 1 : Front(m.cs)[i] = m.cs[i]
      BY <1>1, FrontFacts
    <3>2. \A i \in Len(m2.cs) + 1 .. Len(m.cs) : i = Len(m.cs)
      BY <1>1, <2>2, <3>1
    <3>3. Len(m2.cs) <= Len(m.cs)
      BY <1>1, <2>2, <3>1
    <3> QED BY <1>1, <2>2, <3>1, <3>2, <3>3 DEF PrefixOf
  <2> QED BY <2>1, <2>2 DEF Down
<1>4. IsM(m2)
  BY DEF Down
<1> QED BY <1>1, <1>2, <1>3, <1>4, StepCalm

\* the mode does not matter, unless an activation returns
LEMMA Mode2 ==
  ASSUME NEW m, IsM(m), Calm(m.th, m.cs), NEW md \in {"run", "ERR", "YIELD"}
  PROVE  Inv2M(In(m, md))
<1>1. In(m, md).th = m.th /\ In(m, md).cs = m.cs /\ In(m, md).mode = md
  BY InFacts
<1> QED BY <1>1, NoReturn DEF Inv2M

LEMMA DownRuns ==
  ASSUME NEW m, IsM(m), Core(m.th, m.cs), Calm(m.th, m.cs), NEW t, NEW b, NEW n,
         TopIs(m, t, b, n), NEW m2, Down(m, m2, t), NEW md \in {"run", "ERR"},
         InvM(In(m2, md)), NEW b2, NEW n2, TopIs(m2, t, b2, n2)
  PROVE  Inv2M(In(m2, md))
<1> DEFINE m3 == In(m2, md)
<1>1. IsM(m2)
  BY DEF Down
<1>2. IsM(m3) /\ m3.th = m2.th /\ m3.cs = m2.cs /\ m3.mode = md
  BY SMTT(20), <1>1, InFacts
<1> HIDE DEF m3
<1>3. Down(m, m3, t) /\ TopIs(m3, t, b2, n2) /\ InvM(m3)
  BY <1>2 DEF Down, TopIs, m3
<1>4. Calm(m3.th, m3.cs)
  BY <1>3, StepDown
<1>5. Inv2M(m3)
  BY <1>2, <1>4, NoReturn DEF Inv2M
<1> QED BY <1>5 DEF m3

LEMMA FrontTop ==
  ASSUME NEW m, IsM(m), NEW t \in Threads, Len(m.th[t].ci) > 0
  PROVE  Len(Front(m.th[t].ci)) = Len(m.th[t].ci) - 1
<1>1. m.th[t].ci \in Seq(CallInfo)
  BY MachineParts, ThreadFields DEF IsTh
<1> QED BY <1>1, FrontFacts

\* the same when the mode is not changed, or an activation returns
LEMMA DownReturns ==
  ASSUME NEW m, IsM(m), Core(m.th, m.cs), Calm(m.th, m.cs), NEW t, NEW b, NEW n,
         TopIs(m, t, b, n), NEW m2, Down(m, m2, t), InvM(m2), NEW b2, NEW n2,
         TopIs(m2, t, b2, n2), m2.mode = "return" =>
           OnReturn(m2.th[t].ci, b2, m2.cs[Len(m2.cs) - 1], Len(m2.th[t].tbclist))
  PROVE  Inv2M(m2)
<1>1. Calm(m2.th, m2.cs)
  BY StepDown
<1> QED BY <1>1, ReturnsIs

LEMMA EndCcallDown ==
  ASSUME NEW m, IsM(m), InvM(m), m.mode = "return", NEW t, NEW b, NEW n, TopIs(m, t, b, n),
         b.k = "call"
  PROVE  LET m2 == EndCcall(m, t, b.inc)
         IN  /\ Down(m, m2, t) /\ m2.th[t].ci = m.th[t].ci /\ m2.mode = "return"
             /\ m2.cs = Front(m.cs)
<1> DEFINE m2 == EndCcall(m, t, b.inc)
           c  == Cnt(m.cs, Len(m.cs) - 1)
           y  == Nyci(m.cs, t, Len(m.cs) - 1)
<1>1. Live(m.th, m.cs) /\ t \in Threads /\ Len(m.cs) > 0
  BY TopReady, TopFacts DEF TopIs
<1>2. /\ c \in Nat /\ y \in Nat
      /\ m.th[t].nCcalls = c + (IF Counts(b) THEN 1 ELSE 0)
      /\ m.th[t].nny = y + (IF b.inc = "nyci" THEN 1 ELSE 0)
  BY <1>1, CountsBelow
<1>3. Counts(b) <=> b.inc # "none"
  BY DEF Counts
<1> HIDE DEF c, y
<1>4. EndsCcall(m, t, b.inc, c, y)
  BY <1>1, <1>2, <1>3 DEF EndsCcall
<1>5. OnlyCounters(PopC(m), m2, t)
  BY <1>4, EndsCcallFacts
<1>6. PopC(m).th = m.th /\ PopC(m).cs = Front(m.cs) /\ PopC(m).mode = m.mode
  BY <1>1, PopCFacts
<1> HIDE DEF m2
<1>7. /\ IsM(m2) /\ m2.cs = Front(m.cs) /\ Others(m.th, m2.th, t)
      /\ m2.th[t].status = m.th[t].status /\ m2.th[t].ci = m.th[t].ci
      /\ m2.th[t].tbclist = m.th[t].tbclist /\ m2.mode = "return"
  BY <1>5, <1>6 DEF OnlyCounters, Others
<1>8. IsTh(m2.th)
  BY <1>7, MachineParts
<1>9. Down(m, m2, t)
  BY <1>7, <1>8 DEF Down, Moves
<1> QED BY <1>7, <1>9 DEF m2

LEMMA CallReturnsCalm ==
  ASSUME NEW m, IsM(m), InvM(m), m.mode = "return", Calm(m.th, m.cs), NEW t, NEW b, NEW n,
         TopIs(m, t, b, n), b.k = "call", InvM(In(EndCcall(m, t, b.inc), "run"))
  PROVE  Inv2M(In(EndCcall(m, t, b.inc), "run"))
<1> DEFINE m2 == EndCcall(m, t, b.inc)
           b2 == m.cs[Len(m.cs) - 1]
<1>1. TopIs(m2, t, b2, n)
  BY CallEnds DEF CallEnded
<1>2. Down(m, m2, t)
  BY EndCcallDown
<1>3. Core(m.th, m.cs)
  BY TopReady
<1> HIDE DEF m2, b2
<1>4. Inv2M(In(m2, "run"))
  <2>1. InvM(In(m2, "run"))
    BY DEF m2
  <2> QED BY <1>1, <1>2, <1>3, <2>1, DownRuns
<1> QED BY <1>4 DEF m2

LEMMA BodyReturnsCalm ==
  ASSUME NEW m, IsM(m), InvM(m), m.mode = "return", Inv2M(m), NEW t, NEW b, NEW n,
         TopIs(m, t, b, n), b.k = "call", m.cs[Len(m.cs) - 1].k = "prot"
  PROVE  Inv2M(EndCcall(m, t, b.inc))
<1> DEFINE m2 == EndCcall(m, t, b.inc)
           b2 == m.cs[Len(m.cs) - 1]
           x  == Len(m.th[t].tbclist)
<1>1. TopIs(m2, t, b2, n)
  BY CallEnds DEF CallEnded
<1>2. Down(m, m2, t)
  BY EndCcallDown
<1>3. Core(m.th, m.cs) /\ Calm(m.th, m.cs)
  BY TopReady DEF Inv2M, Inv2
<1>4. InvM(m2)
  BY BodyReturns
<1>5. OnReturn(m.th[t].ci, b, b2, x)
  BY DEF Inv2M, Inv2, Returns, TopIs
<1>6. x <= BaseLevel(b2)
  <2>1. b2.k = "prot"
    OBVIOUS
  <2> HIDE DEF b2, x
  <2> QED BY <1>5, <2>1 DEF OnReturn, Expected
<1>7. m2.th[t].tbclist = m.th[t].tbclist
  BY <1>2 DEF Down, Moves
<1>8. OnReturn(m2.th[t].ci, b2, m2.cs[Len(m2.cs) - 1], Len(m2.th[t].tbclist))
  <2>1. b2.k = "prot"
    OBVIOUS
  <2> HIDE DEF b2, m2
  <2> QED BY <1>6, <1>7, <2>1 DEF OnReturn
<1> HIDE DEF m2, b2
<1>9. Inv2M(m2)
  BY SMTT(20), <1>1, <1>2, <1>3, <1>4, <1>8, DownReturns
<1> QED BY <1>9 DEF m2

LEMMA DownPop ==
  ASSUME NEW m, NEW m2, NEW t \in Threads, Down(m, m2, t), m2.th[t].ci = m.th[t].ci,
         Len(m.th[t].ci) > 0, NEW b2, NEW n, TopIs(m2, t, b2, n), NEW m3, OnlyCI(m2, m3, t),
         m3.th[t].ci = Front(m2.th[t].ci)
  PROVE  Down(m, m3, t) /\ TopIs(m3, t, b2, Len(m3.th[t].ci))
<1>1. IsM(m3) /\ m3.cs = m2.cs /\ Others(m2.th, m3.th, t) /\ m3.th[t].status = m2.th[t].status
      /\ m3.th[t].tbclist = m2.th[t].tbclist
  BY DEF OnlyCI
<1>2. IsTh(m3.th)
  BY <1>1, MachineParts
<1>3. Others(m.th, m3.th, t)
  BY <1>1 DEF Down, Moves, Others
<1>4. Down(m, m3, t)
  BY <1>1, <1>2, <1>3 DEF Down, Moves
<1> QED BY <1>1, <1>4 DEF TopIs

LEMMA CReturnsCalm ==
  ASSUME NEW m, IsM(m), InvM(m), m.mode = "return", Calm(m.th, m.cs), NEW t, NEW b, NEW n,
         TopIs(m, t, b, n), b.k = "call", Runs(m.cs[Len(m.cs) - 1]),
         Last(m.th[t].ci).func # "lua", NEW m2, m2 = EndCcall(m, t, b.inc)
  PROVE  Inv2M(In(IF Last(m.th[t].ci).func = "pcall" THEN EndPcallk(m2, t) ELSE PopCI(m2, t),
                  "run"))
<1> DEFINE b2 == m.cs[Len(m.cs) - 1]
           m3 == IF Last(m.th[t].ci).func = "pcall" THEN EndPcallk(m2, t) ELSE PopCI(m2, t)
<1>1. /\ TopIs(m2, t, b2, n) /\ IsM(m2) /\ n > b2.depth
      /\ m2.th[t].ci = m.th[t].ci
  BY CallReturns DEF CallOfRuns
<1>2. Down(m, m2, t)
  BY EndCcallDown
<1>3. Core(m.th, m.cs) /\ t \in Threads
  BY TopReady, TopFacts
<1>4. Len(m.th[t].ci) > 0
  <2>1. n \in Nat /\ b2.depth \in Nat /\ n = Len(m.th[t].ci)
    BY Zenon, <1>1, TopFacts DEF TopIs
  <2> HIDE DEF b2
  <2> QED BY <1>1, <2>1
<1>5. OnlyCI(m2, m3, t) /\ m3.th[t].ci = Front(m2.th[t].ci)
  BY <1>1, <1>3, <1>4, EndPcallkFacts, PopCIFacts
<1>6. InvM(In(m3, "run"))
  BY CReturned
<1> HIDE DEF m3, b2
<1>7. Down(m, m3, t) /\ TopIs(m3, t, b2, Len(m3.th[t].ci))
  BY <1>1, <1>2, <1>3, <1>4, <1>5, DownPop
<1>8. Inv2M(In(m3, "run"))
  BY <1>3, <1>6, <1>7, DownRuns
<1> QED BY <1>8 DEF m3

LEMMA PopCDown ==
  ASSUME NEW m, IsM(m), Len(m.cs) > 0, NEW t
  PROVE  /\ Down(m, PopC(m), t) /\ PopC(m).th = m.th /\ PopC(m).mode = m.mode
         /\ PopC(m).cs = Front(m.cs)
<1> DEFINE m2 == PopC(m)
<1>1. IsM(m2) /\ m2.th = m.th /\ m2.cs = Front(m.cs) /\ m2.mode = m.mode
  BY PopCFacts
<1>2. IsTh(m.th)
  BY MachineParts
<1> HIDE DEF m2
<1>3. Down(m, m2, t)
  BY <1>1, <1>2 DEF Down, Moves, Others
<1> QED BY <1>1, <1>3 DEF m2

LEMMA OpCloseDoneCalm ==
  ASSUME NEW m, IsM(m), InvM(m), m.mode = "run", Calm(m.th, m.cs), NEW t, NEW b, NEW n,
         TopIs(m, t, b, n), b.k = "close", m.cs[Len(m.cs) - 1].k # "prot",
         Last(m.th[t].ci).func = "lua"
  PROVE  Inv2M(PopC(m))
<1> DEFINE m2 == PopC(m)
           b2 == m.cs[Len(m.cs) - 1]
<1>1. Down(m, m2, t) /\ m2.mode = "run"
  BY PopCDown DEF TopIs
<1>2. TopIs(m2, t, b2, n)
  BY CloseDone DEF CloseEnded
<1>3. InvM(m2) /\ Core(m.th, m.cs)
  BY OpCloseDone, TopReady
<1> HIDE DEF m2, b2
<1>4. Inv2M(m2)
  BY <1>1, <1>2, <1>3, DownReturns
<1> QED BY <1>4 DEF m2

\* when xpcall is over, what called it is a Lua function
LEMMA PcallkBelow ==
  ASSUME NEW m, IsM(m), InvM(m), NEW t, NEW b, NEW n, TopIs(m, t, b, n), n > 0,
         m.th[t].ci[n].func = "pcall"
  PROVE  n > 1 /\ m.th[t].ci[n - 1].func = "lua"
<1>1. FramesOK(m.th[t].ci, Acts(m.cs, t)) /\ n = Len(m.th[t].ci) /\ n \in Nat
  BY TopReady, TopFacts DEF TopIs
<1>2. LuaBelow(m.th[t].ci) /\ n \in 1 .. Len(m.th[t].ci)
  BY <1>1 DEF FramesOK
<1> QED BY SMTT(20), <1>2 DEF LuaBelow

LEMMA PcallkGone ==
  ASSUME NEW m, IsM(m), InvM(m), Calm(m.th, m.cs), NEW t, NEW b, NEW n, TopIs(m, t, b, n),
         n > 0, m.th[t].ci[n].func = "pcall", NEW m2, Down(m, m2, t), InvM(m2),
         m2.th[t].ci = Front(m.th[t].ci), NEW b2, NEW n2, TopIs(m2, t, b2, n2), b2.k = "unroll"
  PROVE  Inv2M(m2)
<1>1. n > 1 /\ m.th[t].ci[n - 1].func = "lua"
  BY PcallkBelow
<1>2. n = Len(m.th[t].ci) /\ m.th[t].ci \in Seq(CallInfo) /\ Core(m.th, m.cs) /\ n \in Nat
  BY Zenon, TopReady, TopFacts DEF TopIs
<1>3. /\ Len(Front(m.th[t].ci)) = n - 1
      /\ \A i \in 1 .. n - 1 : Front(m.th[t].ci)[i] = m.th[t].ci[i]
  BY <1>1, <1>2, FrontFacts
<1>4. Len(m2.th[t].ci) = n - 1 /\ m2.th[t].ci[n - 1].func = "lua" /\ n - 1 > 0
  <2>1. n - 1 \in 1 .. n - 1
    BY <1>1, <1>2
  <2> QED BY SMTT(20), <1>1, <1>2, <1>3, <2>1
<1>5. OnReturn(m2.th[t].ci, b2, m2.cs[Len(m2.cs) - 1], Len(m2.th[t].tbclist))
  BY <1>4 DEF OnReturn
<1> QED BY <1>2, <1>5, DownReturns

LEMMA FinishpcallkCalm ==
  ASSUME NEW m, IsM(m), InvM(m), m.mode = "run", Calm(m.th, m.cs), NEW t, NEW b, NEW n,
         TopIs(m, t, b, n), b.k = "close", m.cs[Len(m.cs) - 1].k # "prot",
         Last(m.th[t].ci).func = "pcall"
  PROVE  Inv2M(In(EndPcallk(PopC(m), t), "return"))
<1> DEFINE m2 == PopC(m)
           m3 == EndPcallk(m2, t)
           m4 == In(m3, "return")
           b2 == m.cs[Len(m.cs) - 1]
<1>1. Down(m, m2, t) /\ m2.th = m.th
  BY PopCDown DEF TopIs
<1>2. TopIs(m2, t, b2, n) /\ n > b2.depth /\ Runs(b2)
  BY CloseDone DEF CloseEnded
<1>3. n = Len(m.th[t].ci) /\ n \in Nat /\ t \in Threads /\ IsM(m2)
  BY <1>1, TopFacts DEF TopIs, Down
<1>4. n > 0 /\ m.th[t].ci[n] = Last(m.th[t].ci) /\ b2.k = "unroll"
  <2>1. b2.depth \in Nat
    BY <1>2, <1>3, TopFacts
  <2>2. n > 0
    <3> HIDE DEF b2
    <3> QED BY <1>2, <1>3, <2>1
  <2>3. m.th[t].ci[n] = Last(m.th[t].ci)
    BY <1>3 DEF Last
  <2>4. m.th[t].ci[n].func # "lua"
    BY <2>3
  <2> QED BY <2>2, <2>3, <2>4, CloseDone
<1>5. OnlyCI(m2, m3, t) /\ m3.th[t].ci = Front(m2.th[t].ci)
  BY <1>1, <1>3, <1>4, EndPcallkFacts
<1>6. InvM(m4)
  BY FinishpcallkDone
<1> HIDE DEF m2, b2, m3
<1>7. Down(m, m3, t) /\ TopIs(m3, t, b2, Len(m3.th[t].ci))
  BY <1>1, <1>2, <1>3, <1>4, <1>5, DownPop
<1>8. IsM(m3)
  BY <1>7 DEF Down
<1>9. IsM(m4) /\ m4.th = m3.th /\ m4.cs = m3.cs
  BY SMTT(20), <1>8, InFacts
<1> HIDE DEF m4
<1>10. Down(m, m4, t) /\ TopIs(m4, t, b2, Len(m4.th[t].ci))
  BY <1>7, <1>9 DEF Down, TopIs
<1>11. Inv2M(m4)
  BY <1>1, <1>4, <1>5, <1>6, <1>9, <1>10, PcallkGone
<1> QED BY <1>11 DEF m4, m3, m2

LEMMA PcallkFinishesCalm ==
  ASSUME NEW m, IsM(m), InvM(m), m.mode = "return", Calm(m.th, m.cs), NEW t, NEW b, NEW n,
         TopIs(m, t, b, n), b.k = "unroll", n > 0, Last(m.th[t].ci).func # "lua",
         NEW f, f = Last(m.th[t].ci)
  PROVE  Inv2M(IF f.recst # "OK" THEN Close(m, t, f.level, f.recst, TRUE) ELSE EndPcallk(m, t))
<1>1. /\ Core(m.th, m.cs) /\ n \in Nat /\ m.th[t].ci[n] \in CallInfo
      /\ Continues(m.th[t].ci[n])
  BY UnrollFacts
<1>2. m.th[t].ci[n] = f /\ n = Len(m.th[t].ci) /\ t \in Threads
  BY TopFacts DEF TopIs, Last
<1>3. f.func = "pcall" /\ f.level \in Nat /\ f.recst \in {"OK", "ERR"}
  BY <1>1, <1>2, CallInfoFields DEF Continues
<1>4. m.cs[1].k = "prot"
  BY Zenon, <1>1, FirstProt DEF TopIs
<1>5. CASE f.recst # "OK"
  <2>1. Inv2M(Close(m, t, f.level, f.recst, TRUE))
    BY <1>2, <1>3, <1>4, <1>5, ClosePush
  <2> QED BY <1>5, <2>1
<1>6. CASE f.recst = "OK"
  <2> DEFINE m2 == EndPcallk(m, t)
  <2>1. OnlyCI(m, m2, t) /\ m2.th[t].ci = Front(m.th[t].ci)
    BY <1>2, EndPcallkFacts
  <2>2. InvM(m2)
    BY <1>6, FinishesPcallk
  <2> HIDE DEF m2
  <2>3. Moves(m.th, m2.th, t) /\ m2.th[t].status = m.th[t].status /\ m2.cs = m.cs /\ IsM(m2)
    BY <2>1, OnlyMoves
  <2>4. Down(m, m2, t) /\ TopIs(m2, t, b, Len(m2.th[t].ci))
    BY Zenon, <1>2, <2>1, <2>3 DEF Down, TopIs
  <2>5. Inv2M(m2)
    BY <1>2, <1>3, <2>1, <2>2, <2>4, PcallkGone
  <2> QED BY <1>6, <2>5 DEF m2
<1> QED BY <1>5, <1>6

LEMMA UnrollEndsCalm ==
  ASSUME NEW m, IsM(m), InvM(m), m.mode = "return", Inv2M(m), NEW t, NEW b, NEW n,
         TopIs(m, t, b, n), b.k = "unroll", n = 0
  PROVE  Inv2M(PopC(m))
<1> DEFINE m2 == PopC(m)
           b2 == m.cs[Len(m.cs) - 1]
           x  == Len(m.th[t].tbclist)
<1>1. Down(m, m2, t) /\ m2.th = m.th /\ m2.cs = Front(m.cs)
  BY PopCDown DEF TopIs
<1>2. Core(m.th, m.cs) /\ Calm(m.th, m.cs)
  BY TopReady DEF Inv2M, Inv2
<1>3. Len(m.cs) > 1 /\ Resumes(b2) /\ b2.t = t
  BY <1>2, UnrollAlone DEF TopIs
<1>4. InvM(m2)
  BY UnrollEnds
<1>5. TopIs(m2, t, b2, n)
  <2>1. m.cs \in Seq(Activation) /\ Len(m.cs) \in Nat
    BY MachineParts
  <2>2. /\ Len(Front(m.cs)) = Len(m.cs) - 1
        /\ \A i \in 1 .. Len(m.cs) - 1 : Front(m.cs)[i] = m.cs[i]
    BY <1>3, <2>1, FrontFacts
  <2>3. Len(m.cs) - 1 \in 1 .. Len(m.cs) - 1
    BY <1>3, <2>1
  <2> HIDE DEF m2, b2
  <2>4. Len(m2.cs) = Len(m.cs) - 1 /\ Len(m2.cs) > 0
    BY <1>1, <1>3, <2>1, <2>2
  <2>5. m2.cs[Len(m2.cs)] = b2
    <3>1. m2.cs[Len(m2.cs)] = Front(m.cs)[Len(m.cs) - 1]
      BY <1>1, <2>4
    <3> QED BY <2>2, <2>3, <3>1 DEF b2
  <2> QED BY <1>1, <1>3, <2>4, <2>5 DEF TopIs
<1>6. OnReturn(m.th[t].ci, b, b2, x)
  BY DEF Inv2M, Inv2, Returns, TopIs
<1>7. x = 0
  <2>1. Len(m.th[t].ci) = 0
    BY DEF TopIs
  <2> HIDE DEF x, b2
  <2> QED BY <1>6, <2>1 DEF OnReturn
<1>8. OnReturn(m2.th[t].ci, b2, m2.cs[Len(m2.cs) - 1], Len(m2.th[t].tbclist))
  <2>1. Len(m2.th[t].tbclist) = 0
    BY <1>1, <1>7
  <2> HIDE DEF m2, b2
  <2> QED BY <1>3, <2>1 DEF OnReturn, BaseLevel, Resumes
<1> HIDE DEF m2, b2
<1>9. Inv2M(m2)
  BY <1>1, <1>2, <1>4, <1>5, <1>8, DownReturns
<1> QED BY <1>9 DEF m2

-----------------------------------------------------------------------------
(* Protected calls end *)

\* a block of the C stack is over, and its thread out of it: m1
Leaving(T, C, h, u, m1) ==
  /\ h \in 1 .. Len(C) /\ First(C, h) /\ u = C[h].t /\ \A j \in h + 1 .. Len(C) : C[j].t = u
  /\ IsM(m1) /\ Len(m1.cs) = h - 1 /\ \A i \in 1 .. h - 1 : m1.cs[i] = C[i]
  /\ Moves(T, m1.th, u) /\ m1.th[u].ci = T[u].ci
  /\ m1.th[u].status = T[u].status \/ T[u].status # "YIELD"

LEMMA LeaveBlock ==
  ASSUME NEW T, NEW C, Core(T, C), Calm(T, C), NEW h, NEW u, NEW m1, Leaving(T, C, h, u, m1),
         Left(m1.th[u])
  PROVE  Calm(m1.th, m1.cs) /\ u \notin ChainOf(m1.cs) /\ u \in Threads
<1>1. /\ C \in Seq(Activation) /\ Len(C) \in Nat /\ h \in 1 .. Len(C) /\ IsTh(T) /\ Stack(T, C)
      /\ m1.cs \in Seq(Activation)
  BY MachineParts DEF Core, Types, IsTh, Leaving
<1>2. u \in Threads
  BY <1>1, ActivationsFields DEF Leaving
<1>3. Cuts(T, m1.th, u) /\ SameUpTo(T[u].ci, m1.th[u].ci, Len(m1.th[u].ci))
  BY <1>1, <1>2, FrontCuts DEF Leaving
<1>4. u \notin ChainOf(m1.cs)
  <2>1. \A e \in 1 .. h - 1 : C[e].t # u
    BY <1>1, FirstIsProt DEF Leaving
  <2> QED BY SMTT(20), <2>1 DEF ChainOf, Leaving
<1>5. PrefixOf(m1.cs, C) /\ \A i \in Len(m1.cs) + 1 .. Len(C) : C[i].t = u
  <2>1. Len(m1.cs) = h - 1 /\ \A i \in 1 .. h - 1 : m1.cs[i] = C[i]
    BY DEF Leaving
  <2>2. \A i \in h .. Len(C) : C[i].t = u
    <3>1. \A i \in h .. Len(C) : i = h \/ i \in h + 1 .. Len(C)
      BY <1>1
    <3> QED BY <3>1 DEF Leaving
  <2>3. Len(m1.cs) + 1 = h /\ Len(m1.cs) <= Len(C)
    BY <1>1, <2>1
  <2> QED BY <1>1, <2>1, <2>2, <2>3 DEF PrefixOf
<1>6. Calm(m1.th, m1.cs)
  BY <1>1, <1>2, <1>3, <1>4, <1>5, LeaveCalm
<1> QED BY <1>2, <1>4, <1>6

\* m is T, C without the block that begins at h
Without(T, C, h, m) ==
  /\ Core(T, C) /\ h \in 1 .. Len(C) /\ First(C, h) /\ IsM(m) /\ Len(m.cs) = h - 1
  /\ \A i \in 1 .. h - 1 : m.cs[i] = C[i]
  /\ Core(m.th, m.cs) /\ Others(T, m.th, C[h].t)

\* the C function that began the block returns
LEMMA CallerReturns ==
  ASSUME NEW m, NEW T, NEW C, NEW h, Without(T, C, h, m), h > 1, Calm(m.th, m.cs),
         NEW u, u = C[h - 1].t
  PROVE  /\ u \in Threads /\ m.cs # <<>> /\ Last(m.cs).t = u
         /\ InvM(In(PopCI(m, u), "run")) => Inv2M(In(PopCI(m, u), "run"))
<1> DEFINE t == C[h].t
           b == C[h - 1]
           n == Len(m.th[u].ci)
<1>1. /\ C \in Seq(Activation) /\ Len(C) \in Nat /\ m.cs \in Seq(Activation)
      /\ h \in Nat /\ h \in 1 .. Len(C) /\ IsTh(T)
  BY MachineParts DEF Core, Types, IsTh, Without
<1>2. h - 1 \in 1 .. h - 1 /\ h - 1 \in 1 .. Len(C)
  BY <1>1
<1>3. u \in Threads /\ u # t /\ T[u] = m.th[u]
  <2>1. u \in Threads
    BY <1>1, <1>2, ActivationsFields
  <2>2. u # t
    BY <1>1 DEF First, Without
  <2> QED BY <2>1, <2>2 DEF Others, Without
<1>4. m.cs[Len(m.cs)] = b /\ Len(m.cs) > 0
  BY <1>1, <1>2 DEF Without
<1>5. TopIs(m, u, b, n)
  BY <1>4 DEF TopIs
<1>6. n > 0
  <2> DEFINE T2 == m.th
             C2 == m.cs
  <2>1. /\ u = C[h - 1].t /\ T2[u] = T[u] /\ Core(T2, C2) /\ C2 \in Seq(Activation)
        /\ Len(C2) = h - 1 /\ \A i \in 1 .. h - 1 : C2[i] = C[i]
        /\ h \in 1 .. Len(C) /\ First(C, h) /\ Core(T, C)
    BY <1>1, <1>3 DEF Without
  <2> HIDE DEF T2, C2
  <2>2. /\ Live(T2, C2) /\ Inv(T2, C2, "ERR")
        /\ C2[Len(C2)] = C[h - 1] /\ u \in Threads
        /\ Runs(C[h - 1]) /\ T[u].status = "OK" /\ Len(T[u].ci) > C[h - 1].depth
    BY <2>1, BlockEnds
  <2>3. Len(T[u].ci) \in Nat /\ C[h - 1].depth \in Nat
    BY <1>1, <1>2, <1>3, ThreadFields, ActivationsFields DEF IsTh
  <2> QED BY <1>3, <2>2, <2>3
<1>7. Last(m.cs).t = u /\ m.cs # <<>>
  BY <1>4 DEF Last
<1>8. ASSUME InvM(In(PopCI(m, u), "run")) PROVE Inv2M(In(PopCI(m, u), "run"))
  <2> DEFINE m2 == PopCI(m, u)
  <2>1. OnlyCI(m, m2, u) /\ m2.th[u].ci = Front(m.th[u].ci)
    BY <1>3, <1>6, PopCIFacts DEF Without
  <2>2. InvM(In(m2, "run"))
    BY <1>8
  <2> HIDE DEF m2, b
  <2>3. Moves(m.th, m2.th, u) /\ m2.th[u].status = m.th[u].status /\ m2.cs = m.cs /\ IsM(m2)
    BY <2>1, OnlyMoves
  <2>4. Down(m, m2, u) /\ TopIs(m2, u, b, Len(m2.th[u].ci))
    BY <1>5, <1>6, <2>1, <2>3 DEF Down, TopIs
  <2>5. IsM(m) /\ Core(m.th, m.cs)
    BY DEF Without
  <2>6. Inv2M(In(m2, "run"))
    BY <1>5, <2>2, <2>4, <2>5, DownRuns
  <2> QED BY <2>6 DEF m2
<1> QED BY <1>3, <1>7, <1>8

\* what lua_resume's caller does with the outcome
LEMMA ResumedCalm ==
  ASSUME NEW m, NEW T, NEW C, NEW h, Without(T, C, h, m), Resumes(C[h]),
         NEW t, t = C[h].t, NEW status, Calm(m.th, m.cs), t \notin ChainOf(m.cs)
  PROVE  Inv2M(Resumed(m, t, status))
<1>1. /\ C \in Seq(Activation) /\ Len(C) \in Nat /\ m.cs \in Seq(Activation)
      /\ h \in Nat /\ h \in 1 .. Len(C) /\ IsM(m)
  BY MachineParts DEF Core, Types, Without
<1>2. t \in Threads
  BY <1>1, ActivationsFields
<1>3. InvM(Resumed(m, t, status))
  BY ResumeEnds DEF Without
<1>4. CASE h = 1
  <2>1. m.cs = <<>>
    BY <1>1, <1>4 DEF Without
  <2>2. Resumed(m, t, status) = In(m, "run")
    BY <2>1 DEF Resumed
  <2> QED BY <1>1, <2>2, Mode2
<1>5. CASE h > 1
  <2> DEFINE u == C[h - 1].t
  <2>1. u = C[h - 1].t
    OBVIOUS
  <2> HIDE DEF u
  <2>2. /\ u \in Threads /\ m.cs # <<>> /\ Last(m.cs).t = u
        /\ InvM(In(PopCI(m, u), "run")) => Inv2M(In(PopCI(m, u), "run"))
    BY <1>5, <2>1, CallerReturns
  <2>3. CASE Last(m.th[u].ci).func = "wrap" /\ status = "ERR"
    <3>1. Resumed(m, t, status) = ResetThread(m, t, u, "wrap")
      BY <2>2, <2>3 DEF Resumed
    <3>2. Core(m.th, m.cs)
      BY DEF Without
    <3>3. Inv2M(ResetThread(m, t, u, "wrap"))
      BY <1>1, <1>2, <2>2, <3>2, ResetCalm
    <3> QED BY <3>1, <3>3
  <2>4. CASE ~(Last(m.th[u].ci).func = "wrap" /\ status = "ERR")
    <3>1. Resumed(m, t, status) = In(PopCI(m, u), "run")
      BY <2>2, <2>4 DEF Resumed
    <3> QED BY <1>3, <2>2, <3>1
  <2> QED BY <2>3, <2>4
<1> QED BY <1>1, <1>4, <1>5

\* the level of a protected call that nothing of its thread called
LEMMA FirstLevel ==
  ASSUME NEW T, NEW C, Core(T, C), ActLevels(T, C), NEW h \in 1 .. Len(C), C[h].k = "prot",
         ~Resumes(C[h]), C[h].depth = 0
  PROVE  C[h].level = 0
<1>1. ActLevel(T[C[h].t].ci, C[h], C[h - 1])
  BY DEF ActLevels
<1>2. ProtLevel(T[C[h].t].ci, C[h])
  BY <1>1 DEF ActLevel
<1> QED BY <1>2 DEF ProtLevel

LEMMA LastLeaves ==
  ASSUME NEW m, IsM(m), Calm(m.th, m.cs), NEW h, NEW p, NEW t, NEW m1,
         ProtLast(m, h, p, t, m1), First(m.cs, h)
  PROVE  Leaving(m.th, m.cs, h, t, m1) /\ m1.th[t].status = "OK"
<1>1. /\ h \in 1 .. Len(m.cs) /\ t = m.cs[h].t /\ \A j \in h + 1 .. Len(m.cs) : m.cs[j].t = t
      /\ IsM(m1) /\ Len(m1.cs) = h - 1 /\ \A i \in 1 .. h - 1 : m1.cs[i] = m.cs[i]
      /\ Others(m.th, m1.th, t) /\ m1.th[t].ci = m.th[t].ci
      /\ m1.th[t].status = m.th[t].status /\ m.th[t].status = "OK"
  BY DEF ProtLast, ProtOver
<1>2. m1.th[t].tbclist = m.th[t].tbclist /\ IsTh(m1.th)
  BY <1>1, MachineParts DEF ProtLast
<1> QED BY SMTT(20), <1>1, <1>2 DEF Leaving, Moves

\* the first protected call of a thread is over
LEMMA BlockLeft ==
  ASSUME NEW m, IsM(m), Calm(m.th, m.cs), NEW h, NEW p, NEW t, NEW m1,
         ProtLast(m, h, p, t, m1), First(m.cs, h), ~Resumes(p), p.depth = 0,
         Len(m.th[t].tbclist) <= p.level
  PROVE  Calm(m1.th, m1.cs) /\ t \notin ChainOf(m1.cs) /\ t \in Threads
<1>1. /\ h \in 1 .. Len(m.cs) /\ m.cs[h] = p /\ p.k = "prot" /\ Core(m.th, m.cs)
      /\ t = p.t /\ m1.th[t].tbclist = m.th[t].tbclist /\ m.cs \in Seq(Activation)
  BY MachineParts DEF ProtLast, ProtOver
<1>2. p.level = 0
  BY <1>1, FirstLevel DEF Calm
<1>3. t \in Threads /\ IsTh(m.th)
  BY <1>1, ActivationsFields, MachineParts
<1>4. Len(m.th[t].tbclist) \in Nat
  BY <1>3, ThreadFields DEF IsTh
<1>5. Len(m1.th[t].tbclist) = 0
  BY <1>1, <1>2, <1>4
<1>6. Leaving(m.th, m.cs, h, t, m1) /\ m1.th[t].status = "OK"
  BY LastLeaves
<1>7. Left(m1.th[t])
  BY <1>5, <1>6 DEF Left
<1> QED BY SMTT(20), <1>1, <1>6, <1>7, LeaveBlock

LEMMA PcallEndsCalm ==
  ASSUME NEW m, IsM(m), Calm(m.th, m.cs), NEW h, NEW p, NEW t, NEW m1,
         ProtLast(m, h, p, t, m1), IsPcall(p), Len(m.th[t].tbclist) <= p.level
  PROVE  Inv2M(EndPcall(m1, p))
<1> DEFINE m2 == EndPcall(m1, p)
           C  == m.cs
<1>1. /\ ProtOver(m.th, C, h, t, m1) /\ C[h] = p
      /\ m1.th[t].tbclist = m.th[t].tbclist
  BY SMTT(20) DEF ProtLast
<1>2. /\ Core(m.th, C) /\ h \in 1 .. Len(C) /\ t = p.t /\ p.k = "prot" /\ ~Resumes(p)
      /\ m.th[t].status = "OK" /\ Len(m.th[t].ci) = p.depth /\ IsM(m1)
      /\ Len(m1.cs) = h - 1 /\ \A i \in 1 .. h - 1 : m1.cs[i] = C[i]
      /\ m1.th[t].ci = m.th[t].ci /\ m1.th[t].status = m.th[t].status
      /\ Others(m.th, m1.th, t) /\ \A j \in h + 1 .. Len(C) : C[j].t = t
  <2>1. ~Resumes(p)
    BY DEF IsPcall, Resumes
  <2> QED BY <1>1, <2>1 DEF ProtOver
<1>3. /\ C \in Seq(Activation) /\ Len(C) \in Nat /\ h \in Nat /\ t \in Threads
      /\ p \in Activation /\ m.th[t].ci \in Seq(CallInfo) /\ IsTh(m.th)
  BY <1>1, ProtTypes
<1>4. /\ OnlyCI(In(m1, "run"), m2, t)
      /\ m2.th[t].ci = IF Len(m1.th[t].ci) = 0 THEN m1.th[t].ci ELSE Front(m1.th[t].ci)
  BY <1>2, <1>3, EndPcallFacts
<1>5. InvM(m2)
  BY <1>1, PcallEnds
<1> HIDE DEF m2
<1>6. /\ IsM(m2) /\ m2.cs = m1.cs /\ m2.mode = "run" /\ Others(m.th, m2.th, t)
      /\ m2.th[t].status = "OK" /\ m2.th[t].tbclist = m.th[t].tbclist
  <2>1. In(m1, "run").th = m1.th /\ In(m1, "run").cs = m1.cs /\ In(m1, "run").mode = "run"
    BY <1>2, InFacts
  <2> QED BY <1>1, <1>2, <1>4, <2>1 DEF OnlyCI, Others
<1>7. IsTh(m2.th) /\ Moves(m.th, m2.th, t)
  BY <1>6, MachineParts DEF Moves
<1>8. \/ m2.th[t].ci = m.th[t].ci
      \/ Len(m.th[t].ci) > 0 /\ m2.th[t].ci = Front(m.th[t].ci)
  <2>1. Len(m.th[t].ci) \in Nat
    BY <1>3
  <2> QED BY <1>2, <1>4, <2>1
<1>9. Calm(m2.th, m2.cs)
  <2>1. CASE First(C, h)
    <3>1. Len(m.th[t].ci) = 0
      BY <1>1, <2>1, ProtBelow
    <3>2. p.depth = 0
      BY <1>2, <3>1
    <3>3. p.level = 0
      BY <1>1, <1>2, <3>2, FirstLevel DEF Calm
    <3>4. Len(m2.th[t].tbclist) = 0
      <4>1. Len(m.th[t].tbclist) \in Nat
        BY <1>3, ThreadFields DEF IsTh
      <4> QED BY <1>6, <3>3, <4>1
    <3>5. Left(m2.th[t])
      BY <1>6, <3>4 DEF Left
    <3>6. m2.th[t].ci = m.th[t].ci
      BY <1>2, <1>4, <3>1
    <3>7. Leaving(m.th, C, h, t, m2)
      BY <1>1, <1>2, <1>6, <1>7, <2>1, <3>6 DEF Leaving
    <3> QED BY <1>2, <3>5, <3>7, LeaveBlock
  <2>2. CASE ~First(C, h)
    <3> DEFINE b == C[h - 1]
    <3>1. h > 1 /\ b.t = t
      BY <1>1, <2>2, ProtBelow
    <3>2. Len(m2.cs) = h - 1 /\ h - 1 \in 1 .. h - 1 /\ m2.cs[h - 1] = b
      BY <1>2, <1>3, <1>6, <3>1
    <3>3. TopIs(m2, t, b, Len(m2.th[t].ci))
      <4> HIDE DEF b
      <4>1. Len(m2.cs) > 0
        BY <1>3, <3>1, <3>2
      <4> QED BY <3>1, <3>2, <4>1 DEF TopIs
    <3>4. PrefixOf(m2.cs, C) /\ \A i \in Len(m2.cs) + 1 .. Len(C) : C[i].t = t
      <4>1. m2.cs \in Seq(Activation)
        BY <1>6, MachineParts
      <4>2. \A i \in h .. Len(C) : i = h \/ i \in h + 1 .. Len(C)
        BY <1>3
      <4>3. \A i \in h .. Len(C) : C[i].t = t
        BY <1>1, <1>2, <4>2
      <4>4. Len(m2.cs) + 1 = h /\ Len(m2.cs) <= Len(C)
        BY <1>2, <1>3, <3>2
      <4> QED BY <1>2, <1>6, <3>2, <4>1, <4>3, <4>4 DEF PrefixOf
    <3>5. Cuts(m.th, m2.th, t) /\ SameUpTo(m.th[t].ci, m2.th[t].ci, Len(m2.th[t].ci))
      BY <1>2, <1>3, <1>6, <1>7, <1>8, FrontCuts
    <3> HIDE DEF b
    <3> QED BY <1>2, <1>3, <1>5, <1>6, <3>3, <3>4, <3>5, StepCalm
  <2> QED BY <2>1, <2>2
<1>10. Inv2M(m2)
  BY <1>6, <1>9, NoReturn DEF Inv2M
<1> QED BY <1>10 DEF m2

LEMMA ResetEndsCalm ==
  ASSUME NEW m, IsM(m), Calm(m.th, m.cs), NEW h, NEW p, NEW t, NEW m1,
         ProtLast(m, h, p, t, m1), First(m.cs, h), h > 1, ~Resumes(p),
         Len(m.th[t].tbclist) <= p.level
  PROVE  Inv2M(EndReset(m1, p))
<1> DEFINE C == m.cs
           u == C[h - 1].t
<1>1. /\ ProtOver(m.th, C, h, t, m1) /\ C[h] = p /\ Core(m1.th, m1.cs)
  BY DEF ProtLast
<1>2. /\ Core(m.th, C) /\ h \in 1 .. Len(C) /\ t = p.t /\ IsM(m1)
      /\ Len(m1.cs) = h - 1 /\ \A i \in 1 .. h - 1 : m1.cs[i] = C[i] /\ Others(m.th, m1.th, t)
      /\ Good(m.th, C, h)
  BY ZenonT(40), <1>1, ProtTypes DEF ProtOver
<1>3. p.depth = 0
  <2>1. BlockStarts(m.th, C, h)
    BY <1>2 DEF Good
  <2> QED BY <1>1, <2>1 DEF BlockStarts, Resumes
<1>4. Calm(m1.th, m1.cs)
  BY <1>3, BlockLeft
<1>5. Without(m.th, C, h, m1)
  BY <1>1, <1>2 DEF Without
<1>6. InvM(EndReset(m1, p))
  BY <1>1, <1>2, ResetEnds
<1> HIDE DEF C
<1>7. u = C[h - 1].t
  OBVIOUS
<1> HIDE DEF u
<1>8. /\ Last(m1.cs).t = u
      /\ InvM(In(PopCI(m1, u), "run")) => Inv2M(In(PopCI(m1, u), "run"))
  BY <1>4, <1>5, <1>7, CallerReturns
<1>9. CASE p.then = "wrap"
  <2>1. EndReset(m1, p) = In(m1, "ERR")
    BY <1>9 DEF EndReset
  <2> QED BY <1>2, <1>4, <2>1, Mode2
<1>10. CASE p.then # "wrap"
  <2>1. EndReset(m1, p) = In(PopCI(m1, u), "run")
    BY <1>8, <1>10 DEF EndReset
  <2> QED BY <1>6, <1>8, <2>1
<1> QED BY <1>9, <1>10

LEMMA ProtReturnedCalm ==
  ASSUME NEW m, IsM(m), InvM(m), m.mode = "return", Inv2M(m), NEW t, NEW b, NEW n,
         TopIs(m, t, b, n), b.k = "prot"
  PROVE  Inv2M(IF b.use = "resume" THEN Resumed(PopC(Restore(m, b)), b.t, "OK")
                                   ELSE EndPcall(PopC(Restore(m, b)), b))
<1> DEFINE h  == Len(m.cs)
           m2 == PopC(Restore(m, b))
           x  == Len(m.th[t].tbclist)
<1>1. /\ ProtLast(m, h, b, t, m2)
      /\ b.use = "resume" \/ IsPcall(b)
  BY ProtReady
<1>2. Calm(m.th, m.cs) /\ OnReturn(m.th[t].ci, b, m.cs[Len(m.cs) - 1], x)
  BY DEF Inv2M, Inv2, Returns, TopIs
<1>3. x <= BaseLevel(b)
  <2> HIDE DEF x
  <2> QED BY <1>2 DEF OnReturn
<1> HIDE DEF h, m2
<1>4. /\ ProtOver(m.th, m.cs, h, t, m2) /\ m.cs[h] = b /\ Core(m2.th, m2.cs)
      /\ m2.th[t].tbclist = m.th[t].tbclist
  BY <1>1 DEF ProtLast
<1>5. CASE b.use = "resume"
  <2>1. Resumes(m.cs[h]) /\ b.t = m.cs[h].t /\ t = b.t /\ Resumes(b)
    BY Zenon, <1>4, <1>5 DEF Resumes, ProtOver
  <2>2. m.cs \in Seq(Activation) /\ Stack(m.th, m.cs) /\ h \in 1 .. Len(m.cs)
    BY Zenon, <1>4, ProtTypes DEF ProtOver
  <2>3. First(m.cs, h)
    BY <2>1, <2>2, ResumeFirst
  <2>4. Without(m.th, m.cs, h, m2)
    BY <1>4, <2>1, <2>3 DEF Without, ProtOver
  <2>5. Leaving(m.th, m.cs, h, t, m2) /\ m2.th[t].status = "OK"
    BY <1>1, <1>2, <2>3, LastLeaves
  <2>6. Left(m2.th[t])
    <3>1. x \in Nat
      <4>1. IsTh(m.th) /\ t \in Threads
        BY <1>4, ProtTypes
      <4> QED BY <4>1, ThreadFields DEF IsTh
    <3>2. x = 0
      <4> HIDE DEF x
      <4> QED BY <1>3, <2>1, <3>1 DEF BaseLevel
    <3> QED BY <1>4, <2>5, <3>2 DEF Left
  <2>7. Calm(m2.th, m2.cs) /\ t \notin ChainOf(m2.cs)
    <3>1. Core(m.th, m.cs)
      BY <1>4 DEF ProtOver
    <3> QED BY SMTT(20), <1>2, <2>5, <2>6, <3>1, LeaveBlock
  <2>8. Inv2M(Resumed(m2, t, "OK"))
    BY <2>1, <2>4, <2>7, ResumedCalm
  <2> QED BY <1>5, <2>1, <2>8 DEF m2
<1>6. CASE b.use # "resume"
  <2>1. x <= b.level
    <3> HIDE DEF x
    <3> QED BY <1>3, <1>6 DEF BaseLevel, Resumes
  <2>2. Inv2M(EndPcall(m2, b))
    BY <1>1, <1>2, <1>6, <2>1, PcallEndsCalm
  <2> QED BY <1>6, <2>2 DEF m2
<1> QED BY <1>5, <1>6

LEMMA CloseProtectedCalm ==
  ASSUME NEW m, IsM(m), InvM(m), m.mode = "run", Calm(m.th, m.cs), NEW t, NEW b, NEW n,
         TopIs(m, t, b, n), b.k = "close", NEW p, p = m.cs[Len(m.cs) - 1], p.k = "prot",
         Len(m.th[t].tbclist) <= b.level
  PROVE  Inv2M(IF p.then = "pcall" THEN EndPcall(PopC(Restore(PopC(m), p)), p)
                                   ELSE EndReset(PopC(Restore(PopC(m), p)), p))
<1> DEFINE h  == Len(m.cs) - 1
           m2 == PopC(Restore(PopC(m), p))
<1>1. ProtLast(m, h, p, t, m2) /\ ProtCloses(m, p)
  BY CloseReadyProt
<1>2. b.level = p.level
  <2>1. Good(m.th, m.cs, Len(m.cs)) /\ Core(m.th, m.cs)
    BY TopReady
  <2>2. b = m.cs[Len(m.cs)] /\ b.t = t
    BY TopFacts DEF TopIs
  <2>3. ~First(m.cs, Len(m.cs))
    BY <2>1, <2>2, Zenon DEF Good, BlockStarts
  <2>4. Linked(m.th[t].ci, b, p)
    BY <2>1, <2>3, BelowFacts
  <2>5. ~b.yy
    BY <2>4 DEF Linked, LinkedClose, Runs
  <2>6. ActLevel(m.th[t].ci, b, p)
    BY TopLevels
  <2> QED BY <2>5, <2>6 DEF ActLevel, CloseLevel
<1>3. Len(m.th[t].tbclist) <= p.level
  BY <1>2
<1>4. p.then = "pcall" => IsPcall(p)
  BY <1>1 DEF ProtCloses
<1>5. p.then # "pcall" => First(m.cs, h) /\ h > 1 /\ ~Resumes(p)
  BY <1>1 DEF ProtCloses
<1> HIDE DEF h, m2
<1>6. CASE p.then = "pcall"
  <2>1. Inv2M(EndPcall(m2, p))
    BY <1>1, <1>3, <1>4, <1>6, PcallEndsCalm
  <2> QED BY <1>6, <2>1 DEF m2
<1>7. CASE p.then # "pcall"
  <2>1. Inv2M(EndReset(m2, p))
    BY SMTT(20), <1>1, <1>3, <1>5, <1>7, ResetEndsCalm
  <2> QED BY <1>7, <2>1 DEF m2
<1> QED BY <1>6, <1>7

-----------------------------------------------------------------------------
(* Throws *)

\* what the thread u was before the throw that C[h] catches, and m1 after it
CaughtTo(T, C, h, u, m1) ==
  /\ h \in 1 .. Len(C) /\ u = C[h].t /\ \A j \in h + 1 .. Len(C) : C[j].t = u
  /\ IsM(m1) /\ Len(m1.cs) = h - 1 /\ \A i \in 1 .. h - 1 : m1.cs[i] = C[i]
  /\ Moves(T, m1.th, u) /\ m1.th[u].ci = T[u].ci
  /\ m1.th[u].body = T[u].body /\ m1.th[u].errfunc = T[u].errfunc

LEMMA CaughtToIt ==
  ASSUME NEW m, IsM(m), NEW h, NEW u, Throws(m.th, m.cs, h, u), NEW m1,
         m1 = CaughtAt(m, h, m.cs[h])
  PROVE  CaughtTo(m.th, m.cs, h, u, m1) /\ m1.th[u].status = m.th[u].status /\ u \in Threads
<1> DEFINE p == m.cs[h]
<1>1. /\ h \in 1 .. Len(m.cs) /\ u = p.t /\ u = m.cs[Len(m.cs)].t
      /\ \A j \in h + 1 .. Len(m.cs) : m.cs[j].t = m.cs[Len(m.cs)].t
  BY DEF Throws
<1>2. p \in Activation /\ u \in Threads
  BY ThrowTypes
<1> HIDE DEF p
<1>3. IsCaught(m, CaughtAt(m, h, p), h, p, u)
  BY <1>1, <1>2, CaughtFacts
<1>4. m1 = CaughtAt(m, h, p)
  BY DEF p
<1>5. Restored(m, m1, p, u) /\ Len(m1.cs) = h - 1 /\ \A i \in 1 .. h - 1 : m1.cs[i] = m.cs[i]
  BY <1>3, <1>4 DEF IsCaught
<1>6. IsTh(m1.th)
  BY <1>5, MachineParts DEF Restored
<1>7. /\ Moves(m.th, m1.th, u) /\ m1.th[u].ci = m.th[u].ci /\ IsM(m1)
      /\ m1.th[u].body = m.th[u].body /\ m1.th[u].errfunc = m.th[u].errfunc
      /\ m1.th[u].status = m.th[u].status
  BY <1>5, <1>6 DEF Restored, Moves
<1>8. u = m.cs[h].t /\ \A j \in h + 1 .. Len(m.cs) : m.cs[j].t = u
  BY <1>1 DEF p
<1> QED BY <1>1, <1>2, <1>5, <1>7, <1>8 DEF CaughtTo

LEMMA ResumedLevel ==
  ASSUME NEW T, NEW C, ActLevels(T, C), NEW h \in 1 .. Len(C), Resumes(C[h]), NEW u, u = C[h].t,
         Len(T[u].ci) > 0
  PROVE  T[u].ci[1].level = 0
<1>1. ActLevel(T[C[h].t].ci, C[h], C[h - 1])
  BY DEF ActLevels
<1> QED BY <1>1 DEF ActLevel, ProtLevel, Resumes

\* a throw leaves a coroutine that was s with the status s2
LeavesAs(s, s2) == (s = "OK" /\ s2 = "ERR") \/ (s = "YIELD" /\ s2 = "YIELD")

LEMMA CoroutineLeftCalm ==
  ASSUME NEW T, NEW C, NEW h, NEW u, Throws(T, C, h, u), Resumes(C[h]), Calm(T, C),
         NEW m2, CaughtTo(T, C, h, u, m2), NEW status, m2.th[u].status = status,
         LeavesAs(T[u].status, status)
  PROVE  Inv2M(Resumed(m2, u, status))
<1>1. /\ Core(T, C) /\ h \in 1 .. Len(C) /\ u = C[h].t /\ C[h].k = "prot"
  BY DEF Throws
<1>2. C \in Seq(Activation) /\ Stack(T, C) /\ StatusOf(T, C, u)
  BY ThrowTypes
<1>3. First(C, h)
  BY <1>1, <1>2, ResumeFirst
<1>4. /\ IsM(m2) /\ Len(m2.cs) = h - 1 /\ \A i \in 1 .. h - 1 : m2.cs[i] = C[i]
      /\ IsTh(m2.th) /\ Others(T, m2.th, u) /\ m2.th[u].ci = T[u].ci
      /\ m2.th[u].body = T[u].body /\ m2.th[u].errfunc = T[u].errfunc
  BY DEF CaughtTo, Moves
<1>5. m2.cs \in Seq(Activation)
  BY <1>4, MachineParts
<1>6. Core(m2.th, m2.cs)
  BY <1>4, <1>5, CoroutineLeft DEF LeavesAs
<1>7. Leaving(T, C, h, u, m2)
  BY <1>3 DEF Leaving, CaughtTo, LeavesAs
<1>8. Left(m2.th[u])
  <2>1. CASE status = "ERR"
    BY <2>1 DEF Left
  <2>2. CASE status = "YIELD"
    <3>1. Len(T[u].ci) > 0
      BY <1>2, <2>2 DEF StatusOf, Suspended, LeavesAs
    <3>2. ActLevels(T, C)
      BY DEF Calm
    <3>3. T[u].ci[1].level = 0
      BY <1>1, <3>1, <3>2, ResumedLevel
    <3> QED BY <1>4, <2>2, <3>3 DEF Left
  <2> QED BY <2>1, <2>2 DEF LeavesAs
<1>9. Calm(m2.th, m2.cs) /\ u \notin ChainOf(m2.cs)
  BY <1>1, <1>7, <1>8, LeaveBlock
<1>10. Without(T, C, h, m2)
  BY <1>1, <1>3, <1>4, <1>6 DEF Without
<1> QED BY <1>1, <1>9, <1>10, ResumedCalm

LEMMA YieldCaughtCalm ==
  ASSUME NEW m, IsM(m), Calm(m.th, m.cs), NEW h, NEW u, Throws(m.th, m.cs, h, u),
         Resumes(m.cs[h]), m.th[u].status = "YIELD"
  PROVE  Inv2M(Resumed(CaughtAt(m, h, m.cs[h]), u, "YIELD"))
<1> DEFINE m1 == CaughtAt(m, h, m.cs[h])
<1>1. CaughtTo(m.th, m.cs, h, u, m1) /\ m1.th[u].status = m.th[u].status
  BY CaughtToIt
<1> HIDE DEF m1
<1>2. LeavesAs(m.th[u].status, "YIELD")
  BY DEF LeavesAs
<1>3. Inv2M(Resumed(m1, u, "YIELD"))
  BY <1>1, <1>2, CoroutineLeftCalm
<1> QED BY <1>3 DEF m1

LEMMA ErrorKillsCalm ==
  ASSUME NEW m, IsM(m), Calm(m.th, m.cs), NEW h, NEW u, Throws(m.th, m.cs, h, u),
         Resumes(m.cs[h]), m.th[u].status = "OK"
  PROVE  Inv2M(Resumed(SetStatus(CaughtAt(m, h, m.cs[h]), u, "ERR"), u, "ERR"))
<1> DEFINE m1 == CaughtAt(m, h, m.cs[h])
           m2 == SetStatus(m1, u, "ERR")
<1>1. CaughtTo(m.th, m.cs, h, u, m1) /\ u \in Threads
  BY CaughtToIt
<1> HIDE DEF m1
<1>2. IsM(m1)
  BY <1>1 DEF CaughtTo
<1>3. /\ IsM(m2) /\ m2.cs = m1.cs /\ Others(m1.th, m2.th, u) /\ m2.th[u].status = "ERR"
      /\ m2.th[u].body = m1.th[u].body /\ m2.th[u].ci = m1.th[u].ci
      /\ m2.th[u].errfunc = m1.th[u].errfunc /\ m2.th[u].tbclist = m1.th[u].tbclist
  BY <1>1, <1>2, SetStatusFacts
<1> HIDE DEF m2
<1>4. IsTh(m2.th)
  BY SMTT(20), <1>3, MachineParts
<1>5. Moves(m.th, m2.th, u)
  BY SMTT(20), <1>1, <1>3, <1>4 DEF CaughtTo, Moves, Others
<1>6. CaughtTo(m.th, m.cs, h, u, m2)
  BY <1>1, <1>3, <1>5 DEF CaughtTo
<1>7. LeavesAs(m.th[u].status, "ERR")
  BY DEF LeavesAs
<1>8. Inv2M(Resumed(m2, u, "ERR"))
  BY <1>3, <1>6, <1>7, CoroutineLeftCalm
<1> QED BY <1>8 DEF m2, m1

Marks(ci, ci2, i) ==
  /\ ci2 \in Seq(CallInfo) /\ Len(ci2) = i /\ LeftOf(ci, ci2) /\ SameUpTo(ci, ci2, i - 1)
  /\ ci2[i].recst = "ERR" /\ i \in 1 .. Len(ci) /\ i \in Nat

LEMMA MarkErrRest ==
  ASSUME NEW s \in LuaState, NEW i \in 1 .. Len(s.ci)
  PROVE  MarkErr(s, i).tbclist = s.tbclist /\ Marks(s.ci, MarkErr(s, i).ci, i)
<1> DEFINE ci == s.ci
           c1 == SubSeq(ci, 1, i)
           c2 == [c1 EXCEPT ![i] = [c1[i] EXCEPT !.recst = "ERR"]]
           n  == Len(ci)
<1>1. ci \in Seq(CallInfo) /\ n \in Nat /\ i \in 1 .. n
  BY DEF LuaState
<1> HIDE DEF n
<1>2. i \in 0 .. n /\ i \in Nat /\ i \in 1 .. i /\ i <= n /\ i - 1 \in Nat /\ i - 1 <= n
  BY <1>1
<1>3. c1 \in Seq(CallInfo) /\ Len(c1) = i /\ \A j \in 1 .. i : c1[j] = ci[j]
  <2> HIDE DEF ci
  <2> QED BY <1>1, <1>2, PrefixFacts DEF n
<1> HIDE DEF c1
<1>4. c1[i] \in CallInfo
  BY <1>2, <1>3
<1> DEFINE f == c1[i]
           g == [f EXCEPT !.recst = "ERR"]
<1>5. /\ g \in CallInfo /\ g.func = f.func /\ g.of = f.of /\ g.level = f.level
      /\ g.ypcall = f.ypcall /\ g.op = f.op /\ g.upto = f.upto /\ g.recst = "ERR"
  <2> HIDE DEF f
  <2>1. f \in CallInfo
    BY <1>4 DEF f
  <2> QED BY <2>1 DEF CallInfo
<1>6. c2 \in Seq(CallInfo) /\ Len(c2) = i /\ \A j \in 1 .. i : c2[j] = IF j = i THEN g ELSE ci[j]
  <2>1. c2 = [c1 EXCEPT ![i] = g]
    OBVIOUS
  <2> HIDE DEF g, ci
  <2> QED BY <1>2, <1>3, <1>5, <2>1
<1>7. ci[i] = f
  BY <1>2, <1>3
<1> HIDE DEF c2, g, f, ci
<1>8. LeftOf(ci, c2)
  <2>1. Len(c2) <= Len(ci)
    BY <1>2, <1>6 DEF n
  <2>2. \A j \in 1 .. Len(c2) :
          /\ c2[j].func = ci[j].func /\ c2[j].of = ci[j].of /\ c2[j].level = ci[j].level
          /\ c2[j].ypcall = ci[j].ypcall /\ c2[j].op = ci[j].op /\ c2[j].upto = ci[j].upto
          /\ j < Len(c2) => c2[j].recst = ci[j].recst
    <3> SUFFICES ASSUME NEW j \in 1 .. i
        PROVE /\ c2[j].func = ci[j].func /\ c2[j].of = ci[j].of /\ c2[j].level = ci[j].level
              /\ c2[j].ypcall = ci[j].ypcall /\ c2[j].op = ci[j].op /\ c2[j].upto = ci[j].upto
              /\ j < i => c2[j].recst = ci[j].recst
      BY <1>6
    <3>1. CASE j = i
      <4>1. c2[j] = g /\ ci[j] = f /\ ~(j < i)
        BY <1>2, <1>6, <1>7, <3>1
      <4> QED BY <1>5, <4>1
    <3>2. CASE j # i
      BY <1>6, <3>2
    <3> QED BY <3>1, <3>2
  <2> QED BY <2>1, <2>2 DEF LeftOf
<1>9. SameUpTo(ci, c2, i - 1)
  <2>1. \A j \in 1 .. i - 1 : j \in 1 .. i /\ j # i
    BY <1>2
  <2>2. \A j \in 1 .. i - 1 : Same(ci[j], c2[j])
    BY <1>6, <2>1 DEF Same
  <2>3. i - 1 <= Len(ci) /\ i - 1 <= Len(c2)
    BY <1>2, <1>6 DEF n
  <2> QED BY <1>2, <2>2, <2>3 DEF SameUpTo
<1>10. c2[i].recst = "ERR"
  BY <1>2, <1>5, <1>6
<1>11. MarkErr(s, i) = WithCI(s, c2)
  BY DEF MarkErr, WithCI, c2, c1, ci, g, f
<1>12. WithCI(s, c2).ci = c2 /\ WithCI(s, c2).tbclist = s.tbclist
  BY DEF WithCI, LuaState
<1>13. Marks(ci, c2, i)
  BY <1>1, <1>2, <1>6, <1>8, <1>9, <1>10 DEF Marks, n
<1> QED BY <1>11, <1>12, <1>13 DEF ci

Above(C, C2, u) == PrefixOf(C2, C) /\ \A i \in Len(C2) + 1 .. Len(C) : C[i].t = u
KeptTo(ci, ci2, C2, u, d) == SameUpTo(ci, ci2, d) /\ ReachAll(C2, u, d, ci2)

LEMMA CutInside ==
  ASSUME NEW T, NEW C, Core(T, C), Calm(T, C), NEW T2, NEW C2, NEW u \in Threads,
         Cuts(T, T2, u), Above(C, C2, u), u \in ChainOf(C2), NEW d,
         KeptTo(T[u].ci, T2[u].ci, C2, u, d)
  PROVE  Calm(T2, C2)
<1>1. u \in ChainOf(C2) => SameUpTo(T[u].ci, T2[u].ci, d) /\ ReachAll(C2, u, d, T2[u].ci)
  BY DEF KeptTo
<1>2. PrefixOf(C2, C) /\ \A i \in Len(C2) + 1 .. Len(C) : C[i].t = u
  BY DEF Above
<1> QED BY <1>1, <1>2, CutCalm

\* precover: the CallInfos above the protected call are gone
LEMMA MarkedCalm ==
  ASSUME NEW T, NEW C, NEW h, NEW u, Throws(T, C, h, u), Resumes(C[h]), Calm(T, C),
         T[u].status = "OK", NEW T2, Moves(T, T2, u), NEW C2 \in Seq(Activation), Len(C2) = h,
         \A j \in 1 .. h : C2[j] = C[j], NEW i, Marks(T[u].ci, T2[u].ci, i)
  PROVE  Calm(T2, C2)
<1> DEFINE ci  == T[u].ci
           ci2 == T2[u].ci
           b   == C[h]
<1>1. /\ Core(T, C) /\ h \in 1 .. Len(C) /\ u = C[h].t
      /\ \A j \in h + 1 .. Len(C) : C[j].t = u
  BY DEF Throws
<1>2. C \in Seq(Activation) /\ u \in Threads /\ IsTh(T) /\ Len(C) \in Nat /\ h \in Nat
  BY ThrowTypes
<1>3. ActLevels(T, C)
  BY DEF Calm
<1>4. /\ ci2 \in Seq(CallInfo) /\ Len(ci2) = i /\ LeftOf(ci, ci2) /\ SameUpTo(ci, ci2, i - 1)
      /\ i \in 1 .. Len(ci) /\ i \in Nat
  BY DEF Marks
<1>5. Len(ci) \in Nat
  BY <1>2, ThreadFields DEF IsTh
<1>6. ci2[1].level = 0 /\ i - 1 \in Nat
  <2>1. Len(ci) > 0 /\ i > 0
    <3> DEFINE x == Len(ci)
    <3>1. x \in Nat /\ i \in 1 .. x
      BY <1>4, <1>5
    <3> HIDE DEF x
    <3>2. x > 0 /\ i > 0
      BY <3>1
    <3> QED BY <3>2 DEF x
  <2>2. ci[1].level = 0
    BY <1>1, <1>3, <2>1, ResumedLevel
  <2>3. 1 \in 1 .. i
    BY <1>4, <2>1
  <2> HIDE DEF ci, ci2
  <2> QED BY <1>4, <2>1, <2>2, <2>3 DEF LeftOf
<1>7. PrefixOf(C2, C) /\ \A j \in Len(C2) + 1 .. Len(C) : C[j].t = u
  BY <1>1, <1>2 DEF PrefixOf
<1>8. C2[Len(C2)] = b /\ Len(C2) > 0
  <2>1. h \in 1 .. h /\ h > 0
    BY <1>1, <1>2
  <2> QED BY <2>1
<1>9. Cuts(T, T2, u)
  <2>1. T[u].status # "YIELD"
    OBVIOUS
  <2> QED BY <1>4, <2>1 DEF Cuts
<1>10. u \in ChainOf(C2)
  BY <1>1, <1>2 DEF ChainOf
<1>11. ReachAll(C2, u, i - 1, ci2)
  <2>1. Reach(b, i - 1, ci2)
    BY <1>6 DEF Reach
  <2> DEFINE d == i - 1
  <2>2. d \in Nat /\ Reach(b, d, ci2) /\ ci2[1].level = 0 /\ u = b.t /\ b = C2[Len(C2)]
    BY <1>1, <1>6, <1>8, <2>1
  <2> HIDE DEF d, ci2, b
  <2>3. ReachAll(C2, u, d, ci2)
    BY <1>1, <1>7, <1>8, <2>2, ReachBelow
  <2> QED BY <2>3 DEF d
<1> DEFINE d == i - 1
<1>12. KeptTo(T[u].ci, T2[u].ci, C2, u, d)
  BY <1>4, <1>11 DEF KeptTo
<1>13. Above(C, C2, u)
  BY <1>7 DEF Above
<1> HIDE DEF d
<1> QED BY <1>1, <1>2, <1>9, <1>10, <1>12, <1>13, CutInside

LEMMA ErrorRecoveredCalm ==
  ASSUME NEW m, IsM(m), Calm(m.th, m.cs), NEW h, NEW u, Throws(m.th, m.cs, h, u),
         Resumes(m.cs[h]), m.th[u].status = "OK", NEW i, i = FindPcall(m.th[u].ci), i # 0
  PROVE  Inv2M(Recovered(m, h, u, i))
<1> DEFINE m1 == CaughtAt(m, h, m.cs[h])
<1>0. CaughtTo(m.th, m.cs, h, u, m1) /\ m1.th[u].status = m.th[u].status /\ u \in Threads
  BY CaughtToIt
<1> HIDE DEF m1
<1> DEFINE T  == m.th
           C  == m.cs
           p  == C[h]
           s  == MarkErr(m1.th[u], i)
           m2 == SetT(m1, u, s)
           m3 == PushC(m2, p)
           m4 == PushC(m3, Blank(u))
           m5 == In(m4, "return")
<1>1. CaughtTo(T, C, h, u, m1) /\ m1.th[u].status = "OK" /\ u \in Threads
  BY <1>0
<1>2. /\ p \in Activation /\ T[u].ci \in Seq(CallInfo) /\ h \in Nat /\ C \in Seq(Activation)
      /\ Core(T, C)
  BY ThrowTypes DEF Throws
<1>3. /\ IsM(m1) /\ Moves(T, m1.th, u) /\ m1.th[u].ci = T[u].ci /\ h \in 1 .. Len(C)
      /\ Len(m1.cs) = h - 1 /\ \A j \in 1 .. h - 1 : m1.cs[j] = C[j]
  BY <1>1 DEF CaughtTo
<1>4. i \in 1 .. Len(T[u].ci)
  <2> DEFINE ci == T[u].ci
  <2>1. ci \in Seq(CallInfo) /\ i = FindPcall(ci)
    BY <1>2
  <2> HIDE DEF ci
  <2>2. i \in 1 .. Len(ci)
    BY <2>1, FindPcallFacts
  <2> QED BY <2>2 DEF ci
<1>5. /\ s \in LuaState /\ s.status = "OK" /\ s.tbclist = T[u].tbclist
      /\ Marks(T[u].ci, s.ci, i)
  <2> DEFINE s0 == m1.th[u]
  <2>1. s0 \in LuaState
    BY <1>1, <1>3, MachineParts, ThreadFields DEF IsTh
  <2>2. i \in 1 .. Len(s0.ci) /\ s0.status = "OK" /\ s0.ci = T[u].ci /\ s0.tbclist = T[u].tbclist
    BY <1>1, <1>3, <1>4 DEF Moves
  <2> HIDE DEF s0
  <2>3. MarkErr(s0, i) \in LuaState /\ MarkErr(s0, i).status = s0.status
    BY <2>1, <2>2, MarkErrFields
  <2>4. MarkErr(s0, i).tbclist = s0.tbclist /\ Marks(s0.ci, MarkErr(s0, i).ci, i)
    BY <2>1, <2>2, MarkErrRest
  <2> QED BY <2>2, <2>3, <2>4 DEF s0
<1> HIDE DEF s
<1>6. /\ IsM(m2) /\ m2.cs = m1.cs /\ m2.th[u] = s /\ Others(m1.th, m2.th, u)
  BY <1>1, <1>3, <1>5, SetTFacts
<1> HIDE DEF m2
<1>7. IsM(m3) /\ m3.th = m2.th /\ m3.cs = Append(m2.cs, p)
  BY <1>2, <1>6, PushCFacts
<1> HIDE DEF m3
<1>8. /\ Len(m3.cs) = h /\ \A j \in 1 .. h : m3.cs[j] = C[j]
  <2> DEFINE w == m2.cs
             g == h - 1
  <2>1. w \in Seq(Activation) /\ Len(w) = g /\ \A j \in 1 .. g : w[j] = C[j]
    BY <1>3, <1>6, MachineParts
  <2>2. g \in Nat /\ g + 1 = h
    BY <1>2, <1>3
  <2>3. m3.cs = Append(w, p)
    BY <1>7
  <2> HIDE DEF w, g, p
  <2>4. Len(Append(w, p)) = g + 1 /\ Append(w, p)[g + 1] = p /\ \A j \in 1 .. g : Append(w, p)[j] = w[j]
    BY <1>2, <2>1
  <2>5. \A j \in 1 .. h : j = g + 1 \/ j \in 1 .. g
    BY <2>2
  <2>6. C[g + 1] = p
    BY <2>2 DEF p
  <2> QED BY <2>1, <2>2, <2>3, <2>4, <2>5, <2>6
<1>9. IsTh(m3.th) /\ m3.cs \in Seq(Activation)
  BY <1>7, MachineParts
<1>10. Moves(T, m3.th, u) /\ m3.th[u] = s
  BY <1>3, <1>5, <1>6, <1>7, <1>9 DEF Others, Moves
<1>11. Calm(m3.th, m3.cs)
  <2>1. /\ Throws(T, C, h, u) /\ Resumes(C[h]) /\ Calm(T, C) /\ T[u].status = "OK"
        /\ Marks(T[u].ci, m3.th[u].ci, i)
    BY <1>5, <1>10
  <2> HIDE DEF T, C
  <2> QED BY <1>8, <1>9, <1>10, <2>1, MarkedCalm
<1>12. m3.cs[Len(m3.cs)] = p /\ Len(m3.cs) > 0 /\ m3.cs[1].k = "prot"
  <2>1. h \in 1 .. h /\ h > 0 /\ 1 \in 1 .. h /\ Len(C) > 0
    BY <1>2, <1>3
  <2>2. C[1].k = "prot"
    BY <1>2, <2>1, FirstProt
  <2> QED BY <1>8, <2>1, <2>2
<1>13. Blank(u) \in Activation /\ Blank(u).t = u /\ Blank(u).k = "unroll"
  BY <1>1, BlankFields
<1>14. IsM(m4) /\ m4.th = m3.th /\ m4.cs = Append(m3.cs, Blank(u))
  BY <1>7, <1>13, PushCFacts
<1> HIDE DEF m4
<1>15. Calm(m4.th, m4.cs)
  <2> DEFINE a  == Blank(u)
             C3 == m3.cs
             b  == C3[Len(C3)]
             T3 == m3.th
  <2>1. ActLevel(T3[a.t].ci, a, b)
    BY <1>13 DEF ActLevel, CallLevel, ProtLevel, CloseLevel
  <2>2. /\ C3 \in Seq(Activation) /\ Calm(T3, C3) /\ a \in Activation
        /\ Len(C3) > 0 /\ C3[1].k = "prot"
    BY <1>9, <1>11, <1>12, <1>13
  <2>3. Len(C3) > 0 => b = C3[Len(C3)] /\ C3[1].k = "prot"
    BY <2>2
  <2>4. Len(C3) = 0 => a.k = "prot"
    BY <2>2
  <2> HIDE DEF a, b, T3, C3
  <2>5. Calm(T3, Append(C3, a))
    BY <2>1, <2>2, <2>3, <2>4, CalmPush
  <2> QED BY <1>14, <2>5 DEF a, T3, C3
<1>16. m5.th = m4.th /\ m5.cs = m4.cs
  BY <1>14, InFacts
<1> HIDE DEF m5
<1>17. TopIs(m5, u, Blank(u), i)
  <2> DEFINE w == m3.cs
             a == Blank(u)
  <2>1. w \in Seq(Activation) /\ a \in Activation /\ a.t = u
    BY <1>9, <1>13
  <2> HIDE DEF w, a
  <2>2. Len(Append(w, a)) > 0 /\ Append(w, a)[Len(Append(w, a))] = a
    BY <2>1
  <2>3. m5.cs = Append(w, a) /\ Len(m5.th[u].ci) = i
    BY <1>5, <1>10, <1>14, <1>16 DEF w, a, Marks
  <2>4. TopIs(m5, u, a, i)
    BY <2>1, <2>2, <2>3 DEF TopIs
  <2> QED BY <2>4 DEF a
<1>18. OnReturn(m5.th[u].ci, Blank(u), m5.cs[Len(m5.cs) - 1], Len(m5.th[u].tbclist))
  <2> DEFINE c2 == m5.th[u].ci
  <2>1. Len(c2) = i /\ c2[i].recst = "ERR"
    BY <1>5, <1>10, <1>14, <1>16 DEF Marks
  <2> HIDE DEF c2
  <2>2. \A b, x : OnReturn(c2, Blank(u), b, x)
    BY <1>13, <2>1 DEF OnReturn
  <2> QED BY <2>2 DEF c2
<1>19. Inv2M(m5)
  <2>1. Calm(m5.th, m5.cs)
    BY <1>15, <1>16
  <2> QED BY <1>17, <1>18, <2>1, ReturnsIs
<1> QED BY <1>19 DEF Recovered, m5, m4, m3, m2, m1, s, p

\* luaD_pcall, or luaD_closeprotected, has caught an error
LEMMA CaughtCalm ==
  ASSUME NEW T, NEW C, NEW h, NEW u, Throws(T, C, h, u), ~Resumes(C[h]), Calm(T, C),
         T[u].status = "OK", NEW T2, Moves(T, T2, u), NEW C2 \in Seq(Activation), Len(C2) = h,
         \A j \in 1 .. h : C2[j] = C[j],
         Len(T2[u].ci) = C[h].depth, C[h].depth <= Len(T[u].ci),
         \A j \in 1 .. C[h].depth : T2[u].ci[j] = T[u].ci[j]
  PROVE  Calm(T2, C2)
<1>1. /\ Core(T, C) /\ h \in 1 .. Len(C) /\ u = C[h].t
      /\ \A j \in h + 1 .. Len(C) : C[j].t = u
  BY DEF Throws
<1>2. C \in Seq(Activation) /\ u \in Threads /\ IsTh(T) /\ Len(C) \in Nat /\ h \in Nat
      /\ C[h].depth \in Nat
  BY ThrowTypes
<1>3. Cuts(T, T2, u) /\ SameUpTo(T[u].ci, T2[u].ci, Len(T2[u].ci))
  <2>1. Len(T2[u].ci) <= Len(T[u].ci) /\ \A j \in 1 .. Len(T2[u].ci) : T2[u].ci[j] = T[u].ci[j]
    OBVIOUS
  <2>2. T2[u].status = T[u].status \/ T[u].status # "YIELD"
    OBVIOUS
  <2> QED BY <1>2, <2>1, <2>2, PrefixCuts
<1>4. PrefixOf(C2, C) /\ \A j \in Len(C2) + 1 .. Len(C) : C[j].t = u
  BY <1>1, <1>2 DEF PrefixOf
<1>5. u \in ChainOf(C2)
  BY <1>1, <1>2 DEF ChainOf
<1>6. Stands(C2, u, Len(T2[u].ci))
  <2>1. C2[Len(C2)] = C[h]
    BY <1>1, <1>2
  <2> QED BY <1>1, <1>2, <2>1 DEF Stands
<1> QED BY <1>1, <1>2, <1>3, <1>4, <1>5, <1>6, LeaveCalm

Again(q, a) ==
  /\ q.k = "prot" /\ ~Resumes(q) /\ a.k = "prot" /\ ~Resumes(a)
  /\ a.t = q.t /\ a.depth = q.depth /\ a.level = q.level

\* ... and tries again
LEMMA AgainLevels ==
  ASSUME NEW T, NEW C, Core(T, C), Calm(T, C), Len(C) > 0, NEW C2 \in Seq(Activation),
         Len(C2) = Len(C), \A i \in 1 .. Len(C) - 1 : C2[i] = C[i],
         Again(C[Len(C)], C2[Len(C)])
  PROVE  Calm(T, C2)
<1> DEFINE N == Len(C)
           q == C[N]
           a == C2[N]
<1>1. C \in Seq(Activation) /\ N \in Nat /\ N \in 1 .. N /\ N > 0
  BY DEF Core, Types
<1>2. /\ a.k = "prot" /\ ~Resumes(a) /\ a.t = q.t /\ a.depth = q.depth /\ a.level = q.level
      /\ q.k = "prot" /\ ~Resumes(q)
  BY DEF Again
<1>3. \A i \in 1 .. N : ActLevel(T[C[i].t].ci, C[i], C[i - 1])
  BY DEF Calm, ActLevels
<1>4. \A i \in 1 .. N : i = N \/ i \in 1 .. N - 1
  BY <1>1
<1>5. \A i \in 1 .. N : C2[i].t = C[i].t
  BY <1>2, <1>4
<1>6. ChainOf(C2) = ChainOf(C)
  BY <1>5 DEF ChainOf
<1>7. C2[1].k = "prot"
  <2>1. C[1].k = "prot"
    BY FirstProt
  <2>2. 1 \in 1 .. N
    BY <1>1
  <2> QED BY <1>2, <1>4, <2>1, <2>2
<1>8. ActLevels(T, C2)
  <2> SUFFICES ASSUME NEW i \in 1 .. N
               PROVE  ActLevel(T[C2[i].t].ci, C2[i], C2[i - 1])
    BY DEF ActLevels
  <2>1. ActLevel(T[C[i].t].ci, C[i], C[i - 1])
    BY SMTT(20), <1>3
  <2>2. CASE i = N
    <3>1. ProtLevel(T[q.t].ci, q)
      BY <2>1, <2>2 DEF ActLevel
    <3>2. ProtLevel(T[a.t].ci, a)
      BY <1>2, <3>1 DEF ProtLevel
    <3> QED BY <1>2, <2>2, <3>2 DEF ActLevel, CallLevel, CloseLevel
  <2>3. CASE i # N /\ i = 1
    <3>1. C2[i] = C[i] /\ C2[i].k = "prot"
      BY <1>4, <1>7, <2>3
    <3>2. ProtLevel(T[C2[i].t].ci, C2[i])
      BY <2>1, <3>1 DEF ActLevel
    <3> QED BY <3>1, <3>2 DEF ActLevel, CallLevel, CloseLevel
  <2>4. CASE i # N /\ i # 1
    <3>1. i - 1 \in 1 .. N - 1
      BY <1>1, <2>4
    <3>2. C2[i] = C[i] /\ C2[i - 1] = C[i - 1]
      BY <1>4, <2>4, <3>1
    <3> QED BY <2>1, <3>2
  <2> QED BY <2>2, <2>3, <2>4
<1>9. Leftovers(T, C2)
  BY <1>6 DEF Calm, Leftovers
<1> QED BY <1>8, <1>9 DEF Calm

LEMMA ErrorCaughtCalm ==
  ASSUME NEW m, IsM(m), Calm(m.th, m.cs), NEW h, NEW u, Throws(m.th, m.cs, h, u),
         ~Resumes(m.cs[h]), m.th[u].status = "OK",
         OnTop(m.th[u].ci, m.cs[Len(m.cs)], Acts(m.cs, u), "ERR")
  PROVE  Inv2M(CloseProtected(ErrorAt(m, h, u), u, m.cs[h].level, "ERR", Caught2(m.cs[h]),
                              m.cs[h].errfunc))
<1> DEFINE m1 == CaughtAt(m, h, m.cs[h])
<1>0. CaughtTo(m.th, m.cs, h, u, m1) /\ m1.th[u].status = m.th[u].status /\ u \in Threads
  BY CaughtToIt
<1>c. /\ m.cs[h].depth \in 0 .. Len(m.th[u].ci)
      /\ m.cs[h].use = "pcall" \/ (m.cs[h].use = "closep" /\ m.cs[h].then \in {"pcall", "close", "wrap"})
  <2>1. m.cs[h].depth \in 0 .. Len(m.th[u].ci)
    BY CaughtError
  <2>2. m.cs[h].use = "pcall" \/ (m.cs[h].use = "closep" /\ m.cs[h].then \in {"pcall", "close", "wrap"})
    BY CaughtError
  <2> QED BY <2>1, <2>2
<1>d. IsCaught(m, m1, h, m.cs[h], u)
  <2>1. h \in 1 .. Len(m.cs) /\ m.cs[h] \in Activation /\ u = m.cs[h].t
    BY ZenonT(40), <1>0, ThrowTypes DEF CaughtTo, Throws
  <2> QED BY <2>1, CaughtFacts
<1> HIDE DEF m1
<1> DEFINE T  == m.th
           C  == m.cs
           p  == C[h]
           d  == p.depth
           c3 == SubSeq(m1.th[u].ci, 1, d)
           m3 == SetCI(m1, u, c3)
           a  == ProtectClose(m3, u, p.level, Caught2(p), p.errfunc)
           m4 == PushC(m3, a)
           CC == Append(m3.cs, p)
<1>1. /\ IsM(m1) /\ Moves(T, m1.th, u) /\ m1.th[u].ci = T[u].ci /\ h \in 1 .. Len(C)
      /\ u = p.t /\ Len(m1.cs) = h - 1 /\ \A j \in 1 .. h - 1 : m1.cs[j] = C[j]
      /\ m1.th[u].status = "OK"
  BY SMTT(20), <1>0 DEF CaughtTo
<1>2. /\ p \in Activation /\ T[u].ci \in Seq(CallInfo) /\ h \in Nat /\ C \in Seq(Activation)
      /\ Core(T, C) /\ d \in Nat /\ C[h].k = "prot"
  BY ThrowTypes DEF Throws
<1>3. d \in 0 .. Len(T[u].ci) /\ Len(T[u].ci) \in Nat
  BY <1>c, <1>2
<1>4. c3 \in Seq(CallInfo) /\ Len(c3) = d /\ \A j \in 1 .. d : c3[j] = T[u].ci[j]
  <2> DEFINE ci == T[u].ci
  <2>1. c3 = SubSeq(ci, 1, d) /\ ci \in Seq(CallInfo) /\ d \in 0 .. Len(ci)
    BY <1>1, <1>2, <1>3
  <2> HIDE DEF ci, d, c3
  <2>2. c3 \in Seq(CallInfo) /\ Len(c3) = d /\ \A j \in 1 .. d : c3[j] = ci[j]
    BY <2>1, PrefixFacts
  <2> QED BY SMTT(20), <2>2 DEF ci
<1> HIDE DEF c3
<1>5. OnlyCI(m1, m3, u) /\ m3.th[u].ci = c3
  BY ZenonT(40), <1>0, <1>1, <1>4, SetCIFacts
<1> HIDE DEF m3
<1>6. /\ IsM(m3) /\ m3.cs = m1.cs /\ Moves(m1.th, m3.th, u)
  BY <1>5, OnlyMoves
<1>7. Moves(T, m3.th, u)
  BY <1>1, <1>6 DEF Moves, Others
<1>8. CC \in Seq(Activation) /\ Len(CC) = h /\ \A j \in 1 .. h : CC[j] = C[j]
  <2> DEFINE w == m3.cs
             g == h - 1
  <2>1. w \in Seq(Activation) /\ Len(w) = g /\ \A j \in 1 .. g : w[j] = C[j]
    BY SMTT(20), <1>1, <1>6, MachineParts
  <2>2. g \in Nat /\ g + 1 = h
    BY <1>1, <1>2
  <2>3. CC = Append(w, p)
    OBVIOUS
  <2> HIDE DEF w, g, p, CC
  <2>4. /\ Append(w, p) \in Seq(Activation)
        /\ Len(Append(w, p)) = g + 1 /\ Append(w, p)[g + 1] = p
        /\ \A j \in 1 .. g : Append(w, p)[j] = w[j]
    BY <1>2, <2>1
  <2>5. \A j \in 1 .. h : j = g + 1 \/ j \in 1 .. g
    BY <2>2
  <2>6. C[g + 1] = p
    BY <2>2 DEF p
  <2> QED BY <2>1, <2>2, <2>3, <2>4, <2>5, <2>6
<1> DEFINE T3 == m3.th
<1>9. Calm(T3, CC)
  <2>1. /\ Throws(T, C, h, u) /\ ~Resumes(C[h]) /\ Calm(T, C) /\ T[u].status = "OK"
        /\ Len(T3[u].ci) = C[h].depth /\ \A j \in 1 .. C[h].depth : T3[u].ci[j] = T[u].ci[j]
    BY <1>4, <1>5
  <2>2. C[h].depth <= Len(T[u].ci) /\ Moves(T, T3, u)
    BY <1>3, <1>7
  <2> HIDE DEF T, C, CC, T3, p, d
  <2> QED BY <1>8, <2>1, <2>2, CaughtCalm
<1>10. Core(T3, CC)
  <2>1. m1 = CaughtAt(m, h, m.cs[h]) /\ m3 = SetCI(m1, u, SubSeq(m1.th[u].ci, 1, d))
    BY DEF m1, m3, c3
  <2>2. /\ m3.th[u].body = T[u].body /\ m3.th[u].errfunc = T[u].errfunc
        /\ m3.th[u].status = "OK" /\ m3.th[u].nny = C[h].nny /\ m3.th[u].nCcalls = C[h].nCcalls
    <3>1. IsCaught(m, m1, h, p, u)
      BY <1>d
    <3>2. m3.th[u].errfunc = m1.th[u].errfunc
      <4> HIDE DEF m1
      <4>1. IsM(m1) /\ u \in Threads /\ c3 \in Seq(CallInfo)
        BY Zenon, <1>0, <1>1, <1>4
      <4>2. SetCI(m1, u, c3).th[u].errfunc = m1.th[u].errfunc
        BY <4>1, SetCIFacts
      <4> QED BY <4>2 DEF m3
    <3> QED BY Zenon, <1>1, <1>5, <3>1, <3>2 DEF IsCaught, Restored, OnlyCI
  <2>3. Alike(T[u].ci, T3[u].ci, C[h].depth)
    <3> DEFINE ci == T[u].ci
               c2 == T3[u].ci
    <3>1. d <= Len(ci) /\ d <= Len(c2) /\ \A j \in 1 .. d : c2[j] = ci[j]
      <4>1. c2 = c3 /\ d <= d
        BY <1>2, <1>5
      <4> QED BY <1>3, <1>4, <4>1
    <3> HIDE DEF ci, c2, d
    <3>2. Alike(ci, c2, d)
      BY <3>1 DEF Alike
    <3> QED BY <3>2 DEF ci, c2, d
  <2>4. /\ Throws(T, C, h, u) /\ ~Resumes(C[h]) /\ T[u].status = "OK"
        /\ OnTop(T[u].ci, C[Len(C)], Acts(C, u), "ERR")
    OBVIOUS
  <2>5. /\ IsTh(T3) /\ Others(T, T3, u) /\ T3[u].body = T[u].body /\ T3[u].errfunc = T[u].errfunc
        /\ T3[u].status = "OK" /\ Len(T3[u].ci) = C[h].depth
        /\ T3[u].nny = C[h].nny /\ T3[u].nCcalls = C[h].nCcalls
    BY <1>4, <1>5, <1>7, <2>2 DEF Moves
  <2> HIDE DEF T, C, CC, T3, p, d
  <2>6. Core(T3, CC) /\ Live(T3, CC)
    BY <1>8, <2>3, <2>4, <2>5, CaughtCore
  <2> QED BY <2>6
<1>11. Caught2(p) \in {"pcall", "close", "wrap"} /\ p.level \in Nat /\ p.errfunc \in Nat
  <2>1. Caught2(p) \in {"pcall", "close", "wrap"}
    BY <1>c DEF Caught2
  <2> HIDE DEF p
  <2> QED BY <1>2, <2>1, ActivationFields
<1>12. /\ a \in Activation /\ a.k = "prot" /\ a.t = u /\ a.use = "closep"
       /\ a.depth = d /\ a.level = p.level
  <2> DEFINE lv == p.level
             tn == Caught2(p)
             ef == p.errfunc
  <2>1. lv \in Nat /\ tn \in {"pcall", "close", "wrap"} /\ ef \in Nat
    BY <1>11
  <2>0. IsM(m3)
    BY <1>6
  <2> HIDE DEF lv, tn, ef, p, d, CC
  <2>2. Protects(m3, ProtectClose(m3, u, lv, tn, ef), u, tn, ef)
    BY <1>0, <2>0, <2>1, ProtectsClose
  <2>3. a = ProtectClose(m3, u, lv, tn, ef)
    BY DEF lv, tn, ef
  <2> HIDE DEF a
  <2>4. /\ a \in Activation /\ a.k = "prot" /\ a.t = u /\ a.use = "closep"
        /\ a.depth = Len(m3.th[u].ci)
    BY <2>2, <2>3 DEF Protects
  <2>5. a.level = lv
    BY <2>3, ProtectLevel
  <2> QED BY <1>4, <1>5, <2>4, <2>5 DEF lv
<1> HIDE DEF a
<1>13. IsM(m4) /\ m4.th = m3.th /\ m4.cs = Append(m3.cs, a)
  BY <1>6, <1>12, PushCFacts
<1> HIDE DEF m4
<1>14. /\ m4.cs \in Seq(Activation) /\ Len(m4.cs) = h /\ m4.cs[h] = a
       /\ \A j \in 1 .. h - 1 : m4.cs[j] = CC[j]
  <2> DEFINE w == m3.cs
             g == h - 1
  <2>1. w \in Seq(Activation) /\ Len(w) = g /\ \A j \in 1 .. g : w[j] = C[j]
    BY <1>1, <1>6, MachineParts
  <2>2. g \in Nat /\ g + 1 = h /\ \A j \in 1 .. g : j \in 1 .. h
    BY <1>1, <1>2
  <2> HIDE DEF w, CC
  <2>3. m4.cs = Append(w, a)
    BY <1>13 DEF w
  <2> HIDE DEF g
  <2>4. /\ Append(w, a) \in Seq(Activation)
        /\ Len(Append(w, a)) = g + 1 /\ Append(w, a)[g + 1] = a
        /\ \A j \in 1 .. g : Append(w, a)[j] = w[j]
    BY <1>12, <2>1
  <2>5. \A j \in 1 .. g : m4.cs[j] = CC[j]
    BY <1>8, <2>1, <2>2, <2>3, <2>4
  <2>6. m4.cs \in Seq(Activation) /\ Len(m4.cs) = g + 1 /\ m4.cs[g + 1] = a
    BY <2>3, <2>4
  <2> QED BY <2>2, <2>5, <2>6 DEF g
<1>15. CC[h] = p /\ h > 0
  <2>1. h \in 1 .. h /\ h > 0
    BY <1>1, <1>2
  <2> QED BY SMTT(20), <1>8, <2>1
<1>16. Calm(m4.th, m4.cs)
  <2> DEFINE C3 == m4.cs
  <2>1. Again(CC[h], C3[h])
    <3>1. /\ p.k = "prot" /\ ~Resumes(p) /\ u = p.t
          /\ a.k = "prot" /\ a.t = u /\ a.use = "closep" /\ a.depth = d /\ a.level = p.level
      <4>1. ~Resumes(p)
        OBVIOUS
      <4>2. p.k = "prot"
        BY SMTT(20), <1>2
      <4>3. u = p.t
        BY <1>1
      <4> HIDE DEF p, d, CC, T3, C3
      <4> QED BY <1>12, <4>1, <4>2, <4>3
    <3>2. C3[h] = a /\ CC[h] = p /\ d = p.depth
      BY <1>14, <1>15
    <3>3. ~Resumes(a)
      BY <3>1 DEF Resumes
    <3> HIDE DEF C3, CC, p, d
    <3>4. \A x, y \in {p, a} : x = p /\ y = a => Again(x, y)
      <4> HIDE DEF a
      <4> QED BY <3>1, <3>3 DEF Again, p, d
    <3>5. Again(p, a)
      BY <3>4
    <3> QED BY <3>2, <3>5
  <2>2. Core(T3, CC) /\ Calm(T3, CC) /\ Len(CC) = h /\ h > 0 /\ C3 \in Seq(Activation)
        /\ Len(C3) = h /\ \A i \in 1 .. h - 1 : C3[i] = CC[i]
    BY <1>8, <1>9, <1>10, <1>14, <1>15
  <2> HIDE DEF T3, CC, C3
  <2>3. Calm(T3, C3)
    BY <2>1, <2>2, AgainLevels
  <2> QED BY <1>13, <2>3 DEF T3, C3
<1>17. TopIs(m4, u, a, d)
  <2>1. Len(m4.cs) > 0 /\ m4.cs[Len(m4.cs)] = a
    BY <1>14, <1>15
  <2>2. Len(m4.th[u].ci) = d
    BY <1>4, <1>5, <1>13
  <2> QED BY <1>12, <2>1, <2>2 DEF TopIs
<1>18. m4.cs[1].k = "prot"
  <2>1. Len(C) > 0 /\ \A j \in 1 .. h - 1 : j \in 1 .. h
    BY <1>1, <1>2
  <2>2. C[1].k = "prot"
    BY SMTT(20), <1>2, <2>1, FirstProt
  <2>3. 1 = h \/ 1 \in 1 .. h - 1
    BY <1>1, <1>2
  <2> HIDE DEF CC
  <2> QED BY <1>8, <1>12, <1>14, <2>1, <2>2, <2>3
<1>19. Inv2M(Close(m4, u, p.level, "ERR", FALSE))
  <2> DEFINE lv == p.level
  <2>1. lv \in Nat /\ lv = a.level
    BY <1>11, <1>12
  <2> HIDE DEF lv, d, p
  <2>2. Inv2M(Close(m4, u, lv, "ERR", FALSE))
    BY <1>13, <1>16, <1>17, <1>18, <2>1, ClosePush
  <2> QED BY <2>2 DEF lv
<1> DEFINE r == CloseProtected(ErrorAt(m, h, u), u, m.cs[h].level, "ERR", Caught2(m.cs[h]),
                               m.cs[h].errfunc)
<1>20. r = Close(m4, u, p.level, "ERR", FALSE)
  BY DEF ErrorAt, CloseProtected, ProtectClose, m4, a, m3, c3, m1
<1> HIDE DEF r
<1>21. Inv2M(r)
  BY <1>19, <1>20
<1> QED BY <1>21 DEF r

-----------------------------------------------------------------------------
(* Every action keeps the second invariant *)

IInv2 == Inv2(th, cstack, mode)

LEMMA Arrives2 ==
  ASSUME NEW m, Inv2M(m), Go(m)
  PROVE  IInv2'
  BY DEF Inv2M, Go, IInv2

LEMMA CalmHere ==
  ASSUME IInv2
  PROVE  Inv2M(M) /\ Calm(M.th, M.cs) /\ Calm(th, cstack)
<1>1. M.th = th /\ M.cs = cstack /\ M.mode = mode
  BY DEF M
<1> QED BY <1>1 DEF Inv2M, IInv2, Inv2

LEMMA CallLuaKeeps2 ==
  ASSUME IInv, IInv2, CallLua
  PROVE  IInv2'
<1>1. LuaRuns /\ Go(PushCI(M, L, Frame("lua", Level(L))))
  BY DEF CallLua, MayAct
<1>2. LuaTop(M, L, Top, Depth) /\ Level(L) \in Nat /\ Calm(M.th, M.cs)
  BY <1>1, LuaLeaves, CalmHere
<1>3. Inv2M(PushCI(M, L, Frame("lua", Level(L))))
  BY <1>2, LuaCalledCalm
<1> QED BY <1>1, <1>3, Arrives2

LEMMA CallMetamethodKeeps2 ==
  ASSUME IInv, IInv2, CallMetamethod
  PROVE  IInv2'
<1>1. LuaRuns /\ Go(Ccall(M, L, "yieldable", None))
  BY DEF CallMetamethod, Uses, MayAct
<1>2. LuaTop(M, L, Top, Depth) /\ Calm(M.th, M.cs)
  BY <1>1, LuaLeaves, CalmHere
<1>3. Inv2M(Ccall(M, L, "yieldable", None))
  BY <1>2, MetamethodCalm
<1> QED BY <1>1, <1>3, Arrives2

LEMMA LevelIs ==
  ASSUME IInv
  PROVE  M.th = th /\ \A t : Level(t) = Len(M.th[t].tbclist)
  BY MFacts DEF Level

LEMMA CallBackKeeps2 ==
  ASSUME IInv, IInv2, CallBack
  PROVE  IInv2'
<1>1. LuaRuns /\ Go(Ccall(PushCI(M, L, Frame("call", Level(L))), L, "nyci", None))
  BY DEF CallBack, Uses, MayAct
<1>2. LuaTop(M, L, Top, Depth) /\ Level(L) \in Nat /\ Calm(M.th, M.cs)
  BY <1>1, LuaLeaves, CalmHere
<1>3. Level(L) = Len(M.th[L].tbclist)
  BY LevelIs
<1>4. Inv2M(Ccall(PushCI(M, L, Frame("call", Level(L))), L, "nyci", None))
  BY <1>2, <1>3, CallbackCalm
<1> QED BY <1>1, <1>4, Arrives2

LEMMA ErrorKeeps2 ==
  ASSUME IInv, IInv2, Error
  PROVE  IInv2'
<1>1. LuaRuns /\ Go(In(M, "ERR"))
  BY DEF Error, MayAct
<1>2. IsM(M) /\ Calm(M.th, M.cs) /\ "ERR" \in {"run", "ERR", "YIELD"}
  BY MFacts, CalmHere
<1>3. Inv2M(In(M, "ERR"))
  BY <1>2, Mode2
<1> QED BY <1>1, <1>3, Arrives2

LEMMA PCallKeeps2 ==
  ASSUME IInv, IInv2, PCall
  PROVE  IInv2'
<1> DEFINE lv == Level(L)
           e  == th[L].errfunc
           f  == Frame("pcall", lv)
           m1 == PushCI(M, L, f)
           my == PushCI(M, L, PcallFrame(lv, e))
<1>1. /\ LuaRuns
      /\ IF Yieldable(L)
         THEN Go(Ccall(SetErr(my, L, Depth + 1), L, "yieldable", None))
         ELSE Go(Ccall(PushC(SetErr(m1, L, Depth + 1), PcallProt(m1, L, e)), L, "nyci", None))
  BY DEF PCall, Uses, MayAct, PcallFrame, PcallProt, Depth, SetErr
<1>2. LuaTop(M, L, Top, Depth) /\ Level(L) \in Nat /\ M.th = th /\ Calm(M.th, M.cs)
  BY <1>1, LuaLeaves, CalmHere
<1>5. Level(L) = Len(M.th[L].tbclist)
  BY LevelIs
<1>3. CASE Yieldable(L)
  <2>1. M.th[L].nny = 0
    BY <1>2, <1>3 DEF Yieldable
  <2>2. Inv2M(Ccall(SetErr(PushCI(M, L, PcallFrame(lv, M.th[L].errfunc)), L, Depth + 1),
                    L, "yieldable", None))
    BY <1>2, <1>5, <2>1, PcallkCalm
  <2>3. Inv2M(Ccall(SetErr(my, L, Depth + 1), L, "yieldable", None))
    BY <1>2, <2>2
  <2> QED BY <1>1, <1>3, <2>3, Arrives2
<1>4. CASE ~Yieldable(L)
  <2>1. LET m2 == PushCI(M, L, Frame("pcall", lv))
        IN  Inv2M(Ccall(PushC(SetErr(m2, L, Depth + 1), PcallProt(m2, L, M.th[L].errfunc)),
                        L, "nyci", None))
    BY <1>2, <1>5, PcallCalm
  <2>2. Inv2M(Ccall(PushC(SetErr(m1, L, Depth + 1), PcallProt(m1, L, e)), L, "nyci", None))
    BY <1>2, <2>1
  <2> QED BY <1>1, <1>4, <2>2, Arrives2
<1> QED BY <1>3, <1>4

LEMMA NewTbcKeeps2 ==
  ASSUME IInv, IInv2, NEW v \in Variables, NewTbc(v)
  PROVE  IInv2'
<1> DEFINE tbc == Append(th[L].tbclist, v)
<1>1. LuaRuns /\ Go([M EXCEPT !.th[L].tbclist = Append(@, v)])
  BY DEF NewTbc, MayAct
<1>2. /\ LuaTop(M, L, Top, Depth) /\ M.th = th /\ L \in Threads /\ th[L] \in LuaState /\ IsM(M)
      /\ Calm(M.th, M.cs)
  BY <1>1, LuaLeaves, CalmHere
<1>3. [M EXCEPT !.th[L].tbclist = Append(@, v)] = SetT(M, L, [M.th[L] EXCEPT !.tbclist = tbc])
  BY <1>2 DEF SetT
<1>4. NotPending(M.th, v) /\ NotClosing(M.th, v)
  <2>1. \A t \in Threads : v \notin ToSet(th[t].tbclist)
                           /\ \A i \in DOMAIN th[t].ci : th[t].ci[i].of # v
    BY DEF NewTbc
  <2>2. ASSUME NEW t \in Threads
        PROVE  /\ \A j \in 1 .. Len(th[t].tbclist) : th[t].tbclist[j] # v
               /\ \A i \in 1 .. Len(th[t].ci) : th[t].ci[i].of # v
    <3>1. th[t].tbclist \in Seq(Variables) /\ th[t].ci \in Seq(CallInfo)
      BY <1>2, <2>2 DEF IsM, LuaState
    <3>2. DOMAIN th[t].tbclist = 1 .. Len(th[t].tbclist) /\ DOMAIN th[t].ci = 1 .. Len(th[t].ci)
      BY <3>1
    <3>3. \A j \in 1 .. Len(th[t].tbclist) : th[t].tbclist[j] # v
      BY <2>1, <2>2, <3>2 DEF ToSet
    <3>4. \A i \in 1 .. Len(th[t].ci) : th[t].ci[i].of # v
      BY <2>1, <2>2, <3>2
    <3> QED BY <3>3, <3>4
  <2> QED BY <1>2, <2>2 DEF NotPending, NotClosing
<1>5. Inv2M(SetT(M, L, [M.th[L] EXCEPT !.tbclist = Append(M.th[L].tbclist, v)]))
  BY <1>2, <1>4, NewTbcCalm
<1>6. Inv2M(SetT(M, L, [M.th[L] EXCEPT !.tbclist = tbc]))
  BY <1>2, <1>5
<1> HIDE DEF tbc
<1> QED BY <1>1, <1>3, <1>6, Arrives2

LEMMA OpKeeps2 ==
  ASSUME IInv, IInv2, LuaRuns, NEW op \in {None, "close", "return"}, NEW upto \in Nat,
         op = "return" => upto = F.level, Go(OpSet(M, L, Depth, op, upto))
  PROVE  IInv2'
<1>1. /\ LuaTop(M, L, Top, Depth) /\ M.th = th /\ L \in Threads /\ IsM(M) /\ Depth \in Nat
      /\ Depth > 0 /\ F = th[L].ci[Depth] /\ Calm(M.th, M.cs)
  BY LuaLeaves, CalmHere
<1>2. Depth \in 1 .. Len(M.th[L].ci)
  BY <1>1 DEF Depth
<1>3. Inv2M(SetT(M, L, SetOp(M.th[L], Depth, op, upto)))
  <2>1. op = "return" => upto = M.th[L].ci[Depth].level
    BY <1>1
  <2> QED BY <1>1, <2>1, OpCalm
<1>4. OpSet(M, L, Depth, op, upto) = SetT(M, L, SetOp(M.th[L], Depth, op, upto))
  BY <1>1, <1>2, OpIs
<1> QED BY <1>3, <1>4, Arrives2

LEMMA EndBlockKeeps2 ==
  ASSUME IInv, IInv2, EndBlock
  PROVE  IInv2'
<1>1. LuaRuns /\ Level(L) > F.level /\ Go(OpSet(M, L, Depth, "close", Level(L) - 1))
  BY DEF EndBlock, Uses, MayAct, OpSet, Depth
<1>2. Level(L) \in Nat /\ F \in CallInfo
  BY <1>1, LuaLeaves
<1>3. Level(L) - 1 \in Nat
  <2>1. F.level \in Nat
    BY <1>2, CallInfoFields
  <2> QED BY <1>1, <1>2, <2>1
<1> QED BY SMTT(20), <1>1, <1>3, OpKeeps2

LEMMA ReturnKeeps2 ==
  ASSUME IInv, IInv2, Return
  PROVE  IInv2'
<1>1. LuaRuns /\ Go(OpSet(M, L, Depth, "return", F.level))
  BY DEF Return, MayAct, OpSet, Depth
<1>2. F.level \in Nat
  BY <1>1, LuaLeaves, CallInfoFields
<1> QED BY SMTT(20), <1>1, <1>2, OpKeeps2

LEMMA YieldKeeps2 ==
  ASSUME IInv, IInv2, Yield
  PROVE  IInv2'
<1>1. /\ LuaRuns /\ Yieldable(L)
      /\ Go(In(PushCI(SetStatus(M, L, "YIELD"), L, Frame("yield", Level(L))), "YIELD"))
  BY DEF Yield, MayAct, SetStatus
<1>2. LuaTop(M, L, Top, Depth) /\ Level(L) \in Nat /\ M.th = th /\ Calm(M.th, M.cs)
  BY <1>1, LuaLeaves, CalmHere
<1>3. Inv2M(In(PushCI(SetStatus(M, L, "YIELD"), L, Frame("yield", Level(L))), "YIELD"))
  BY <1>2, YieldedCalm
<1> QED BY <1>1, <1>3, Arrives2

LEMMA CloseVariablesKeeps2 ==
  ASSUME IInv, IInv2, CloseVariables
  PROVE  IInv2'
<1>1. LuaRuns /\ Go(Close(M, L, F.upto, "OK", TRUE))
  BY DEF CloseVariables
<1>2. LuaTop(M, L, Top, Depth) /\ F.upto \in Nat /\ Calm(M.th, M.cs)
  BY <1>1, LuaLeaves, CallInfoFields, CalmHere
<1>3. Inv2M(Close(M, L, F.upto, "OK", TRUE))
  BY <1>2, OpClosesCalm
<1> QED BY <1>1, <1>3, Arrives2

LEMMA ReturnUpto ==
  ASSUME IInv, IInv2, LuaRuns, F.op = "return"
  PROVE  F.upto = F.level
<1>1. /\ M.th = th /\ L \in Threads /\ Depth \in Nat /\ Depth > 0 /\ F = th[L].ci[Depth]
      /\ Calm(th, cstack)
  BY LuaLeaves, CalmHere
<1>2. CILevels(th[L].ci) /\ Depth \in 1 .. Len(th[L].ci)
  BY <1>1 DEF Calm, Levels, Depth
<1> QED BY <1>1, <1>2 DEF CILevels

LEMMA FinishOpKeeps2 ==
  ASSUME IInv, IInv2, FinishOp
  PROVE  IInv2'
<1>1. /\ LuaRuns /\ Level(L) <= F.upto
      /\ \/ Go(OpSet(M, L, Depth, None, 0))
         \/ /\ F.op # "close" /\ F.op # None
            /\ Go(In(PopCI(M, L), IF F.fresh THEN "return" ELSE "run"))
  BY DEF FinishOp, OpSet, Depth
<1>2. /\ LuaTop(M, L, Top, Depth) /\ M.th = th /\ Calm(M.th, M.cs) /\ F \in CallInfo
      /\ F = th[L].ci[Depth]
  BY <1>1, LuaLeaves, CalmHere
<1>4. CASE Go(OpSet(M, L, Depth, None, 0))
  <2>1. None # "return" /\ 0 \in Nat /\ None \in {None, "close", "return"}
    BY DEF None
  <2> QED BY <1>1, <1>4, <2>1, OpKeeps2
<1>5. CASE /\ F.op # "close" /\ F.op # None
           /\ Go(In(PopCI(M, L), IF F.fresh THEN "return" ELSE "run"))
  <2>1. F.op = "return"
    BY <1>2, <1>5 DEF CallInfo
  <2>2. Len(M.th[L].tbclist) <= M.th[L].ci[Depth].level
    <3>1. Level(L) = Len(M.th[L].tbclist) /\ F.upto = F.level
      BY <1>1, <2>1, LevelIs, ReturnUpto
    <3> QED BY <1>1, <1>2, <3>1
  <2>3. Inv2M(In(PopCI(M, L), IF Last(M.th[L].ci).fresh THEN "return" ELSE "run"))
    BY <1>2, <2>2, LuaReturnsCalm
  <2>4. Inv2M(In(PopCI(M, L), IF F.fresh THEN "return" ELSE "run"))
    BY <1>2, <2>3 DEF F
  <2> QED BY <1>5, <2>4, Arrives2
<1> QED BY <1>1, <1>4, <1>5

LEMMA CreateKeeps2 ==
  ASSUME IInv, IInv2, NEW t \in Threads, Create(t)
  PROVE  IInv2'
<1>1. /\ LuaRuns /\ t # MainThread /\ ~ \E i \in DOMAIN cstack : cstack[i].t = t
      /\ Go(SetT(M, t, [NewThread EXCEPT !.body = TRUE]))
  BY DEF Create, MayAct, SetT
<1>2. M.cs = cstack /\ IsM(M) /\ Core(th, cstack) /\ M.th = th /\ M.mode = "run" /\ Calm(M.th, M.cs)
  BY <1>1, Leaves, CalmHere DEF LuaRuns
<1>3. t \notin ChainOf(M.cs)
  <2>1. cstack \in Seq(Activation)
    BY DEF IInv, Inv, Core, Types
  <2> QED BY <1>1, <1>2, <2>1 DEF ChainOf
<1>4. Inv2M(SetT(M, t, [NewThread EXCEPT !.body = TRUE]))
  BY <1>1, <1>2, <1>3, CreatedCalm
<1> QED BY <1>1, <1>4, Arrives2

LEMMA ResumeKeeps2 ==
  ASSUME IInv, IInv2, NEW t \in Threads, NEW func \in {"resume", "wrap"}, Resume(t, func)
  PROVE  IInv2'
<1>1. /\ LuaRuns /\ AuxStatus(t) = "suspended"
      /\ Go(ResumeThread(PushCI(M, L, Frame(func, Level(L))), t, th[L].nCcalls))
  BY DEF Resume, Uses, MayAct
<1>2. /\ LuaTop(M, L, Top, Depth) /\ M.cs = cstack /\ M.th = th /\ Level(L) \in Nat
      /\ Calm(M.th, M.cs)
  BY <1>1, LuaLeaves, CalmHere
<1>3. t \notin ChainOf(M.cs)
  BY <1>1, <1>2, NotInChain
<1>4. th[t].status = "YIELD" \/ th[t].body
  BY <1>1 DEF AuxStatus
<1>5. t # MainThread
  <2>1. StatusOf(th, cstack, t)
    BY DEF IInv, Inv, Core, States
  <2> QED BY <1>4, <2>1 DEF StatusOf
<1>6. Inv2M(ResumeThread(PushCI(M, L, Frame(func, Level(L))), t, M.th[L].nCcalls))
  <2> DEFINE m == M
             u == L
             b == Top
             n == Depth
             lv == Level(L)
  <2>1. /\ LuaTop(m, u, b, n) /\ lv \in Nat /\ t \notin ChainOf(m.cs) /\ Calm(m.th, m.cs)
        /\ m.th[t].status = "YIELD" \/ m.th[t].body
    BY <1>2, <1>3, <1>4
  <2>2. th[t].status = m.th[t].status
    BY <1>2
  <2> HIDE DEF m, u, b, n, lv
  <2>3. Inv2M(ResumeThread(PushCI(m, u, Frame(func, lv)), t, m.th[u].nCcalls))
    BY <1>5, <2>1, <2>2, ResumeCalledCalm
  <2> QED BY <2>3 DEF m, u, lv
<1>7. Inv2M(ResumeThread(PushCI(M, L, Frame(func, Level(L))), t, th[L].nCcalls))
  BY <1>2, <1>6
<1> QED BY <1>1, <1>7, Arrives2

LEMMA CloseCoroutineKeeps2 ==
  ASSUME IInv, IInv2, "close main" \notin Functions, NEW t \in Threads, CloseCoroutine(t)
  PROVE  IInv2'
<1>1. /\ LuaRuns /\ (AuxStatus(t) = "suspended" \/ AuxStatus(t) = "dead") /\ t # MainThread
      /\ Go(ResetThread(PushCI(M, L, Frame("close", Level(L))), t, L, "close"))
  BY Zenon DEF CloseCoroutine, Uses, MayAct
<1>2. /\ LuaTop(M, L, Top, Depth) /\ M.cs = cstack /\ Level(L) \in Nat /\ Calm(M.th, M.cs)
  BY Zenon, <1>1, LuaLeaves, CalmHere
<1>3. t \notin ChainOf(M.cs)
  BY Zenon, <1>1, <1>2, NotInChain
<1>4. Inv2M(ResetThread(PushCI(M, L, Frame("close", Level(L))), t, L, "close"))
  BY Zenon, <1>1, <1>2, <1>3, CloseCalledCalm
<1> QED BY Zenon, <1>1, <1>4, Arrives2

LEMMA CloseNextKeeps2 ==
  ASSUME IInv, IInv2, CloseNext
  PROVE  IInv2'
<1> DEFINE tbc == Front(th[L].tbclist)
           inc == IF Top.yy THEN "yieldable" ELSE "nyci"
           of  == Last(th[L].tbclist)
           m1  == SetT(M, L, [M.th[L] EXCEPT !.tbclist = tbc])
<1>1. /\ At("close", "run") /\ Level(L) > Top.level
      /\ Go(Ccall([M EXCEPT !.th[L].tbclist = Front(@)], L, inc, of))
  BY DEF CloseNext
<1>2. /\ CloseTop(M, L, Top, Depth) /\ M.th = th /\ L \in Threads /\ th[L] \in LuaState /\ IsM(M)
      /\ Calm(M.th, M.cs)
  BY <1>1, CloseLeaves, CalmHere DEF CloseTop
<1>3. Len(M.th[L].tbclist) > 0
  <2>1. Top.level \in Nat
    BY <1>1, Leaves, ActivationFields DEF At
  <2>2. Len(M.th[L].tbclist) = Level(L) /\ Level(L) \in Nat
    BY <1>2 DEF LuaState, Level
  <2> QED BY <1>1, <2>1, <2>2
<1>4. [M EXCEPT !.th[L].tbclist = Front(@)] = m1
  BY <1>2 DEF SetT
<1>5. Inv2M(Ccall(m1, L, inc, of))
  <2> DEFINE m == M
             t == L
             b == Top
             n == Depth
             r == Ccall(SetT(m, t, [m.th[t] EXCEPT !.tbclist = Front(m.th[t].tbclist)]), t,
                        IF b.yy THEN "yieldable" ELSE "nyci", Last(m.th[t].tbclist))
  <2>1. CloseTop(m, t, b, n) /\ Calm(m.th, m.cs) /\ Len(m.th[t].tbclist) > 0
    BY <1>2, <1>3
  <2>2. r = Ccall(m1, L, inc, of)
    BY <1>2
  <2> HIDE DEF m, t, b, n, m1, inc, of
  <2>3. Inv2M(r)
    BY <2>1, CloseNextCalm DEF CloseTop
  <2> QED BY <2>2, <2>3
<1> HIDE DEF m1, inc, of
<1> QED BY <1>1, <1>4, <1>5, Arrives2

LEMMA EndOpCloseKeeps2 ==
  ASSUME IInv, IInv2, EndOpClose
  PROVE  IInv2'
<1>1. At("close", "run") /\ Below.k # "prot" /\ F.func = "lua" /\ Go(PopC(M))
  BY DEF EndOpClose, CloseEnds
<1>2. /\ CloseTop(M, L, Top, Depth) /\ M.cs[Len(M.cs) - 1] = Below /\ F = Last(M.th[L].ci)
      /\ Calm(M.th, M.cs)
  BY <1>1, CloseLeaves, CalmHere
<1>3. Inv2M(PopC(M))
  <2>1. M.cs[Len(M.cs) - 1].k # "prot" /\ Last(M.th[L].ci).func = "lua"
    BY <1>1, <1>2
  <2> DEFINE m == M
             t == L
             b == Top
             n == Depth
  <2>2. /\ CloseTop(m, t, b, n) /\ m.cs[Len(m.cs) - 1].k # "prot" /\ Last(m.th[t].ci).func = "lua"
        /\ Calm(m.th, m.cs)
    BY <1>2, <2>1
  <2> HIDE DEF m, t, b, n
  <2>3. Inv2M(PopC(m))
    BY <2>2, OpCloseDoneCalm DEF CloseTop
  <2> QED BY <2>3 DEF m
<1> QED BY <1>1, <1>3, Arrives2

LEMMA EndFinishpcallkKeeps2 ==
  ASSUME IInv, IInv2, EndFinishpcallk
  PROVE  IInv2'
<1>1. /\ At("close", "run") /\ Below.k # "prot" /\ F.func = "pcall"
      /\ Go(In(EndPcallk(PopC(M), L), "return"))
  BY DEF EndFinishpcallk, CloseEnds
<1>2. /\ CloseTop(M, L, Top, Depth) /\ M.cs[Len(M.cs) - 1] = Below /\ F = Last(M.th[L].ci)
      /\ Calm(M.th, M.cs)
  BY <1>1, CloseLeaves, CalmHere
<1>3. Inv2M(In(EndPcallk(PopC(M), L), "return"))
  <2>1. M.cs[Len(M.cs) - 1].k # "prot" /\ Last(M.th[L].ci).func = "pcall"
    BY <1>1, <1>2
  <2> DEFINE m == M
             t == L
             b == Top
             n == Depth
  <2>2. /\ CloseTop(m, t, b, n) /\ m.cs[Len(m.cs) - 1].k # "prot"
        /\ Last(m.th[t].ci).func = "pcall" /\ Calm(m.th, m.cs)
    BY <1>2, <2>1
  <2> HIDE DEF m, t, b, n
  <2>3. Inv2M(In(EndPcallk(PopC(m), t), "return"))
    BY <2>2, FinishpcallkCalm DEF CloseTop
  <2> QED BY <2>3 DEF m, t
<1> QED BY <1>1, <1>3, Arrives2

LEMMA EndCloseProtectedKeeps2 ==
  ASSUME IInv, IInv2, EndCloseProtected
  PROVE  IInv2'
<1> DEFINE q  == M.cs[Len(M.cs) - 1]
           m2 == PopC(Restore(PopC(M), q))
           r  == IF q.then = "pcall" THEN EndPcall(m2, q) ELSE EndReset(m2, q)
<1>1. At("close", "run") /\ Below.k = "prot" /\ Level(L) <= Top.level
  BY DEF EndCloseProtected
<1>2. CloseTop(M, L, Top, Depth) /\ M.cs[Len(M.cs) - 1] = Below /\ Calm(M.th, M.cs)
  BY <1>1, CloseLeaves, CalmHere
<1>3. Go(r)
  BY <1>2 DEF EndCloseProtected
<1>5. Len(M.th[L].tbclist) <= Top.level
  BY <1>1, LevelIs
<1>4. Inv2M(r)
  <2> DEFINE m == M
             t == L
             b == Top
             n == Depth
             p == q
  <2>1. /\ CloseTop(m, t, b, n) /\ p = m.cs[Len(m.cs) - 1] /\ p.k = "prot" /\ Calm(m.th, m.cs)
        /\ Len(m.th[t].tbclist) <= b.level
    BY <1>1, <1>2, <1>5
  <2>2. r = IF p.then = "pcall" THEN EndPcall(PopC(Restore(PopC(m), p)), p)
                                ELSE EndReset(PopC(Restore(PopC(m), p)), p)
    OBVIOUS
  <2> HIDE DEF m, t, b, n, p, r
  <2>3. Inv2M(IF p.then = "pcall" THEN EndPcall(PopC(Restore(PopC(m), p)), p)
                                  ELSE EndReset(PopC(Restore(PopC(m), p)), p))
    BY <2>1, CloseProtectedCalm DEF CloseTop
  <2> QED BY <2>2, <2>3
<1> HIDE DEF r
<1> QED BY <1>3, <1>4, Arrives2

LEMMA CallReturnsKeeps2 ==
  ASSUME IInv, IInv2, ReturnToClose \/ ReturnToLua
  PROVE  IInv2'
<1> DEFINE r == In(EndCcall(M, L, Top.inc), "run")
<1>1. /\ At("call", "return") /\ Go(r)
      /\ Below.k = "close" \/ (Runs(Below) /\ F.func = "lua")
  BY DEF ReturnToClose, ReturnToLua, Called, Runs
<1>2. /\ CallTop(M, L, Top, Depth) /\ M.cs[Len(M.cs) - 1] = Below /\ F = Last(M.th[L].ci)
      /\ Calm(M.th, M.cs)
  BY <1>1, CallLeaves, CalmHere
<1>3. Inv2M(r)
  <2> DEFINE m == M
             t == L
             b == Top
             n == Depth
  <2>1. /\ CallTop(m, t, b, n) /\ Calm(m.th, m.cs)
        /\ \/ m.cs[Len(m.cs) - 1].k = "close"
           \/ Runs(m.cs[Len(m.cs) - 1]) /\ Last(m.th[t].ci).func = "lua"
    BY <1>1, <1>2
  <2> HIDE DEF m, t, b, n
  <2>2. InvM(In(EndCcall(m, t, b.inc), "run"))
    <3>1. CASE m.cs[Len(m.cs) - 1].k = "close"
      BY <2>1, <3>1, MethodReturns DEF CallTop
    <3>2. CASE Runs(m.cs[Len(m.cs) - 1]) /\ Last(m.th[t].ci).func = "lua"
      BY <2>1, <3>2, LuaReturned DEF CallTop
    <3> QED BY <2>1, <3>1, <3>2
  <2>3. Inv2M(In(EndCcall(m, t, b.inc), "run"))
    BY <2>1, <2>2, CallReturnsCalm DEF CallTop
  <2> QED BY <2>3 DEF m, t, b
<1> HIDE DEF r
<1> QED BY <1>1, <1>3, Arrives2

LEMMA ReturnToProtKeeps2 ==
  ASSUME IInv, IInv2, ReturnToProt
  PROVE  IInv2'
<1>1. At("call", "return") /\ Below.k = "prot" /\ Go(EndCcall(M, L, Top.inc))
  BY DEF ReturnToProt, Called
<1>2. CallTop(M, L, Top, Depth) /\ M.cs[Len(M.cs) - 1] = Below /\ Inv2M(M)
  BY <1>1, CallLeaves, CalmHere
<1>3. Inv2M(EndCcall(M, L, Top.inc))
  <2> DEFINE m == M
             t == L
             b == Top
             n == Depth
  <2>1. CallTop(m, t, b, n) /\ m.cs[Len(m.cs) - 1].k = "prot" /\ Inv2M(m)
    BY <1>1, <1>2
  <2> HIDE DEF m, t, b, n
  <2>2. Inv2M(EndCcall(m, t, b.inc))
    BY <2>1, BodyReturnsCalm DEF CallTop
  <2> QED BY <2>2 DEF m, t, b
<1> QED BY <1>1, <1>3, Arrives2

LEMMA ReturnToCKeeps2 ==
  ASSUME IInv, IInv2, ReturnToC
  PROVE  IInv2'
<1> DEFINE m2 == EndCcall(M, L, Top.inc)
           r  == In(IF Last(M.th[L].ci).func = "pcall" THEN EndPcallk(m2, L) ELSE PopCI(m2, L),
                    "run")
<1>1. At("call", "return") /\ Runs(Below) /\ F.func # "lua"
  BY DEF ReturnToC, Runs
<1>2. /\ CallTop(M, L, Top, Depth) /\ M.cs[Len(M.cs) - 1] = Below /\ F = Last(M.th[L].ci)
      /\ Calm(M.th, M.cs)
  BY <1>1, CallLeaves, CalmHere
<1>3. Go(r)
  BY <1>2 DEF ReturnToC, Called
<1>4. Inv2M(r)
  <2> DEFINE m == M
             t == L
             b == Top
             n == Depth
             m3 == EndCcall(m, t, b.inc)
  <2>1. /\ CallTop(m, t, b, n) /\ Runs(m.cs[Len(m.cs) - 1]) /\ Last(m.th[t].ci).func # "lua"
        /\ Calm(m.th, m.cs)
    BY <1>1, <1>2
  <2>2. r = In(IF Last(m.th[t].ci).func = "pcall" THEN EndPcallk(m3, t) ELSE PopCI(m3, t), "run")
    OBVIOUS
  <2>3. m3 = EndCcall(m, t, b.inc)
    OBVIOUS
  <2> HIDE DEF m, t, b, n, m3, r
  <2>4. Inv2M(In(IF Last(m.th[t].ci).func = "pcall" THEN EndPcallk(m3, t) ELSE PopCI(m3, t), "run"))
    BY <2>1, <2>3, CReturnsCalm DEF CallTop
  <2> QED BY <2>2, <2>4
<1> HIDE DEF r
<1> QED BY <1>3, <1>4, Arrives2

LEMMA UnrollEndKeeps2 ==
  ASSUME IInv, IInv2, UnrollEnd
  PROVE  IInv2'
<1>1. At("unroll", "return") /\ th[L].ci = <<>> /\ Go(PopC(M))
  BY DEF UnrollEnd
<1>2. UnrollTop(M, L, Top, Depth) /\ Depth = 0 /\ Inv2M(M)
  BY <1>1, UnrollLeaves, CalmHere
<1>3. Inv2M(PopC(M))
  <2> DEFINE m == M
             t == L
             b == Top
             n == Depth
  <2>1. UnrollTop(m, t, b, n) /\ n = 0 /\ Inv2M(m)
    BY <1>2
  <2> HIDE DEF m, t, b, n
  <2>2. Inv2M(PopC(m))
    BY <2>1, UnrollEndsCalm DEF UnrollTop
  <2> QED BY <2>2 DEF m
<1> QED BY <1>1, <1>3, Arrives2

LEMMA UnrollLuaKeeps2 ==
  ASSUME IInv, IInv2, UnrollLua
  PROVE  IInv2'
<1>1. Go(In(M, "run"))
  BY DEF UnrollLua
<1>2. IsM(M) /\ Calm(M.th, M.cs) /\ "run" \in {"run", "ERR", "YIELD"}
  BY MFacts, CalmHere
<1>3. Inv2M(In(M, "run"))
  BY <1>2, Mode2
<1> QED BY <1>1, <1>3, Arrives2

LEMMA UnrollCKeeps2 ==
  ASSUME IInv, IInv2, UnrollC
  PROVE  IInv2'
<1> DEFINE r == IF F.recst # "OK" THEN Close(M, L, F.level, F.recst, TRUE) ELSE EndPcallk(M, L)
<1>1. At("unroll", "return") /\ th[L].ci # <<>> /\ F.func # "lua" /\ Go(r)
  BY DEF UnrollC
<1>2. UnrollTop(M, L, Top, Depth) /\ Depth > 0 /\ F = Last(M.th[L].ci) /\ Calm(M.th, M.cs)
  BY <1>1, UnrollLeaves, CalmHere
<1>3. Inv2M(r)
  <2> DEFINE m == M
             t == L
             b == Top
             n == Depth
             f == F
  <2>1. /\ UnrollTop(m, t, b, n) /\ n > 0 /\ Last(m.th[t].ci).func # "lua" /\ f = Last(m.th[t].ci)
        /\ Calm(m.th, m.cs)
    BY <1>1, <1>2
  <2>2. r = IF f.recst # "OK" THEN Close(m, t, f.level, f.recst, TRUE) ELSE EndPcallk(m, t)
    OBVIOUS
  <2> HIDE DEF m, t, b, n, f, r
  <2>3. Inv2M(IF f.recst # "OK" THEN Close(m, t, f.level, f.recst, TRUE) ELSE EndPcallk(m, t))
    BY <2>1, PcallkFinishesCalm DEF UnrollTop
  <2> QED BY <2>2, <2>3
<1> HIDE DEF r
<1> QED BY <1>1, <1>3, Arrives2

LEMMA ProtReturnsKeeps2 ==
  ASSUME IInv, IInv2, ProtReturns
  PROVE  IInv2'
<1> DEFINE r == IF Top.use = "resume" THEN Resumed(PopC(Restore(M, Top)), Top.t, "OK")
                                      ELSE EndPcall(PopC(Restore(M, Top)), Top)
<1>1. cstack # <<>> /\ mode = "return" /\ Top.k = "prot" /\ Go(r)
  BY DEF ProtReturns, At
<1>2. IsM(M) /\ InvM(M) /\ M.mode = mode /\ TopIs(M, L, Top, Depth) /\ Inv2M(M)
  BY <1>1, Leaves, CalmHere
<1>3. Inv2M(r)
  <2> DEFINE m == M
             t == L
             b == Top
             n == Depth
  <2>1. /\ IsM(m) /\ InvM(m) /\ TopIs(m, t, b, n) /\ b.k = "prot" /\ m.mode = "return"
        /\ Inv2M(m)
    BY <1>1, <1>2
  <2>2. r = IF b.use = "resume" THEN Resumed(PopC(Restore(m, b)), b.t, "OK")
                                ELSE EndPcall(PopC(Restore(m, b)), b)
    OBVIOUS
  <2> HIDE DEF m, t, b, n, r
  <2>3. Inv2M(IF b.use = "resume" THEN Resumed(PopC(Restore(m, b)), b.t, "OK")
                                  ELSE EndPcall(PopC(Restore(m, b)), b))
    BY <2>1, ProtReturnedCalm
  <2> QED BY <2>2, <2>3
<1> HIDE DEF r
<1> QED BY <1>1, <1>3, Arrives2

LEMMA CatchYieldKeeps2 ==
  ASSUME IInv, IInv2, CatchYield
  PROVE  IInv2'
<1> DEFINE r == Resumed(CaughtAt(M, Handler, M.cs[Handler]), L, "YIELD")
<1>1. mode = "YIELD"
  BY DEF CatchYield
<1>2. /\ ThrowTop(M, L, Handler) /\ M.cs = cstack /\ M.mode = mode /\ M.th[L].status = "YIELD"
      /\ Calm(M.th, M.cs)
  BY <1>1, ThrowLeaves, CalmHere
<1>3. Go(r) /\ cstack[Handler].use = "resume"
  BY <1>2 DEF CatchYield, Caught, CaughtAt
<1>4. Inv2M(r)
  <2> DEFINE m == M
             t == L
             h == Handler
  <2>1. /\ IsM(m) /\ Throws(m.th, m.cs, h, t) /\ m.th[t].status = "YIELD"
        /\ m.cs[h].use = "resume" /\ Calm(m.th, m.cs)
    BY <1>2, <1>3 DEF ThrowTop
  <2>2. r = Resumed(CaughtAt(m, h, m.cs[h]), t, "YIELD")
    OBVIOUS
  <2> HIDE DEF m, t, h, r
  <2>3. Resumes(m.cs[h])
    BY <2>1 DEF Throws, Resumes
  <2>4. Inv2M(Resumed(CaughtAt(m, h, m.cs[h]), t, "YIELD"))
    BY <2>1, <2>3, YieldCaughtCalm
  <2> QED BY <2>2, <2>4
<1> HIDE DEF r
<1> QED BY <1>3, <1>4, Arrives2

LEMMA PrecoverKeeps2 ==
  ASSUME IInv, IInv2, Precover
  PROVE  IInv2'
<1> DEFINE i == FindPcall(th[L].ci)
           r == Recovered(M, Handler, L, i)
           q == Resumed(SetStatus(CaughtAt(M, Handler, M.cs[Handler]), L, "ERR"), L, "ERR")
<1>1. /\ ThrowTop(M, L, Handler) /\ M.th = th /\ M.th[L].status = "OK"
      /\ Resumes(M.cs[Handler]) /\ M.mode = "ERR"
  BY PrecoverIs
<1>2. (IF i # 0 THEN Go(r) ELSE Go(q)) /\ Calm(M.th, M.cs)
  BY PrecoverIs, CalmHere
<1> DEFINE m0 == M
           t == L
           h == Handler
<1>3. /\ IsM(m0) /\ Throws(m0.th, m0.cs, h, t) /\ Resumes(m0.cs[h]) /\ Calm(m0.th, m0.cs)
      /\ m0.th[t].status = "OK" /\ i = FindPcall(m0.th[t].ci)
  BY <1>1, <1>2 DEF ThrowTop
<1>4. /\ r = Recovered(m0, h, t, i)
      /\ q = Resumed(SetStatus(CaughtAt(m0, h, m0.cs[h]), t, "ERR"), t, "ERR")
  OBVIOUS
<1> HIDE DEF m0, t, h, i, q, r
<1>5. CASE i # 0
  <2>1. Inv2M(Recovered(m0, h, t, i))
    BY <1>3, <1>5, ErrorRecoveredCalm
  <2> QED BY <1>2, <1>4, <1>5, <2>1, Arrives2
<1>6. CASE i = 0
  <2>1. Inv2M(Resumed(SetStatus(CaughtAt(m0, h, m0.cs[h]), t, "ERR"), t, "ERR"))
    BY <1>3, ErrorKillsCalm
  <2> QED BY <1>2, <1>4, <1>6, <2>1, Arrives2
<1> QED BY <1>5, <1>6

LEMMA CatchErrorKeeps2 ==
  ASSUME IInv, IInv2, CatchError
  PROVE  IInv2'
<1> DEFINE r == CloseProtected(ErrorAt(M, Handler, L), L, M.cs[Handler].level, "ERR",
                               Caught2(M.cs[Handler]), M.cs[Handler].errfunc)
           m0 == M
           t == L
           h == Handler
<1>1. /\ ThrowTop(M, L, Handler) /\ M.th = th /\ M.th[L].status = "OK" /\ M.mode = "ERR"
      /\ ~Resumes(M.cs[Handler]) /\ Go(r) /\ Calm(M.th, M.cs)
  BY CatchErrorIs, CalmHere
<1>2. /\ IsM(m0) /\ Throws(m0.th, m0.cs, h, t) /\ ~Resumes(m0.cs[h]) /\ Calm(m0.th, m0.cs)
      /\ OnTop(m0.th[t].ci, m0.cs[Len(m0.cs)], Acts(m0.cs, t), "ERR")
      /\ m0.th[t].status = "OK"
  BY <1>1 DEF ThrowTop
<1>3. r = CloseProtected(ErrorAt(m0, h, t), t, m0.cs[h].level, "ERR", Caught2(m0.cs[h]),
                         m0.cs[h].errfunc)
  OBVIOUS
<1> HIDE DEF m0, t, h, r
<1>4. Inv2M(CloseProtected(ErrorAt(m0, h, t), t, m0.cs[h].level, "ERR", Caught2(m0.cs[h]),
                           m0.cs[h].errfunc))
  BY <1>2, ErrorCaughtCalm
<1> QED BY <1>1, <1>3, <1>4, Arrives2

LEMMA HostCallKeeps2 ==
  ASSUME IInv, IInv2, HostCall
  PROVE  IInv2'
<1> DEFINE a == Protect(M, MainThread, "pcall")
           m == PushC(M, a)
           t == MainThread
<1>1. cstack = <<>> /\ Go(Ccall(m, t, "nyci", None))
  BY DEF HostCall
<1>2. Begins(m, t, "nyci")
  BY <1>1, HostBegins
<1>3. /\ IsM(M) /\ M.th = th /\ M.cs = <<>> /\ ChainOf(<<>>) = {} /\ Core(M.th, <<>>)
      /\ Len(M.th[t].ci) = 0 /\ M.th[t].status = "OK" /\ t \in Threads /\ Calm(M.th, <<>>)
      /\ IsTh(M.th)
  BY <1>1, HostFacts, CalmHere DEF IsM, IsTh
<1>4. Len(M.th[t].tbclist) = 0
  BY <1>3 DEF Calm, Leftovers, Left
<1>5. /\ a \in Activation /\ a.k = "prot" /\ a.t = t /\ a.use = "pcall" /\ a.depth = 0
      /\ a.level = 0
  <2> DEFINE m0 == M
  <2>1. IsM(m0) /\ "pcall" \in {"resume", "pcall", "closep"} /\ Len(m0.th[t].ci) = 0
        /\ Len(m0.th[t].tbclist) = 0
    BY <1>3, <1>4
  <2> HIDE DEF m0
  <2>2. /\ Protect(m0, t, "pcall") \in Activation
        /\ Protect(m0, t, "pcall").k = "prot"
        /\ Protect(m0, t, "pcall").t = t
        /\ Protect(m0, t, "pcall").use = "pcall"
        /\ Protect(m0, t, "pcall").depth = Len(m0.th[t].ci)
    BY <1>3, <2>1, ProtectFacts
  <2>3. Protect(m0, t, "pcall").level = Len(m0.th[t].tbclist)
    BY ProtectLevel
  <2> QED BY <2>1, <2>2, <2>3 DEF m0
<1> HIDE DEF a
<1>6. ~Resumes(a) /\ ProtLevel(M.th[t].ci, a) /\ ~Runs(a)
  BY <1>5 DEF Resumes, ProtLevel, Runs
<1>7. IsM(m) /\ m.th = M.th /\ m.cs = Append(<<>>, a)
  BY <1>3, <1>5, PushCFacts
<1> HIDE DEF m
<1>8. Calm(m.th, m.cs)
  <2> DEFINE T == M.th
             C == <<>>
  <2>1. /\ Core(T, C) /\ Calm(T, C) /\ IsTh(T) /\ t \in Threads /\ t \notin ChainOf(C)
        /\ a \in Activation /\ a.k = "prot" /\ a.t = t /\ ProtLevel(T[t].ci, a)
    BY <1>3, <1>5, <1>6
  <2>2. Others(T, T, t)
    BY DEF Others
  <2>3. Tidy(T) /\ CILevels(T[t].ci)
    BY <2>1 DEF Calm, Levels
  <2> HIDE DEF T, C, t
  <2>4. Calm(T, Append(C, a))
    BY <2>1, <2>2, <2>3, BlockCalm
  <2> QED BY <1>7, <2>4 DEF T, C
<1>9. TopIs(m, t, a, 0)
  <2>1. Len(m.cs) = 1 /\ m.cs[1] = a
    BY <1>5, <1>7
  <2> QED BY <1>3, <1>5, <1>7, <2>1 DEF TopIs
<1>10. NotPending(m.th, None) /\ CallLow(m.th[t].ci, a, 0, Len(m.th[t].tbclist))
  <2>1. NotPending(m.th, None)
    BY <1>3, <1>7, NoneNotPending
  <2>2. BaseLevel(a) = 0
    BY <1>5, <1>6 DEF BaseLevel
  <2>3. Len(m.th[t].tbclist) = 0
    BY <1>4, <1>7
  <2> QED BY <1>6, <2>1, <2>2, <2>3 DEF CallLow
<1> HIDE DEF t
<1>11. Inv2M(Ccall(m, t, "nyci", None))
  <2>1. None \in Variables \cup {None}
    OBVIOUS
  <2> QED BY <1>2, <1>8, <1>9, <1>10, <2>1, CcallCalm
<1> QED BY <1>1, <1>11, Arrives2

LEMMA HostResumeKeeps2 ==
  ASSUME IInv, IInv2, NEW t \in Threads, HostResume(t)
  PROVE  IInv2'
<1>1. /\ cstack = <<>> /\ t # MainThread /\ (th[t].status = "YIELD" \/ th[t].body)
      /\ Go(ResumeThread(M, t, th[MainThread].nCcalls))
  BY DEF HostResume
<1>2. /\ IsM(M) /\ M.th = th /\ M.cs = <<>> /\ Len(M.cs) = 0 /\ ChainOf(<<>>) = {}
      /\ Core(M.th, M.cs) /\ Live(M.th, M.cs) /\ Cnt(M.cs, 0) = 0 /\ th[MainThread].nCcalls = 0
      /\ Calm(M.th, M.cs)
  BY <1>1, HostFacts, CalmHere
<1>3. Caller(M)
  BY <1>2 DEF Caller
<1>4. Inv2M(ResumeThread(M, t, th[MainThread].nCcalls))
  <2> DEFINE m == M
             c == th[MainThread].nCcalls
  <2>1. /\ IsM(m) /\ Core(m.th, m.cs) /\ Live(m.th, m.cs) /\ Caller(m) /\ t \notin ChainOf(m.cs)
        /\ m.th[t].status = "YIELD" \/ m.th[t].body
    BY <1>1, <1>2, <1>3
  <2>2. th[t].status = m.th[t].status /\ c \in Nat /\ c = Cnt(m.cs, Len(m.cs)) /\ Calm(m.th, m.cs)
    BY <1>2
  <2> HIDE DEF m, c
  <2>3. Inv2M(ResumeThread(m, t, c))
    BY <1>1, <2>1, <2>2, ThreadResumedCalm
  <2> QED BY <2>3 DEF m, c
<1> QED BY <1>1, <1>4, Arrives2

LEMMA Inv2Init ==
  ASSUME Init
  PROVE  IInv2
<1>1. \A t \in Threads : /\ th[t].ci = <<>> /\ th[t].tbclist = <<>> /\ th[t].status = "OK"
  BY DEF Init, NewThread
<1>2. \A t \in Threads : Len(th[t].ci) = 0 /\ Len(th[t].tbclist) = 0
  BY <1>1
<1>3. Len(cstack) = 0
  BY DEF Init
<1>4. Tidy(th)
  BY <1>2 DEF Tidy, Once, Awake
<1>5. Levels(th)
  BY <1>2 DEF Levels, CILevels
<1>6. ActLevels(th, cstack) /\ Returns(th, cstack, mode)
  BY <1>3 DEF ActLevels, Returns
<1>7. Leftovers(th, cstack)
  BY <1>1, <1>2 DEF Leftovers, Left
<1> QED BY <1>4, <1>5, <1>6, <1>7 DEF IInv2, Inv2, Calm

LEMMA Inv2Next ==
  ASSUME "close main" \notin Functions, IInv, IInv2, [Next]_vars
  PROVE  IInv2'
<1>1. CASE Program
  BY Zenon, <1>1, CallLuaKeeps2, CallMetamethodKeeps2, CallBackKeeps2, PCallKeeps2, ErrorKeeps2,
     EndBlockKeeps2, ReturnKeeps2, YieldKeeps2, NewTbcKeeps2, CreateKeeps2, CloseCoroutineKeeps2,
     ResumeKeeps2 DEF Program
<1>2. CASE Machine
  BY Zenon, <1>2, CloseVariablesKeeps2, FinishOpKeeps2, CloseNextKeeps2, EndOpCloseKeeps2,
     EndFinishpcallkKeeps2, EndCloseProtectedKeeps2, CallReturnsKeeps2, ReturnToProtKeeps2,
     ReturnToCKeeps2, UnrollEndKeeps2, UnrollLuaKeeps2, UnrollCKeeps2, ProtReturnsKeeps2,
     CatchYieldKeeps2, PrecoverKeeps2, CatchErrorKeeps2 DEF Machine
<1>3. CASE Host
  BY Zenon, <1>3, HostCallKeeps2, HostResumeKeeps2 DEF Host
<1>4. CASE UNCHANGED vars
  BY Zenon, <1>4 DEF vars, IInv2
<1> QED BY Zenon, <1>1, <1>2, <1>3, <1>4 DEF Next

\* Which variables are pending at which level, and with what status a thread
\* leaves the C stack, in every reachable state of every program (luaF_close,
\* luaD_pcall, lua_resume): the second invariant, with the first.
THEOREM ClosingStructure ==
  ASSUME "close main" \notin Functions
  PROVE  Spec => [](IInv /\ IInv2)
<1>1. Init => IInv /\ IInv2
  BY Zenon, InvInit, Inv2Init
<1>2. IInv /\ IInv2 /\ [Next]_vars => (IInv /\ IInv2)'
  BY Zenon, InvNext, Inv2Next
<1> QED BY <1>1, <1>2, PTL DEF Spec

-----------------------------------------------------------------------------
(* What it says *)

LEMMA InvStatusTrue == IInv /\ IInv2 => StatusTrue
<1> SUFFICES ASSUME IInv, IInv2, LuaRuns, NEW t \in Threads
             PROVE  AuxStatus(t) =
                      IF t = L THEN "running"
                      ELSE IF t \in Chain THEN "normal"
                      ELSE IF th[t].body \/ (th[t].ci # <<>> /\ Last(th[t].ci).func = "yield")
                           THEN "suspended"
                      ELSE "dead"
  BY ThreadsAre DEF StatusTrue
<1>1. StatusOf(th, cstack, t) /\ Chain = ChainOf(cstack) /\ Awake(th)
  BY ChainIs, CalmHere DEF IInv, Inv, Core, States, Calm, Tidy
<1>2. /\ Core(th, cstack) /\ th[t].ci \in Seq(CallInfo) /\ th[t].status \in {"OK", "YIELD", "ERR"}
      /\ Last(cstack) = cstack[Len(cstack)] /\ L = Last(cstack).t
  <2>1. Core(th, cstack) /\ IsTh(th)
    BY Leaves DEF LuaRuns
  <2>2. th[t] \in LuaState
    BY <2>1 DEF IsTh
  <2> QED BY <2>1, <2>2 DEF LuaState, Last, L, Top
<1> DEFINE ci == th[t].ci
           n  == Len(ci)
<1>3. (ci # <<>> <=> n > 0) /\ Last(ci) = ci[n] /\ n \in Nat
  BY <1>2 DEF Last
<1> HIDE DEF ci
<1>4. CASE t = L
  BY <1>4 DEF AuxStatus
<1>5. CASE t # L /\ t \in Chain
  <2>1. th[t].status = "OK"
    BY <1>1, <1>2, <1>5 DEF StatusOf
  <2>2. n > 0
    BY <1>1, <1>2, <1>5, WaitingCalls DEF ci
  <2>3. AuxStatus(t) = "normal"
    BY <1>3, <1>5, <2>1, <2>2 DEF AuxStatus, ci
  <2> QED BY <1>5, <2>3
<1>6. CASE t # L /\ t \notin Chain /\ th[t].status = "YIELD"
  <2>1. n > 0 /\ ci[n].func = "yield"
    BY <1>1, <1>6 DEF StatusOf, Suspended, ci
  <2>2. AuxStatus(t) = "suspended"
    BY <1>6 DEF AuxStatus
  <2> QED BY <1>3, <1>6, <2>1, <2>2 DEF ci
<1>7. CASE t # L /\ t \notin Chain /\ th[t].status = "OK"
  <2>1. ~(n > 0)
    BY <1>1, <1>7 DEF StatusOf, ci
  <2> QED BY <1>3, <1>7, <2>1 DEF AuxStatus, ci
<1>8. CASE t # L /\ t \notin Chain /\ th[t].status = "ERR"
  <2>1. ~th[t].body
    BY <1>1, <1>8 DEF StatusOf
  <2>2. n > 0 => ci[n].func # "yield"
    <3>1. \A i \in 1 .. n : ci[i].func # "yield"
      BY <1>1, <1>8 DEF Awake, ci
    <3>2. n > 0 => n \in 1 .. n
      BY <1>3
    <3> QED BY <3>1, <3>2
  <2>3. AuxStatus(t) = "dead"
    BY <1>8 DEF AuxStatus
  <2> QED BY <1>3, <1>8, <2>1, <2>2, <2>3 DEF ci
<1> QED BY <1>2, <1>4, <1>5, <1>6, <1>7, <1>8

LEMMA InvClosedOnce == IInv /\ IInv2 => ClosedOnce
<1> SUFFICES ASSUME IInv, IInv2
             PROVE  ClosedOnce
  OBVIOUS
<1>1. /\ DOMAIN th = Threads /\ Chain = ChainOf(cstack) /\ Once(th) /\ Leftovers(th, cstack)
      /\ th \in [Threads -> LuaState]
  BY ThreadsAre, ChainIs, CalmHere DEF Calm, Tidy, IInv, Inv, Core, Types
<1>2. ASSUME NEW t \in Threads
      PROVE  th[t].ci \in Seq(CallInfo) /\ th[t].tbclist \in Seq(Variables)
  BY <1>1, <1>2 DEF LuaState
<1>3. ASSUME NEW t \in Threads, NEW u \in Threads, NEW i \in DOMAIN th[t].ci
      PROVE  th[t].ci[i].of \notin ToSet(th[u].tbclist)
  <2>1. DOMAIN th[t].ci = 1 .. Len(th[t].ci) /\ DOMAIN th[u].tbclist = 1 .. Len(th[u].tbclist)
    BY <1>2, <1>3
  <2>2. \A j \in 1 .. Len(th[u].tbclist) : th[t].ci[i].of # th[u].tbclist[j]
    BY <1>1, <1>3, <2>1 DEF Once
  <2> QED BY <2>1, <2>2 DEF ToSet
<1>4. ASSUME NEW t \in Threads \ Chain, th[t].status = "OK"
      PROVE  th[t].tbclist = <<>>
  <2>1. Len(th[t].tbclist) = 0
    BY <1>1, <1>4 DEF Leftovers, Left
  <2> QED BY <1>2, <1>4, <2>1
<1> QED BY <1>1, <1>3, <1>4 DEF ClosedOnce

\* auxstatus tells the truth: what lua_resume, lua_yieldk, luaE_resetthread and
\* the unwinding of errors leave in the status and the CallInfos of a coroutine
\* says whether it runs, waits in the C stack, is suspended, or is dead.
THEOREM StatusIsTrue ==
  ASSUME "close main" \notin Functions
  PROVE  Spec => []StatusTrue
<1>1. Spec => [](IInv /\ IInv2)
  BY Zenon, ClosingStructure
<1>2. IInv /\ IInv2 => StatusTrue
  BY Zenon, InvStatusTrue
<1> QED BY <1>1, <1>2, PTL

\* luaF_close takes a variable off the list before it calls its __close, and no
\* thread has it there again while the method runs, whichever of a return, an
\* error, a yield or coroutine.close reached it first; a coroutine that ended
\* without an error, or was closed, has no variable left to close.
THEOREM VariablesClosedOnce ==
  ASSUME "close main" \notin Functions
  PROVE  Spec => []ClosedOnce
<1>1. Spec => [](IInv /\ IInv2)
  BY Zenon, ClosingStructure
<1>2. IInv /\ IInv2 => ClosedOnce
  BY Zenon, InvClosedOnce
<1> QED BY <1>1, <1>2, PTL

-----------------------------------------------------------------------------
(* Leaving a function.  A step that keeps the functions of a thread Stays, *)
(* one that ends a function leaves nothing of it pending; LeftClean is     *)
(* what both give for the thread that runs.                                *)

Stays(T, T2, u) == IsTh(T2) /\ Len(T2[u].ci) >= Len(T[u].ci)

LEMMA StaysSame ==
  ASSUME NEW T, IsTh(T), NEW T2, IsTh(T2), NEW u \in Threads, T2[u].ci = T[u].ci
  PROVE  Stays(T, T2, u)
<1>1. Len(T[u].ci) \in Nat
  BY ThreadFields DEF IsTh
<1> QED BY <1>1 DEF Stays

LEMMA StaysTwice ==
  ASSUME NEW T, IsTh(T), NEW T1, NEW T2, NEW u \in Threads, Stays(T, T1, u), Stays(T1, T2, u)
  PROVE  Stays(T, T2, u)
<1>1. Len(T[u].ci) \in Nat /\ Len(T1[u].ci) \in Nat /\ Len(T2[u].ci) \in Nat
  BY ThreadFields DEF IsTh, Stays
<1> QED BY <1>1 DEF Stays

LEMMA StaysOther ==
  ASSUME NEW T, IsTh(T), NEW T2, IsTh(T2), NEW t, Others(T, T2, t), NEW u \in Threads, u # t
  PROVE  Stays(T, T2, u)
<1>1. T2[u] = T[u]
  BY DEF Others
<1> QED BY <1>1, StaysSame

LEMMA StaysPushed ==
  ASSUME NEW T, IsTh(T), NEW T2, IsTh(T2), NEW u \in Threads, NEW f,
         T2[u].ci = Append(T[u].ci, f)
  PROVE  Stays(T, T2, u)
<1>1. T[u].ci \in Seq(CallInfo) /\ Len(T[u].ci) \in Nat
  BY ThreadFields DEF IsTh
<1>2. Len(T2[u].ci) = Len(T[u].ci) + 1
  BY <1>1
<1> QED BY <1>1, <1>2 DEF Stays

LEMMA FrameStays ==
  ASSUME NEW m, IsM(m), NEW t \in Threads, NEW f \in CallInfo
  PROVE  Stays(m.th, PushCI(m, t, f).th, t)
<1>1. OnlyCI(m, PushCI(m, t, f), t) /\ PushCI(m, t, f).th[t].ci = Append(m.th[t].ci, f)
  BY PushCIFacts
<1>2. IsTh(m.th) /\ IsTh(PushCI(m, t, f).th)
  BY <1>1, MachineParts DEF OnlyCI
<1> QED BY <1>1, <1>2, StaysPushed

LEMMA CcallStays ==
  ASSUME NEW m, IsM(m), NEW t \in Threads, NEW inc \in {"none", "yieldable", "nyci"},
         NEW of \in Variables \cup {None}, NEW u \in Threads
  PROVE  Stays(m.th, Ccall(m, t, inc, of).th, u)
<1> DEFINE m2 == Ccall(m, t, inc, of)
<1>1. CallGives(m, m2, t, inc, of)
  BY CallGivesIt
<1> HIDE DEF m2
<1>2. IsTh(m.th) /\ IsTh(m2.th) /\ Others(m.th, m2.th, t)
  BY <1>1, MachineParts DEF CallGives, Moves
<1>3. CASE u # t
  BY <1>2, <1>3, StaysOther DEF m2
<1>4. CASE m2.th[t].ci = m.th[t].ci /\ u = t
  BY SMTT(20), <1>2, <1>4, StaysSame DEF m2
<1>5. CASE m2.th[t].ci = Append(m.th[t].ci, CallFrame(m.th[t], of)) /\ u = t
  BY <1>2, <1>5, StaysPushed DEF m2
<1> QED BY <1>1, <1>3, <1>4, <1>5 DEF CallGives

\* the thread that runs does not leave its function, or leaves it clean
LeftClean ==
  \/ Len(th'[L].ci) >= Depth
  \/ Len(th'[L].tbclist) <= th[L].ci[Depth].level

LEMMA StaysHere ==
  ASSUME IInv, NEW m, Go(m), Stays(M.th, m.th, L)
  PROVE  LeftClean
<1>1. th' = m.th /\ M.th = th
  BY MFacts DEF Go
<1> QED BY <1>1 DEF LeftClean, Stays, Depth

LEMMA ClosedHere ==
  ASSUME IInv, NEW m, Go(m), Len(m.th[L].tbclist) <= M.th[L].ci[Depth].level
  PROVE  LeftClean
<1>1. th' = m.th /\ M.th = th
  BY MFacts DEF Go
<1> QED BY <1>1 DEF LeftClean

LEMMA CallLuaClean ==
  ASSUME IInv, CallLua
  PROVE  LeftClean
<1>1. LuaRuns /\ Go(PushCI(M, L, Frame("lua", Level(L))))
  BY DEF CallLua, MayAct
<1>2. IsM(M) /\ L \in Threads /\ Level(L) \in Nat
  BY <1>1, LuaLeaves
<1>3. Frame("lua", Level(L)) \in CallInfo
  BY <1>2, FrameFields
<1> QED BY <1>1, <1>2, <1>3, FrameStays, StaysHere

LEMMA CallMetamethodClean ==
  ASSUME IInv, CallMetamethod
  PROVE  LeftClean
<1>1. LuaRuns /\ Go(Ccall(M, L, "yieldable", None))
  BY DEF CallMetamethod, Uses, MayAct
<1>2. IsM(M) /\ L \in Threads
  BY <1>1, LuaLeaves
<1>3. Stays(M.th, Ccall(M, L, "yieldable", None).th, L)
  BY <1>2, CcallStays
<1> QED BY <1>1, <1>3, StaysHere

\* a C function is called, and it calls back
LEMMA CallBackStays ==
  ASSUME NEW m, IsM(m), NEW t \in Threads, NEW m1, IsM(m1), Stays(m.th, m1.th, t),
         NEW inc \in {"none", "yieldable", "nyci"}
  PROVE  Stays(m.th, Ccall(m1, t, inc, None).th, t)
<1>1. Stays(m1.th, Ccall(m1, t, inc, None).th, t)
  BY CcallStays
<1> QED BY <1>1, MachineParts, StaysTwice

LEMMA CallBackClean ==
  ASSUME IInv, CallBack
  PROVE  LeftClean
<1> DEFINE m1 == PushCI(M, L, Frame("call", Level(L)))
<1>1. LuaRuns /\ Go(Ccall(m1, L, "nyci", None))
  BY DEF CallBack, Uses, MayAct
<1>2. IsM(M) /\ L \in Threads /\ Level(L) \in Nat
  BY <1>1, LuaLeaves
<1>3. Frame("call", Level(L)) \in CallInfo
  BY <1>2, FrameFields DEF CFunctions
<1>4. Stays(M.th, m1.th, L) /\ IsM(m1)
  BY <1>2, <1>3, FrameStays, PushCIFacts DEF OnlyCI
<1> HIDE DEF m1
<1>5. Stays(M.th, Ccall(m1, L, "nyci", None).th, L)
  BY <1>2, <1>4, CallBackStays
<1> QED BY <1>1, <1>5, StaysHere

LEMMA SetErrStays ==
  ASSUME NEW m, IsM(m), NEW t \in Threads, NEW f \in CallInfo, NEW e \in Nat
  PROVE  LET m2 == SetErr(PushCI(m, t, f), t, e)
         IN  IsM(m2) /\ Stays(m.th, m2.th, t)
<1> DEFINE m1 == PushCI(m, t, f)
           m2 == SetErr(m1, t, e)
<1>1. IsM(m1) /\ Stays(m.th, m1.th, t)
  BY FrameStays, PushCIFacts DEF OnlyCI
<1> HIDE DEF m1
<1>2. IsM(m2) /\ m2.th[t].ci = m1.th[t].ci
  BY <1>1, SetErrFacts DEF OnlyCI
<1> HIDE DEF m2
<1>3. Stays(m1.th, m2.th, t)
  BY <1>1, <1>2, MachineParts, StaysSame
<1>4. Stays(m.th, m2.th, t)
  BY <1>1, <1>3, MachineParts, StaysTwice
<1> QED BY <1>2, <1>4 DEF m2, m1

LEMMA PCallClean ==
  ASSUME IInv, PCall
  PROVE  LeftClean
<1> DEFINE lv == Level(L)
           e  == th[L].errfunc
           f  == Frame("pcall", lv)
           g  == PcallFrame(lv, e)
           m1 == SetErr(PushCI(M, L, f), L, Depth + 1)
           my == SetErr(PushCI(M, L, g), L, Depth + 1)
           p  == PcallProt(PushCI(M, L, f), L, e)
<1>1. /\ LuaRuns
      /\ IF Yieldable(L) THEN Go(Ccall(my, L, "yieldable", None))
                         ELSE Go(Ccall(PushC(m1, p), L, "nyci", None))
  BY DEF PCall, Uses, MayAct, PcallFrame, PcallProt, Depth, SetErr
<1>2. IsM(M) /\ L \in Threads /\ lv \in Nat /\ e \in Nat /\ Depth + 1 \in Nat
  <2>1. LuaTop(M, L, Top, Depth) /\ Depth \in Nat /\ L \in Threads /\ lv \in Nat /\ IsM(M)
    BY <1>1, LuaLeaves
  <2>2. e \in Nat
    BY <1>1, LuaLeaves DEF LuaState
  <2> QED BY <2>1, <2>2
<1>3. f \in CallInfo /\ g \in CallInfo
  BY <1>2, FrameFields, PcallFrameFields DEF CFunctions
<1>4. IsM(PushCI(M, L, f))
  BY <1>2, <1>3, PushCIFacts DEF OnlyCI
<1>5. p \in Activation
  BY <1>2, <1>4, PcallProtFields
<1> HIDE DEF f, g, p
<1>6. IsM(m1) /\ Stays(M.th, m1.th, L) /\ IsM(my) /\ Stays(M.th, my.th, L)
  BY <1>2, <1>3, SetErrStays
<1> HIDE DEF m1, my
<1>7. CASE Yieldable(L)
  <2>1. Stays(M.th, Ccall(my, L, "yieldable", None).th, L)
    BY <1>2, <1>6, CallBackStays
  <2> QED BY <1>1, <1>7, <2>1, StaysHere
<1>8. CASE ~Yieldable(L)
  <2>1. IsM(PushC(m1, p)) /\ PushC(m1, p).th = m1.th
    BY <1>5, <1>6, PushCFacts
  <2>2. Stays(M.th, PushC(m1, p).th, L)
    BY <1>6, <2>1
  <2>3. Stays(M.th, Ccall(PushC(m1, p), L, "nyci", None).th, L)
    BY <1>2, <2>1, <2>2, CallBackStays
  <2> QED BY <1>1, <1>8, <2>3, StaysHere
<1> QED BY <1>7, <1>8

\* a step that leaves the functions of the thread alone
LEMMA SameHere ==
  ASSUME IInv, cstack # <<>>, NEW m, Go(m), m.th[L].ci = th[L].ci
  PROVE  LeftClean
<1>1. Depth \in Nat /\ th'[L].ci = th[L].ci
  BY Leaves DEF Go
<1> QED BY <1>1 DEF LeftClean, Depth

LEMMA ErrorClean ==
  ASSUME IInv, Error
  PROVE  LeftClean
<1>1. cstack # <<>> /\ Go(In(M, "ERR"))
  BY DEF Error, MayAct, LuaRuns
<1>2. In(M, "ERR").th = th
  BY MFacts, InFacts
<1> QED BY <1>1, <1>2, SameHere

LEMMA NewTbcClean ==
  ASSUME IInv, NEW v \in Variables, NewTbc(v)
  PROVE  LeftClean
<1> DEFINE m == [M EXCEPT !.th[L].tbclist = Append(@, v)]
<1>1. cstack # <<>> /\ Go(m)
  BY DEF NewTbc, MayAct, LuaRuns
<1>2. M.th = th /\ IsM(M) /\ L \in Threads /\ th[L] \in LuaState
  BY <1>1, Leaves
<1>3. m.th[L].ci = th[L].ci
  BY <1>2 DEF IsM, LuaState
<1> HIDE DEF m
<1> QED BY <1>1, <1>3, SameHere

LEMMA OpClean ==
  ASSUME IInv, LuaRuns, NEW op, NEW upto, Go(OpSet(M, L, Depth, op, upto))
  PROVE  LeftClean
<1>1. M.th = th /\ IsM(M) /\ L \in Threads /\ th[L] \in LuaState /\ Depth \in Nat
  BY LuaLeaves
<1>2. Len(OpSet(M, L, Depth, op, upto).th[L].ci) = Depth
  <2>1. OpSet(M, L, Depth, op, upto).th[L].ci
          = [th[L].ci EXCEPT ![Depth].op = op, ![Depth].upto = upto]
    BY <1>1 DEF OpSet, IsM, LuaState
  <2>2. th[L].ci \in Seq(CallInfo)
    BY <1>1 DEF LuaState
  <2>3. Len([th[L].ci EXCEPT ![Depth].op = op, ![Depth].upto = upto]) = Len(th[L].ci)
    BY <2>2
  <2> QED BY <2>1, <2>3 DEF Depth
<1>3. th' = OpSet(M, L, Depth, op, upto).th
  BY DEF Go
<1> QED BY <1>1, <1>2, <1>3 DEF LeftClean

LEMMA YieldClean ==
  ASSUME IInv, Yield
  PROVE  LeftClean
<1> DEFINE f  == Frame("yield", Level(L))
           m1 == SetStatus(M, L, "YIELD")
<1>1. LuaRuns /\ Go(In(PushCI(m1, L, f), "YIELD"))
  BY DEF Yield, MayAct, SetStatus
<1>2. IsM(M) /\ L \in Threads /\ Level(L) \in Nat
  BY <1>1, LuaLeaves
<1>3. f \in CallInfo
  BY <1>2, FrameFields
<1>4. IsM(m1) /\ m1.th[L].ci = M.th[L].ci
  BY <1>2, SetStatusFacts
<1> HIDE DEF m1, f
<1>5. Stays(M.th, m1.th, L) /\ Stays(m1.th, PushCI(m1, L, f).th, L) /\ IsM(PushCI(m1, L, f))
  BY <1>2, <1>3, <1>4, MachineParts, StaysSame, FrameStays, PushCIFacts DEF OnlyCI
<1>6. Stays(M.th, PushCI(m1, L, f).th, L)
  BY <1>2, <1>5, MachineParts, StaysTwice
<1>7. Stays(M.th, In(PushCI(m1, L, f), "YIELD").th, L)
  BY <1>5, <1>6, InFacts
<1> QED BY <1>1, <1>7, StaysHere

LEMMA CloseVariablesClean ==
  ASSUME IInv, CloseVariables
  PROVE  LeftClean
<1> DEFINE m == Close(M, L, F.upto, "OK", TRUE)
<1>1. cstack # <<>> /\ Go(m)
  BY DEF CloseVariables, LuaRuns
<1>2. m.th = th
  BY DEF Close, PushC, In, M
<1> HIDE DEF m
<1> QED BY <1>1, <1>2, SameHere

LEMMA NotRunning ==
  ASSUME IInv, cstack # <<>>, NEW t, t \notin ChainOf(cstack)
  PROVE  L # t
<1>1. Len(cstack) > 0 /\ Top = cstack[Len(cstack)] /\ cstack \in Seq(Activation)
  BY Leaves DEF Core, Types
<1>2. Len(cstack) \in 1 .. Len(cstack)
  BY <1>1
<1>3. L = cstack[Len(cstack)].t
  BY <1>1 DEF L
<1> QED BY <1>2, <1>3 DEF ChainOf

LEMMA CreateClean ==
  ASSUME IInv, NEW t \in Threads, Create(t)
  PROVE  LeftClean
<1> DEFINE m == SetT(M, t, [NewThread EXCEPT !.body = TRUE])
<1>1. cstack # <<>> /\ ~ \E i \in DOMAIN cstack : cstack[i].t = t /\ Go(m)
  BY DEF Create, MayAct, SetT, LuaRuns
<1>2. M.th = th /\ IsM(M) /\ L \in Threads /\ cstack \in Seq(Activation) /\ Go(m)
  BY <1>1, Leaves DEF Core, Types, Create, SetT
<1>3. t \notin ChainOf(cstack)
  <2>1. DOMAIN cstack = 1 .. Len(cstack)
    BY <1>2
  <2>2. ~ \E i \in DOMAIN cstack : cstack[i].t = t
    BY DEF Create
  <2> QED BY <2>1, <2>2 DEF ChainOf
<1>4. L # t
  BY <1>1, <1>3, NotRunning
<1>5. m.th[L].ci = th[L].ci
  BY <1>2, <1>4 DEF SetT, IsM
<1> HIDE DEF m
<1> QED BY <1>1, <1>2, <1>5, SameHere

\* what a resume or a close does to another thread
LEMMA PoppedOther ==
  ASSUME NEW m, IsM(m), NEW t \in Threads, NEW u \in Threads, u # t
  PROVE  PopCI(m, t).th[u] = m.th[u]
  BY DEF PopCI, IsM

LEMMA ResumeStays ==
  ASSUME NEW m, IsM(m), NEW t \in Threads, NEW c \in Nat, NEW u \in Threads, u # t
  PROVE  Len(ResumeThread(m, t, c).th[u].ci) >= Len(m.th[u].ci)
<1> DEFINE m1 == ResumeProt(m, t, c)
           m2 == SetBody(m1, t)
           m3 == SetStatus(m1, t, "OK")
<1>1. IsM(m1) /\ m1.th[u] = m.th[u]
  BY ResumeProtFacts DEF ResumeBegun, Others
<1> HIDE DEF m1
<1>2. IsM(m2) /\ m2.th[u] = m1.th[u]
  <2>1. IsM(m2) /\ Others(m1.th, m2.th, t)
    BY <1>1, SetBodyFacts
  <2> QED BY <2>1 DEF Others
<1>3. IsM(m3) /\ m3.th[u] = m1.th[u]
  BY <1>1, SetStatusFacts DEF Others
<1> HIDE DEF m2, m3
<1>4. ResumeThread(m, t, c) =
        IF th[t].status = "OK" THEN Ccall(m2, t, "none", None)
        ELSE In(PushC(PopCI(m3, t), Blank(t)), "return")
  BY ResumeIs DEF m2, m3, m1
<1>5. Len(m.th[u].ci) \in Nat
  BY MachineParts, ThreadFields DEF IsTh
<1>6. CASE th[t].status = "OK"
  <2>1. Stays(m2.th, Ccall(m2, t, "none", None).th, u)
    BY <1>2, CcallStays
  <2> QED BY <1>1, <1>2, <1>4, <1>6, <2>1 DEF Stays
<1>7. CASE th[t].status # "OK"
  <2>1. PopCI(m3, t).th[u] = m3.th[u]
    BY <1>3, PoppedOther
  <2>2. In(PushC(PopCI(m3, t), Blank(t)), "return").th = PopCI(m3, t).th
    BY <1>3 DEF In, PushC, PopCI, IsM
  <2>3. ResumeThread(m, t, c) = In(PushC(PopCI(m3, t), Blank(t)), "return")
    BY <1>4, <1>7
  <2>4. ResumeThread(m, t, c).th[u] = m.th[u]
    BY <1>1, <1>3, <2>1, <2>2, <2>3
  <2> QED BY <1>5, <2>4
<1> QED BY <1>6, <1>7

LEMMA ResumeClean ==
  ASSUME IInv, NEW t \in Threads, NEW func \in {"resume", "wrap"}, Resume(t, func)
  PROVE  LeftClean
<1> DEFINE f  == Frame(func, Level(L))
           m1 == PushCI(M, L, f)
           m2 == ResumeThread(m1, t, th[L].nCcalls)
<1>1. LuaRuns /\ AuxStatus(t) = "suspended" /\ Go(m2)
  BY DEF Resume, Uses, MayAct
<1>2. /\ IsM(M) /\ L \in Threads /\ Level(L) \in Nat /\ th[L] \in LuaState /\ M.th = th
      /\ Depth \in Nat /\ cstack # <<>>
  BY <1>1, LuaLeaves DEF LuaRuns
<1>3. L # t /\ th[L].nCcalls \in Nat
  BY <1>1, <1>2, NotInChain, NotRunning DEF LuaState
<1>4. f \in CallInfo
  BY <1>2, FrameFields DEF CFunctions
<1>5. IsM(m1) /\ Stays(M.th, m1.th, L)
  BY <1>2, <1>4, FrameStays, PushCIFacts DEF OnlyCI
<1> HIDE DEF m1, f
<1>6. Len(m2.th[L].ci) >= Len(m1.th[L].ci)
  BY <1>2, <1>3, <1>5, ResumeStays
<1> HIDE DEF m2
<1>7. Len(m2.th[L].ci) >= Len(th[L].ci)
  <2>1. Len(m1.th[L].ci) \in Nat /\ Len(m1.th[L].ci) >= Len(th[L].ci)
    BY <1>2, <1>5, ThreadFields DEF Stays, IsTh
  <2>2. Len(th[L].ci) \in Nat
    BY <1>2 DEF Depth
  <2>3. Len(m2.th[L].ci) \in Nat
    <3>1. IInv'
      BY ResumeKeeps
    <3>2. IsTh(th')
      BY <3>1 DEF IInv, Inv, Core, Types, IsTh
    <3>3. th' = m2.th
      BY <1>1 DEF Go
    <3> QED BY <1>2, <3>2, <3>3, ThreadFields DEF IsTh
  <2> DEFINE x == Len(th[L].ci)
             y == Len(m1.th[L].ci)
             z == Len(m2.th[L].ci)
  <2>4. x \in Nat /\ y \in Nat /\ z \in Nat /\ y >= x /\ z >= y
    BY <1>6, <2>1, <2>2, <2>3
  <2> HIDE DEF x, y, z
  <2>5. z >= x
    BY <2>4
  <2> QED BY <2>5 DEF x, z
<1> QED BY <1>1, <1>7 DEF LeftClean, Go, Depth

LEMMA ResetOther ==
  ASSUME NEW m, IsM(m), NEW t \in Threads, NEW c \in Threads, NEW then, NEW u \in Threads, u # t
  PROVE  ResetThread(m, t, c, then).th[u] = m.th[u]
<1> DEFINE m1 == ResetFirst(m, t, c)
<1>1. IsM(m1) /\ m1.th[u] = m.th[u]
  <2>1. ResetState(m.th[t], m.th[c].nCcalls) \in LuaState
    BY MachineParts, ThreadFields, ResetStateFields DEF IsTh
  <2>2. IsM(m1) /\ Others(m.th, m1.th, t)
    BY <2>1, SetTFacts DEF ResetFirst
  <2> HIDE DEF m1
  <2> QED BY <2>2 DEF Others
<1>2. PICK status \in {"OK", "ERR"} : ResetThread(m, t, c, then) = ResetTo(m, t, c, then, status)
  BY ResetIs
<1>3. ResetTo(m, t, c, then, status).th = m1.th
  BY <1>1 DEF ResetTo, Close, PushC, In, IsM
<1> HIDE DEF m1
<1> QED BY <1>1, <1>2, <1>3

LEMMA CloseCoroutineClean ==
  ASSUME IInv, NEW t \in Threads, CloseCoroutine(t)
  PROVE  LeftClean
<1> DEFINE f  == Frame("close", Level(L))
           m1 == PushCI(M, L, f)
           m2 == ResetThread(m1, t, L, "close")
<1>1. LuaRuns /\ (AuxStatus(t) = "suspended" \/ AuxStatus(t) = "dead") /\ Go(m2)
  BY Zenon DEF CloseCoroutine, Uses, MayAct
<1>2. IsM(M) /\ L \in Threads /\ Level(L) \in Nat /\ M.th = th /\ Depth \in Nat /\ cstack # <<>>
  BY <1>1, LuaLeaves DEF LuaRuns
<1>3. L # t
  BY <1>1, <1>2, NotInChain, NotRunning
<1>4. f \in CallInfo
  BY <1>2, FrameFields DEF CFunctions
<1>5. IsM(m1) /\ Stays(M.th, m1.th, L)
  BY <1>2, <1>4, FrameStays, PushCIFacts DEF OnlyCI
<1> HIDE DEF m1, f
<1>6. m2.th[L] = m1.th[L]
  BY <1>2, <1>3, <1>5, ResetOther
<1> HIDE DEF m2
<1>7. Len(m2.th[L].ci) >= Len(M.th[L].ci)
  BY <1>5, <1>6 DEF Stays
<1>8. th'[L] = m2.th[L]
  BY <1>1 DEF Go
<1> QED BY <1>2, <1>7, <1>8 DEF LeftClean, Depth

LEMMA CloseNextClean ==
  ASSUME IInv, CloseNext
  PROVE  LeftClean
<1> DEFINE m1  == [M EXCEPT !.th[L].tbclist = Front(@)]
           inc == IF Top.yy THEN "yieldable" ELSE "nyci"
           of  == Last(th[L].tbclist)
<1>1. At("close", "run") /\ Level(L) > Top.level /\ Go(Ccall(m1, L, inc, of))
  BY DEF CloseNext
<1>2. /\ IsM(M) /\ M.th = th /\ L \in Threads /\ th[L] \in LuaState /\ cstack # <<>>
      /\ Top \in Activation
  BY <1>1, Leaves DEF At
<1>3. th[L].tbclist \in Seq(Variables) /\ Len(th[L].tbclist) > 0
  <2>1. Top.level \in Nat
    BY <1>2, ActivationFields
  <2>2. Level(L) = Len(th[L].tbclist) /\ th[L].tbclist \in Seq(Variables)
    BY <1>2 DEF LuaState, Level
  <2> QED BY <1>1, <2>1, <2>2
<1>4. of \in Variables \cup {None}
  BY <1>3 DEF Last
<1>5. IsM(m1) /\ m1.th[L].ci = th[L].ci
  <2>1. Front(th[L].tbclist) \in Seq(Variables)
    BY <1>3, FrontFacts
  <2>2. m1 = SetT(M, L, [M.th[L] EXCEPT !.tbclist = Front(th[L].tbclist)])
    BY <1>2 DEF SetT
  <2>3. [M.th[L] EXCEPT !.tbclist = Front(th[L].tbclist)] \in LuaState
    BY <1>2, <2>1 DEF LuaState
  <2>4. [M.th[L] EXCEPT !.tbclist = Front(th[L].tbclist)].ci = th[L].ci
    BY <1>2 DEF LuaState
  <2> QED BY <1>2, <2>2, <2>3, <2>4, SetTFacts
<1>6. inc \in {"none", "yieldable", "nyci"}
  OBVIOUS
<1> HIDE DEF m1, of, inc
<1>7. Stays(M.th, m1.th, L)
  BY <1>2, <1>5, MachineParts, StaysSame
<1>8. Stays(m1.th, Ccall(m1, L, inc, of).th, L)
  BY <1>2, <1>4, <1>5, <1>6, CcallStays
<1>9. Stays(M.th, Ccall(m1, L, inc, of).th, L)
  BY <1>2, <1>7, <1>8, MachineParts, StaysTwice
<1> QED BY <1>1, <1>9, StaysHere

LEMMA EndOpCloseClean ==
  ASSUME IInv, EndOpClose
  PROVE  LeftClean
<1>1. cstack # <<>> /\ Go(PopC(M))
  BY DEF EndOpClose, CloseEnds, At
<1>2. PopC(M).th = th
  BY DEF PopC, M
<1> QED BY <1>1, <1>2, SameHere

LEMMA CallReturnsClean ==
  ASSUME IInv, ReturnToClose \/ ReturnToLua \/ ReturnToProt
  PROVE  LeftClean
<1> DEFINE m2 == EndCcall(M, L, Top.inc)
<1>1. At("call", "return") /\ (Go(In(m2, "run")) \/ Go(m2))
  BY DEF ReturnToClose, ReturnToLua, ReturnToProt, Called
<1>2. CallTop(M, L, Top, Depth) /\ M.th = th /\ cstack # <<>>
  BY <1>1, CallLeaves, MFacts DEF At
<1>3. IsM(m2) /\ m2.th[L].ci = th[L].ci
  <2> DEFINE m == M
             t == L
             b == Top
             n == Depth
  <2>1. CallTop(m, t, b, n)
    BY <1>2
  <2> HIDE DEF m, t, b, n
  <2>2. IsM(EndCcall(m, t, b.inc)) /\ EndCcall(m, t, b.inc).th[t].ci = m.th[t].ci
    BY <2>1, EndCcallDown DEF CallTop, Down
  <2> QED BY <1>2, <2>2 DEF m, t, b
<1> HIDE DEF m2
<1>4. In(m2, "run").th = m2.th
  BY <1>3, InFacts
<1>5. CASE Go(m2)
  BY <1>2, <1>3, <1>5, SameHere
<1>6. CASE Go(In(m2, "run"))
  BY <1>2, <1>3, <1>4, <1>6, SameHere
<1> QED BY <1>1, <1>5, <1>6

LEMMA UnrollLuaClean ==
  ASSUME IInv, UnrollLua
  PROVE  LeftClean
<1>1. cstack # <<>> /\ Go(In(M, "run"))
  BY DEF UnrollLua, At
<1>2. In(M, "run").th = th
  BY MFacts, InFacts
<1> QED BY <1>1, <1>2, SameHere

LEMMA YieldedStays ==
  ASSUME NEW m, IsM(m), NEW h, NEW u, Throws(m.th, m.cs, h, u), Resumes(m.cs[h])
  PROVE  Resumed(CaughtAt(m, h, m.cs[h]), u, "YIELD").th[u].ci = m.th[u].ci
<1> DEFINE m1 == CaughtAt(m, h, m.cs[h])
           r  == Last(m1.cs).t
<1>1. h \in 1 .. Len(m.cs) /\ u = m.cs[h].t /\ u \in Threads /\ m.cs[h] \in Activation
      /\ m.cs \in Seq(Activation) /\ Len(m.cs) \in Nat
  BY ThrowTypes DEF Throws
<1>2. IsCaught(m, m1, h, m.cs[h], u)
  BY <1>1, CaughtFacts
<1> HIDE DEF m1
<1>3. /\ IsM(m1) /\ m1.th[u].ci = m.th[u].ci /\ Len(m1.cs) = h - 1
      /\ \A i \in 1 .. h - 1 : m1.cs[i] = m.cs[i]
  BY <1>2 DEF IsCaught, Restored
<1>4. CASE m1.cs = <<>>
  <2>1. Resumed(m1, u, "YIELD") = In(m1, "run")
    BY <1>4 DEF Resumed
  <2>2. In(m1, "run").th = m1.th
    BY <1>3, InFacts
  <2> QED BY <1>3, <2>1, <2>2 DEF m1
<1>5. CASE m1.cs # <<>>
  <2>1. Resumed(m1, u, "YIELD") = In(PopCI(m1, r), "run")
    BY <1>5 DEF Resumed
  <2>2. r \in Threads /\ r # u
    <3>1. m1.cs \in Seq(Activation)
      BY <1>3, MachineParts
    <3>2. Len(m1.cs) > 0 /\ Last(m1.cs) = m1.cs[Len(m1.cs)] /\ Len(m1.cs) \in 1 .. Len(m1.cs)
      BY <1>5, <3>1 DEF Last
    <3>3. h - 1 \in 1 .. h - 1 /\ Last(m1.cs) = m.cs[h - 1]
      BY <1>3, <3>2
    <3>4. \A i \in 1 .. h - 1 : m.cs[i].t # m.cs[h].t
      <4>1. /\ Core(m.th, m.cs) /\ h \in 1 .. Len(m.cs) /\ m.cs[h].t = m.cs[Len(m.cs)].t
            /\ \A j \in h + 1 .. Len(m.cs) : m.cs[j].k # "prot" /\ m.cs[j].t = m.cs[Len(m.cs)].t
        BY DEF Throws
      <4> QED BY <4>1, AboveResume
    <3>5. Last(m1.cs).t \in Threads
      BY <3>1, <3>2, ActivationsFields
    <3> QED BY <1>1, <3>3, <3>4, <3>5
  <2> HIDE DEF r
  <2>3. PopCI(m1, r).th[u] = m1.th[u]
    BY <1>1, <1>3, <2>2, PoppedOther
  <2>4. In(PopCI(m1, r), "run").th = PopCI(m1, r).th
    BY <1>3 DEF In, PopCI, IsM
  <2> QED BY <1>3, <2>1, <2>3, <2>4 DEF m1
<1> QED BY <1>4, <1>5

LEMMA CatchYieldClean ==
  ASSUME IInv, CatchYield
  PROVE  LeftClean
<1> DEFINE r == Resumed(CaughtAt(M, Handler, M.cs[Handler]), L, "YIELD")
<1>1. mode = "YIELD"
  BY DEF CatchYield
<1>2. ThrowTop(M, L, Handler) /\ M.th = th /\ M.cs = cstack /\ cstack # <<>>
  BY <1>1, ThrowLeaves
<1>3. Go(r) /\ cstack[Handler].use = "resume"
  BY <1>2 DEF CatchYield, Caught, CaughtAt
<1>4. r.th[L].ci = th[L].ci
  <2> DEFINE m == M
             t == L
             h == Handler
  <2>1. IsM(m) /\ Throws(m.th, m.cs, h, t) /\ m.cs[h].use = "resume"
    BY <1>2, <1>3 DEF ThrowTop
  <2>2. r = Resumed(CaughtAt(m, h, m.cs[h]), t, "YIELD")
    OBVIOUS
  <2> HIDE DEF m, t, h, r
  <2>3. Resumes(m.cs[h])
    BY <2>1 DEF Throws, Resumes
  <2>4. r.th[t].ci = m.th[t].ci
    BY <2>1, <2>2, <2>3, YieldedStays
  <2> QED BY <1>2, <2>4 DEF m, t
<1> HIDE DEF r
<1> QED BY <1>2, <1>3, <1>4, SameHere

\* OP_RETURN ends its function only when nothing is left to close
LEMMA FinishOpClean ==
  ASSUME IInv, IInv2, FinishOp
  PROVE  LeftClean
<1> DEFINE m1 == PopCI(M, L)
           m2 == In(m1, IF F.fresh THEN "return" ELSE "run")
<1>1. /\ LuaRuns /\ Level(L) <= F.upto
      /\ \/ Go(OpSet(M, L, Depth, None, 0))
         \/ F.op # "close" /\ F.op # None /\ Go(m2)
  BY DEF FinishOp, OpSet, Depth
<1>2. /\ M.th = th /\ F \in CallInfo /\ F = th[L].ci[Depth] /\ IsM(M) /\ L \in Threads
      /\ Depth > 0
  BY <1>1, LuaLeaves
<1>3. CASE Go(OpSet(M, L, Depth, None, 0))
  BY <1>1, <1>3, OpClean
<1>4. CASE F.op # "close" /\ F.op # None /\ Go(m2)
  <2>1. F.op = "return"
    BY <1>2, <1>4 DEF CallInfo
  <2>2. Level(L) <= th[L].ci[Depth].level
    BY <1>1, <1>2, <2>1, ReturnUpto
  <2>3. IsM(m1) /\ m1.th[L].tbclist = th[L].tbclist
    BY <1>2, PopCIFacts DEF OnlyCI, Depth
  <2> HIDE DEF m1
  <2>4. m2.th = m1.th
    BY <2>3, InFacts
  <2> HIDE DEF m2
  <2>5. Len(m2.th[L].tbclist) <= M.th[L].ci[Depth].level
    BY <1>2, <2>2, <2>3, <2>4 DEF Level
  <2> QED BY <1>4, <2>5, ClosedHere
<1> QED BY <1>1, <1>3, <1>4

\* what is left of the thread t of m1 when its last call, which m knows, is gone
LeftBelow(m, m2, t) ==
  Len(m2.th[t].tbclist) <= m.th[t].ci[Len(m.th[t].ci)].level

LEMMA BelowHere ==
  ASSUME IInv, NEW m, Go(m), LeftBelow(M, m, L)
  PROVE  LeftClean
<1>1. M.th = th
  BY MFacts
<1> QED BY <1>1, ClosedHere DEF LeftBelow, Depth

\* finishpcallk has closed what its call left pending
LEMMA FinishpcallkLeaves ==
  ASSUME NEW m, IsM(m), InvM(m), m.mode = "run", Calm(m.th, m.cs), NEW t, NEW b, NEW n,
         TopIs(m, t, b, n), b.k = "close", m.cs[Len(m.cs) - 1].k # "prot",
         Last(m.th[t].ci).func = "pcall", Len(m.th[t].tbclist) <= b.level
  PROVE  LeftBelow(m, In(EndPcallk(PopC(m), t), "return"), t)
<1> DEFINE m2 == PopC(m)
           m3 == EndPcallk(m2, t)
           b2 == m.cs[Len(m.cs) - 1]
<1>1. IsM(m2) /\ m2.th = m.th
  BY PopCFacts DEF TopIs
<1>2. n = Len(m.th[t].ci) /\ n \in Nat /\ t \in Threads /\ b.t = t /\ b = m.cs[Len(m.cs)]
  BY TopFacts DEF TopIs
<1>3. /\ Core(m.th, m.cs) /\ Good(m.th, m.cs, Len(m.cs))
      /\ OnTop(m.th[t].ci, b, Acts(m.cs, t), m.mode)
  BY TopReady
<1>4. ~First(m.cs, Len(m.cs))
  BY <1>2, <1>3, Zenon DEF Good, BlockStarts
<1>5. Linked(m.th[t].ci, b, b2)
  BY <1>3, <1>4, BelowFacts
<1>6. b.yy /\ b.depth \in 1 .. Len(m.th[t].ci)
  BY <1>5 DEF Linked, LinkedClose
<1>7. n > 0 /\ b.depth = n
  <2>1. b.depth = n
    BY <1>2, <1>3 DEF OnTop
  <2> QED BY <1>2, <1>6, <2>1
<1>8. m.th[t].ci[n] = Last(m.th[t].ci)
  BY <1>2 DEF Last
<1>9. b.level = m.th[t].ci[n].level
  <2>1. ActLevel(m.th[t].ci, b, b2)
    BY TopLevels
  <2>2. m.th[t].ci[b.depth].func = "pcall"
    BY <1>7, <1>8
  <2> QED BY <1>6, <1>7, <2>1, <2>2 DEF ActLevel, CloseLevel
<1>10. IsM(m3) /\ m3.th[t].tbclist = m.th[t].tbclist
  BY <1>1, <1>2, <1>7, EndPcallkFacts DEF OnlyCI
<1> HIDE DEF m3, m2
<1>11. In(m3, "return").th = m3.th
  BY <1>10, InFacts
<1>12. LeftBelow(m, In(m3, "return"), t)
  BY <1>2, <1>9, <1>10, <1>11 DEF LeftBelow
<1> QED BY <1>12 DEF m3, m2

LEMMA EndFinishpcallkClean ==
  ASSUME IInv, IInv2, EndFinishpcallk
  PROVE  LeftClean
<1>1. /\ At("close", "run") /\ Below.k # "prot" /\ F.func = "pcall" /\ Level(L) <= Top.level
      /\ Go(In(EndPcallk(PopC(M), L), "return"))
  BY DEF EndFinishpcallk, CloseEnds
<1>2. /\ CloseTop(M, L, Top, Depth) /\ M.cs[Len(M.cs) - 1] = Below /\ F = Last(M.th[L].ci)
      /\ Calm(M.th, M.cs)
  BY <1>1, CloseLeaves, CalmHere
<1>5. Len(M.th[L].tbclist) <= Top.level
  BY <1>1, LevelIs
<1>3. LeftBelow(M, In(EndPcallk(PopC(M), L), "return"), L)
  <2>1. M.cs[Len(M.cs) - 1].k # "prot" /\ Last(M.th[L].ci).func = "pcall"
    BY <1>1, <1>2
  <2> DEFINE m == M
             t == L
             b == Top
             n == Depth
  <2>2. /\ CloseTop(m, t, b, n) /\ m.cs[Len(m.cs) - 1].k # "prot"
        /\ Last(m.th[t].ci).func = "pcall" /\ Calm(m.th, m.cs)
        /\ Len(m.th[t].tbclist) <= b.level
    BY <1>2, <1>5, <2>1
  <2> HIDE DEF m, t, b, n
  <2>3. LeftBelow(m, In(EndPcallk(PopC(m), t), "return"), t)
    BY <2>2, FinishpcallkLeaves DEF CloseTop
  <2> QED BY <2>3 DEF m, t
<1> QED BY <1>1, <1>3, BelowHere

\* a C function returns once what it called has closed its variables
LEMMA CReturnLeaves ==
  ASSUME NEW m, IsM(m), InvM(m), m.mode = "return", Inv2M(m), NEW t, NEW b, NEW n,
         TopIs(m, t, b, n), b.k = "call", Runs(m.cs[Len(m.cs) - 1]),
         Last(m.th[t].ci).func # "lua", NEW m2, m2 = EndCcall(m, t, b.inc)
  PROVE  LeftBelow(m, In(IF Last(m.th[t].ci).func = "pcall" THEN EndPcallk(m2, t)
                                                            ELSE PopCI(m2, t), "run"), t)
<1> DEFINE b2 == m.cs[Len(m.cs) - 1]
           m3 == IF Last(m.th[t].ci).func = "pcall" THEN EndPcallk(m2, t) ELSE PopCI(m2, t)
           x  == Len(m.th[t].tbclist)
<1>1. TopIs(m2, t, b2, n) /\ IsM(m2) /\ n > b2.depth /\ m2.th[t].ci = m.th[t].ci
  BY CallReturns DEF CallOfRuns
<1>2. Down(m, m2, t)
  BY SMTT(20), EndCcallDown
<1>3. /\ t \in Threads /\ n = Len(m.th[t].ci) /\ n \in Nat
      /\ OnTop(m.th[t].ci, b, Acts(m.cs, t), m.mode)
  BY TopReady, TopFacts DEF TopIs
<1>4. Len(m.th[t].ci) > 0 /\ b.depth = n
  <2>1. n \in Nat /\ b2.depth \in Nat
    BY <1>1, TopFacts
  <2>2. b.depth = n
    BY <1>3 DEF OnTop
  <2> HIDE DEF b2
  <2> QED BY <1>1, <1>3, <2>1, <2>2
<1>5. OnlyCI(m2, m3, t)
  BY SMTT(20), <1>1, <1>3, <1>4, EndPcallkFacts, PopCIFacts
<1>6. OnReturn(m.th[t].ci, b, b2, x)
  BY DEF Inv2M, Inv2, Returns, TopIs
<1>7. x <= m.th[t].ci[n].level
  <2>1. m.th[t].ci[n] = Last(m.th[t].ci)
    BY <1>3 DEF Last
  <2> HIDE DEF b2, x
  <2>2. Runs(b2)
    BY DEF b2
  <2> QED BY <1>4, <1>6, <2>1, <2>2 DEF OnReturn, Expected
<1> HIDE DEF m3, b2
<1>8. IsM(m3) /\ m3.th[t].tbclist = m.th[t].tbclist
  BY <1>2, <1>5 DEF OnlyCI, Down, Moves
<1>9. In(m3, "run").th = m3.th
  BY <1>8, InFacts
<1>10. LeftBelow(m, In(m3, "run"), t)
  BY <1>3, <1>7, <1>8, <1>9 DEF LeftBelow
<1> QED BY <1>10 DEF m3

LEMMA ReturnToCClean ==
  ASSUME IInv, IInv2, ReturnToC
  PROVE  LeftClean
<1> DEFINE m2 == EndCcall(M, L, Top.inc)
           r  == In(IF Last(M.th[L].ci).func = "pcall" THEN EndPcallk(m2, L) ELSE PopCI(m2, L),
                    "run")
<1>1. At("call", "return") /\ Runs(Below) /\ F.func # "lua"
  BY DEF ReturnToC, Runs
<1>2. /\ CallTop(M, L, Top, Depth) /\ M.cs[Len(M.cs) - 1] = Below /\ F = Last(M.th[L].ci)
      /\ Inv2M(M)
  BY <1>1, CallLeaves, CalmHere
<1>3. Go(r)
  BY <1>2 DEF ReturnToC, Called
<1>4. LeftBelow(M, r, L)
  <2> DEFINE m == M
             t == L
             b == Top
             n == Depth
             m3 == EndCcall(m, t, b.inc)
  <2>1. /\ CallTop(m, t, b, n) /\ Runs(m.cs[Len(m.cs) - 1]) /\ Last(m.th[t].ci).func # "lua"
        /\ Inv2M(m)
    BY <1>1, <1>2
  <2>2. r = In(IF Last(m.th[t].ci).func = "pcall" THEN EndPcallk(m3, t) ELSE PopCI(m3, t), "run")
    OBVIOUS
  <2>3. m3 = EndCcall(m, t, b.inc)
    OBVIOUS
  <2> HIDE DEF m, t, b, n, m3, r
  <2>4. LeftBelow(m, In(IF Last(m.th[t].ci).func = "pcall" THEN EndPcallk(m3, t)
                                                           ELSE PopCI(m3, t), "run"), t)
    BY <2>1, <2>3, CReturnLeaves DEF CallTop
  <2> QED BY <2>2, <2>4 DEF m, t
<1> HIDE DEF r
<1> QED BY <1>3, <1>4, BelowHere

LEMMA UnrollCClean ==
  ASSUME IInv, IInv2, UnrollC
  PROVE  LeftClean
<1>1. /\ At("unroll", "return") /\ th[L].ci # <<>> /\ F.func # "lua"
      /\ Go(IF F.recst # "OK" THEN Close(M, L, F.level, F.recst, TRUE) ELSE EndPcallk(M, L))
  BY DEF UnrollC
<1>2. /\ UnrollTop(M, L, Top, Depth) /\ Depth > 0 /\ F = Last(M.th[L].ci) /\ Depth \in Nat
      /\ Inv2M(M) /\ cstack # <<>> /\ M.th = th
  BY <1>1, UnrollLeaves, CalmHere, MFacts DEF At
<1>3. CASE F.recst # "OK"
  <2>1. Go(Close(M, L, F.level, F.recst, TRUE))
    BY <1>1, <1>3
  <2>2. Close(M, L, F.level, F.recst, TRUE).th = th
    BY DEF Close, PushC, In, M
  <2> QED BY <1>2, <2>1, <2>2, SameHere
<1>4. CASE F.recst = "OK"
  <2> DEFINE m == M
             t == L
             b == Top
             n == Depth
             f == F
  <2>1. Go(EndPcallk(M, L))
    BY <1>1, <1>4
  <2>2. /\ UnrollTop(m, t, b, n) /\ n > 0 /\ n \in Nat /\ f.func # "lua" /\ f.recst = "OK"
        /\ f = Last(m.th[t].ci) /\ Inv2M(m)
    BY SMTT(20), <1>1, <1>2, <1>4
  <2> HIDE DEF m, t, b, n, f
  <2>3. n = Len(m.th[t].ci) /\ t \in Threads /\ f = m.th[t].ci[n]
    BY <2>2, TopFacts DEF UnrollTop, TopIs, Last
  <2>4. OnReturn(m.th[t].ci, b, m.cs[Len(m.cs) - 1], Len(m.th[t].tbclist))
    BY Zenon, <2>2 DEF Inv2M, Inv2, Returns, TopIs, UnrollTop
  <2>5. Len(m.th[t].tbclist) <= m.th[t].ci[n].level
    BY <2>2, <2>3, <2>4 DEF OnReturn, UnrollTop
  <2>6. EndPcallk(m, t).th[t].tbclist = m.th[t].tbclist
    BY <2>2, <2>3, EndPcallkFacts DEF OnlyCI, UnrollTop
  <2>7. LeftBelow(m, EndPcallk(m, t), t)
    BY <2>3, <2>5, <2>6 DEF LeftBelow
  <2> QED BY <2>1, <2>7, BelowHere DEF m, t
<1> QED BY <1>3, <1>4

\* lua_pcallk returns after luaD_pcall, which has closed down to the level of
\* the call
LEMMA PcallLeaves ==
  ASSUME NEW m, IsM(m), Calm(m.th, m.cs), NEW h, NEW p, NEW t, NEW m1,
         ProtLast(m, h, p, t, m1), IsPcall(p), Len(m.th[t].tbclist) <= p.level,
         Len(m.th[t].ci) > 0
  PROVE  LeftBelow(m, EndPcall(m1, p), t)
<1> DEFINE C == m.cs
           n == Len(m.th[t].ci)
<1>1. /\ ProtOver(m.th, C, h, t, m1) /\ C[h] = p /\ m1.th[t].tbclist = m.th[t].tbclist
  BY SMTT(20) DEF ProtLast
<1>2. h \in 1 .. Len(C) /\ t = p.t /\ p.k = "prot" /\ ~Resumes(p) /\ n = p.depth /\ IsM(m1)
  <2>1. ~Resumes(p)
    BY DEF IsPcall, Resumes
  <2> QED BY <1>1, <2>1 DEF ProtOver
<1>3. p \in Activation /\ t \in Threads
  BY <1>1, ProtTypes
<1>4. ActLevel(m.th[t].ci, p, C[h - 1])
  BY <1>1, <1>2 DEF Calm, ActLevels
<1>5. p.level = m.th[t].ci[n].level
  BY <1>2, <1>4 DEF ActLevel, ProtLevel
<1>6. EndPcall(m1, p).th[t].tbclist = m.th[t].tbclist
  <2>1. OnlyCI(In(m1, "run"), EndPcall(m1, p), t)
    BY <1>2, <1>3, EndPcallFacts
  <2>2. In(m1, "run").th = m1.th
    BY <1>2, InFacts
  <2> QED BY <1>1, <2>1, <2>2 DEF OnlyCI
<1> QED BY <1>5, <1>6 DEF LeftBelow

LEMMA ProtReturnLeaves ==
  ASSUME NEW m, IsM(m), InvM(m), m.mode = "return", Inv2M(m), NEW t, NEW b, NEW n,
         TopIs(m, t, b, n), b.k = "prot", n > 0
  PROVE  b.use # "resume" /\ LeftBelow(m, EndPcall(PopC(Restore(m, b)), b), t)
<1> DEFINE x == Len(m.th[t].tbclist)
<1>1. n = Len(m.th[t].ci) /\ n \in Nat /\ OnTop(m.th[t].ci, b, Acts(m.cs, t), m.mode)
  BY TopReady, TopFacts DEF TopIs
<1>2. b.use # "resume"
  BY <1>1 DEF OnTop
<1>3. ProtLast(m, Len(m.cs), b, t, PopC(Restore(m, b))) /\ IsPcall(b)
  BY <1>2, ProtReady
<1>4. Calm(m.th, m.cs) /\ OnReturn(m.th[t].ci, b, m.cs[Len(m.cs) - 1], x)
  BY DEF Inv2M, Inv2, Returns, TopIs
<1>5. x <= b.level
  <2> HIDE DEF x
  <2> QED BY <1>2, <1>4 DEF OnReturn, BaseLevel, Resumes
<1>6. LeftBelow(m, EndPcall(PopC(Restore(m, b)), b), t)
  BY <1>1, <1>3, <1>4, <1>5, PcallLeaves
<1> QED BY <1>2, <1>6

LEMMA ProtReturnsClean ==
  ASSUME IInv, IInv2, ProtReturns, th[L].ci # <<>>
  PROVE  LeftClean
<1> DEFINE r == IF Top.use = "resume" THEN Resumed(PopC(Restore(M, Top)), Top.t, "OK")
                                      ELSE EndPcall(PopC(Restore(M, Top)), Top)
<1>1. cstack # <<>> /\ mode = "return" /\ Top.k = "prot" /\ Go(r)
  BY DEF ProtReturns, At
<1>2. /\ IsM(M) /\ InvM(M) /\ M.mode = mode /\ TopIs(M, L, Top, Depth) /\ Inv2M(M)
      /\ th[L].ci \in Seq(CallInfo)
  BY <1>1, Leaves, CalmHere
<1>3. Depth > 0
  BY <1>2 DEF Depth
<1>4. Top.use # "resume" /\ LeftBelow(M, EndPcall(PopC(Restore(M, Top)), Top), L)
  <2> DEFINE m == M
             t == L
             b == Top
             n == Depth
  <2>1. /\ IsM(m) /\ InvM(m) /\ TopIs(m, t, b, n) /\ b.k = "prot" /\ m.mode = "return"
        /\ Inv2M(m) /\ n > 0
    BY <1>1, <1>2, <1>3
  <2> HIDE DEF m, t, b, n
  <2>3. b.use # "resume" /\ LeftBelow(m, EndPcall(PopC(Restore(m, b)), b), t)
    BY <2>1, ProtReturnLeaves
  <2> QED BY <2>3 DEF m, t, b
<1>5. Go(EndPcall(PopC(Restore(M, Top)), Top))
  BY <1>1, <1>4
<1> QED BY <1>4, <1>5, BelowHere

LEMMA CloseProtectedLeaves ==
  ASSUME NEW m, IsM(m), InvM(m), m.mode = "run", Calm(m.th, m.cs), NEW t, NEW b, NEW n,
         TopIs(m, t, b, n), b.k = "close", NEW p, p = m.cs[Len(m.cs) - 1], p.k = "prot",
         Len(m.th[t].tbclist) <= b.level, n > 0
  PROVE  p.then = "pcall" /\ LeftBelow(m, EndPcall(PopC(Restore(PopC(m), p)), p), t)
<1> DEFINE h  == Len(m.cs) - 1
           m2 == PopC(Restore(PopC(m), p))
<1>1. ProtLast(m, h, p, t, m2) /\ ProtCloses(m, p)
  BY CloseReadyProt
<1>2. b.level = p.level
  <2>1. Good(m.th, m.cs, Len(m.cs)) /\ Core(m.th, m.cs)
    BY TopReady
  <2>2. b = m.cs[Len(m.cs)] /\ b.t = t
    BY TopFacts DEF TopIs
  <2>3. ~First(m.cs, Len(m.cs))
    BY <2>1, <2>2, Zenon DEF Good, BlockStarts
  <2>4. Linked(m.th[t].ci, b, p)
    BY <2>1, <2>3, BelowFacts
  <2>5. ~b.yy
    BY <2>4 DEF Linked, LinkedClose, Runs
  <2>6. ActLevel(m.th[t].ci, b, p)
    BY TopLevels
  <2> QED BY <2>5, <2>6 DEF ActLevel, CloseLevel
<1>3. Len(m.th[t].ci) > 0
  BY DEF TopIs
<1> HIDE DEF m2, h
<1>4. p.then = "pcall" /\ IsPcall(p)
  <2>1. ProtOver(m.th, m.cs, h, t, m2)
    BY <1>1 DEF ProtLast
  <2>2. ~First(m.cs, h)
    BY <1>3, <2>1, ProtBelow
  <2> QED BY <1>1, <2>2 DEF ProtCloses, h
<1>5. LeftBelow(m, EndPcall(m2, p), t)
  BY <1>1, <1>2, <1>3, <1>4, PcallLeaves
<1> QED BY <1>4, <1>5 DEF m2

LEMMA EndCloseProtectedClean ==
  ASSUME IInv, IInv2, EndCloseProtected, th[L].ci # <<>>
  PROVE  LeftClean
<1> DEFINE q  == M.cs[Len(M.cs) - 1]
           m2 == PopC(Restore(PopC(M), q))
<1>1. At("close", "run") /\ Below.k = "prot" /\ Level(L) <= Top.level
  BY DEF EndCloseProtected
<1>2. CloseTop(M, L, Top, Depth) /\ M.cs[Len(M.cs) - 1] = Below /\ Calm(M.th, M.cs)
  BY <1>1, CloseLeaves, CalmHere
<1>3. Go(IF q.then = "pcall" THEN EndPcall(m2, q) ELSE EndReset(m2, q))
  BY <1>2 DEF EndCloseProtected
<1>4. Len(M.th[L].tbclist) <= Top.level /\ Depth > 0
  <2>1. th[L].ci \in Seq(CallInfo)
    BY <1>1, Leaves DEF At
  <2>2. Depth > 0
    BY <2>1 DEF Depth
  <2> QED BY <1>1, <2>2, LevelIs
<1>5. q.then = "pcall" /\ LeftBelow(M, EndPcall(m2, q), L)
  <2> DEFINE m == M
             t == L
             b == Top
             n == Depth
             p == q
             e == EndPcall(m2, q)
  <2>1. /\ CloseTop(m, t, b, n) /\ p = m.cs[Len(m.cs) - 1] /\ p.k = "prot" /\ Calm(m.th, m.cs)
        /\ Len(m.th[t].tbclist) <= b.level /\ n > 0
    BY <1>1, <1>2, <1>4
  <2>2. e = EndPcall(PopC(Restore(PopC(m), p)), p)
    OBVIOUS
  <2> HIDE DEF m, t, b, n, p, e
  <2>3. p.then = "pcall" /\ LeftBelow(m, EndPcall(PopC(Restore(PopC(m), p)), p), t)
    BY <2>1, CloseProtectedLeaves DEF CloseTop
  <2>4. p.then = "pcall" /\ LeftBelow(m, e, t)
    BY <2>2, <2>3
  <2> QED BY <2>4 DEF m, t, p, e
<1> HIDE DEF q, m2
<1>6. Go(EndPcall(m2, q))
  BY <1>3, <1>5
<1> QED BY <1>5, <1>6, BelowHere

LEMMA NonEmptyLen ==
  ASSUME NEW S, NEW s \in Seq(S), s # <<>>
  PROVE  Len(s) > 0
OBVIOUS

LEMMA LessOne ==
  ASSUME NEW n \in Nat
  PROVE  ~(n - 1 >= n)
OBVIOUS

LEMMA EveryExitClean ==
  ASSUME IInv, IInv2, Next, cstack # <<>>, mode # "ERR", th[L].ci # <<>>
  PROVE  LeftClean
<1>1. CASE CallLua \/ CallMetamethod \/ CallBack \/ PCall \/ Error
  BY <1>1, CallLuaClean, CallMetamethodClean, CallBackClean, PCallClean, ErrorClean
<1>2. CASE EndBlock \/ Return
  <2>1. LuaRuns /\ \E op, upto : Go(OpSet(M, L, Depth, op, upto))
    BY Zenon, <1>2 DEF EndBlock, Return, Uses, MayAct, OpSet, Depth
  <2> QED BY <2>1, OpClean
<1>3. CASE Yield \/ \E v \in Variables : NewTbc(v)
  BY <1>3, YieldClean, NewTbcClean
<1>4. CASE \E t \in Threads : \/ Create(t) \/ CloseCoroutine(t)
                              \/ \E func \in {"resume", "wrap"} : Resume(t, func)
  BY <1>4, CreateClean, CloseCoroutineClean, ResumeClean
<1>5. CASE CloseVariables \/ FinishOp \/ CloseNext \/ EndOpClose \/ EndFinishpcallk
  BY <1>5, CloseVariablesClean, FinishOpClean, CloseNextClean, EndOpCloseClean,
     EndFinishpcallkClean
<1>6. CASE EndCloseProtected \/ ReturnToClose \/ ReturnToProt \/ ReturnToLua \/ ReturnToC
  BY <1>6, EndCloseProtectedClean, CallReturnsClean, ReturnToCClean
<1>7. CASE UnrollLua \/ UnrollC \/ ProtReturns \/ CatchYield
  BY SMTT(20), <1>7, UnrollLuaClean, UnrollCClean, ProtReturnsClean, CatchYieldClean
<1>8. ~(UnrollEnd \/ Precover \/ CatchError \/ Host)
  BY DEF UnrollEnd, Precover, CatchError, Host, HostCall, HostResume
<1>9. Program \/ Machine
  BY <1>8 DEF Next
<1>10. CASE Program
  BY <1>1, <1>2, <1>3, <1>4, <1>10 DEF Program
<1>11. CASE Machine
  BY <1>5, <1>6, <1>7, <1>8, <1>11 DEF Machine
<1> QED BY <1>9, <1>10, <1>11

\* OP_RETURN, finishpcallk, luaD_pcall and lua_pcallk between them: a function
\* that returns, and a protected call that ends with an error, whichever way
\* the error took, leave none of their to-be-closed variables pending.
THEOREM FunctionsLeaveClean ==
  ASSUME "close main" \notin Functions
  PROVE  Spec => ClosedOnExit
<1>1. Spec => [](IInv /\ IInv2)
  BY Zenon, ClosingStructure
<1>2. ASSUME IInv /\ IInv2, [Next]_vars
      PROVE  [cstack # <<>> /\ mode # "ERR" /\ th[L].ci # <<>> /\ th'[L].ci = Front(th[L].ci)
                => Len(th'[L].tbclist) <= F.level]_vars
  <2>1. CASE UNCHANGED vars
    BY Zenon, <2>1
  <2>2. CASE Next
    <3>1. SUFFICES ASSUME cstack # <<>>, mode # "ERR", th[L].ci # <<>>,
                          th'[L].ci = Front(th[L].ci)
                   PROVE  Len(th'[L].tbclist) <= F.level
      BY Zenon
    <3>2. LeftClean
      BY Zenon, <1>2, <2>2, <3>1, EveryExitClean
    <3>3. th[L].ci \in Seq(CallInfo) /\ Depth \in Nat /\ Depth > 0
      <4>1. th[L].ci \in Seq(CallInfo) /\ Depth \in Nat
        BY Zenon, <1>2, <3>1, Leaves
      <4>2. th[L].ci # <<>>
        BY Zenon, <3>1
      <4>3. Len(th[L].ci) > 0
        BY Zenon, <4>1, <4>2, NonEmptyLen
      <4> QED BY Zenon, <4>1, <4>3 DEF Depth
    <3>4. Len(th'[L].ci) = Depth - 1
      BY Zenon, <3>1, <3>3, FrontFacts DEF Depth
    <3>5. F = th[L].ci[Depth]
      BY Zenon, <3>3 DEF F, Last, Depth
    <3>6. ~(Len(th'[L].ci) >= Depth)
      <4>1. Depth \in Nat
        BY Zenon, <3>3
      <4>2. ~(Depth - 1 >= Depth)
        BY Zenon, <4>1, LessOne
      <4> QED BY Zenon, <3>4, <4>2
    <3>7. Len(th'[L].tbclist) <= th[L].ci[Depth].level
      BY Zenon, <3>2, <3>6 DEF LeftClean
    <3> QED BY Zenon, <3>5, <3>7
  <2> QED BY Zenon, <1>2, <2>1, <2>2
<1> QED BY <1>1, <1>2, PTL DEF Spec, ClosedOnExit

=============================================================================
