---------------------------- MODULE Calls_safety ----------------------------
(***************************************************************************)
(* Theorems about calls, errors and coroutines, continued: activations     *)
(* that end and throws keep the invariant of Calls_proofs too, so every    *)
(* step of the specification does; what follows from it; and a second      *)
(* invariant, which Calls_closing is about.                                *)
(***************************************************************************)
EXTENDS Calls_proofs

-----------------------------------------------------------------------------
(* Activations end *)

\* what the counters were when the topmost activation began
LEMMA CountsBelow ==
  ASSUME NEW m, IsM(m), Live(m.th, m.cs), NEW t, NEW b, NEW n, TopIs(m, t, b, n)
  PROVE  /\ Cnt(m.cs, Len(m.cs) - 1) \in Nat /\ Nyci(m.cs, t, Len(m.cs) - 1) \in Nat
         /\ m.th[t].nCcalls = Cnt(m.cs, Len(m.cs) - 1) + (IF Counts(b) THEN 1 ELSE 0)
         /\ m.th[t].nny = Nyci(m.cs, t, Len(m.cs) - 1) + (IF b.inc = "nyci" THEN 1 ELSE 0)
<1> DEFINE C == m.cs
           k == Len(C) - 1
<1>1. Len(C) > 0 /\ b = C[Len(C)] /\ t = b.t
  BY DEF TopIs
<1>2. k \in Nat /\ k + 1 = Len(C)
  <2> DEFINE x == Len(C)
  <2>1. x \in Nat /\ x > 0
    BY <1>1, TopFacts
  <2> HIDE DEF x
  <2>2. x - 1 \in Nat /\ (x - 1) + 1 = x
    BY <2>1
  <2> QED BY <2>2 DEF x
<1>3. m.th[t].nny = Nyci(C, t, Len(C)) /\ m.th[t].nCcalls = Cnt(C, Len(C))
  BY <1>1 DEF Live, CountedTo
<1> HIDE DEF C
<1>4. C[Len(C)] = b /\ b.t = t
  BY <1>1
<1> HIDE DEF k
<1>5. /\ Cnt(C, k) \in Nat /\ Cnt(C, k + 1) = Cnt(C, k) + (IF Counts(C[k + 1]) THEN 1 ELSE 0)
      /\ Nyci(C, t, k) \in Nat
      /\ Nyci(C, t, k + 1) = Nyci(C, t, k)
           + (IF C[k + 1].t = t /\ C[k + 1].inc = "nyci" THEN 1 ELSE 0)
  BY <1>2, OneMore
<1>6. C[k + 1] = b
  BY <1>2, <1>4
<1> QED BY <1>2, <1>3, <1>4, <1>5, <1>6 DEF C, k

\* the topmost activation returns to another one in its thread
PopsTo(m, t, b, n, b2, m2) ==
  /\ IsM(m) /\ Core(m.th, m.cs) /\ TopIs(m, t, b, n) /\ ~First(m.cs, Len(m.cs))
  /\ m.th[t].status = "OK" /\ n = b.depth /\ BelowIs(m, t, b, b2)
  /\ OnlyCounters(PopC(m), m2, t) /\ m2.th[t].nCcalls = Cnt(m.cs, Len(m.cs) - 1)
  /\ m2.th[t].nny = Nyci(m.cs, t, Len(m.cs) - 1)
LEMMA Popped ==
  ASSUME NEW m, NEW t, NEW b, NEW n, NEW b2, NEW m2, PopsTo(m, t, b, n, b2, m2)
  PROVE  /\ IsM(m2) /\ Core(m2.th, m2.cs) /\ Live(m2.th, m2.cs) /\ TopIs(m2, t, b2, n)
         /\ m2.th[t].status = "OK" /\ m2.mode = m.mode /\ m2.th[t].ci = m.th[t].ci
         /\ m2.th[t].errfunc = m.th[t].errfunc /\ m2.cs = Front(m.cs)
<1> DEFINE T  == m.th
           C  == m.cs
           T2 == m2.th
           C2 == m2.cs
           ci == T[t].ci
<1>0. /\ IsM(m) /\ Core(m.th, m.cs) /\ TopIs(m, t, b, n) /\ ~First(m.cs, Len(m.cs))
      /\ m.th[t].status = "OK" /\ n = b.depth /\ BelowIs(m, t, b, b2)
      /\ OnlyCounters(PopC(m), m2, t) /\ m2.th[t].nCcalls = Cnt(m.cs, Len(m.cs) - 1)
      /\ m2.th[t].nny = Nyci(m.cs, t, Len(m.cs) - 1)
  BY DEF PopsTo
<1>1. /\ b \in Activation /\ b.depth \in Nat /\ t \in Threads /\ n \in Nat /\ ci \in Seq(CallInfo)
      /\ Len(C) \in Nat /\ Len(C) \in 1 .. Len(C) /\ C \in Seq(Activation) /\ t \in ChainOf(C)
  BY <1>0, TopFacts, MachineParts
<1>2. Len(C) > 0 /\ b = C[Len(C)] /\ t = b.t /\ n = Len(ci)
  BY <1>0 DEF TopIs
<1>3. Len(C) > 1 /\ b2 = C[Len(C) - 1] /\ b2.t = t
  BY <1>0 DEF BelowIs
<1>4. PopC(m).th = T /\ PopC(m).cs = Front(C) /\ PopC(m).mode = m.mode
  BY <1>0, <1>2, PopCFacts
<1>5. /\ IsM(m2) /\ C2 = Front(C) /\ m2.mode = m.mode /\ Others(T, T2, t)
      /\ T2[t].status = "OK" /\ T2[t].body = T[t].body /\ T2[t].ci = ci
      /\ T2[t].errfunc = T[t].errfunc
  BY <1>0, <1>4 DEF OnlyCounters
<1>6. IsTh(T2) /\ C2 \in Seq(Activation)
  BY <1>5, MachineParts
<1>7. /\ Len(C2) = Len(C) - 1 /\ \A i \in 1 .. Len(C) - 1 : C2[i] = C[i]
  <2> HIDE DEF C
  <2> QED BY <1>1, <1>2, <1>5, FrontFacts
<1>8. /\ Len(C2) \in 1 .. Len(C2) /\ Len(C2) <= Len(C) /\ C2[Len(C2)] = b2
      /\ Len(C2) > 0 /\ \A i \in 1 .. Len(C2) : C2[i] = C[i]
      /\ Len(C2) \in Nat /\ Len(C2) + 1 = Len(C)
  <2> DEFINE x == Len(C)
             y == Len(C2)
  <2>1. x \in Nat /\ x > 1 /\ y = x - 1 /\ b2 = C[x - 1]
    BY <1>1, <1>3, <1>7
  <2> HIDE DEF x, y, C, C2
  <2>2. y \in 1 .. y /\ y <= x /\ y > 0 /\ y \in Nat /\ y + 1 = x /\ x - 1 \in 1 .. x - 1
    BY <2>1
  <2>3. C2[y] = b2
    BY <1>7, <2>1, <2>2 DEF x
  <2>4. \A i \in 1 .. y : C2[i] = C[i]
    BY <1>7, <2>1 DEF x
  <2> QED BY <2>2, <2>3, <2>4 DEF x, y
<1>9. /\ t \in ChainOf(C2) /\ C2[Len(C2)].t = t
  BY <1>3, <1>8 DEF ChainOf
<1>10. ~Resumes(b2) => b2.depth <= n
  BY <1>0, BelowFacts
<1>11. Core(T2, C2)
  <2>1. StatusOf(T2, C2, t)
    <3>1. StatusOf(T, C, t)
      BY <1>0, <1>1 DEF Core, States
    <3> QED BY <1>0, <1>1, <1>5, <1>9, <3>1 DEF StatusOf
  <2>2. \A i \in Len(C2) + 1 .. Len(C) : C[i].t = t /\ C[i].depth >= Len(T2[t].ci)
    <3>1. C[Len(C)].t = t /\ C[Len(C)].depth >= Len(T2[t].ci)
      <4>1. b.depth >= n
        BY <1>0, <1>1
      <4> QED BY Zenon, <1>2, <1>5, <4>1
    <3>2. \A i \in Len(C) .. Len(C) : i = Len(C)
      BY <1>1
    <3> HIDE DEF C, C2, T2
    <3> QED BY <1>8, <3>1, <3>2
  <2>3. Alike(T[t].ci, T2[t].ci, Len(T2[t].ci))
    <3>1. T2[t].ci = ci /\ Len(ci) <= Len(ci)
      BY <1>1, <1>5
    <3> QED BY <3>1 DEF Alike
  <2>4. IsInner(T2[t].ci, Len(T2[t].ci), T2[t].errfunc)
    <3>1. IsInner(T[t].ci, Len(T[t].ci), T[t].errfunc)
      BY <1>0, <1>1 DEF Core, Frames
    <3> QED BY <1>5, <3>1
  <2>5. ~Resumes(C2[Len(C2)]) => C2[Len(C2)].depth <= Len(T2[t].ci)
    BY <1>2, <1>5, <1>8, <1>10, Zenon
  <2>6. \A x \in Threads \ {t} : T2[x] = T[x]
    BY <1>5 DEF Others
  <2>7. T[t].status # "ERR" /\ t = C2[Len(C2)].t /\ Core(T, C)
    BY <1>0, <1>9
  <2> HIDE DEF T, T2, C, C2, ci
  <2> QED BY <1>1, <1>6, <1>8, <1>9, <2>1, <2>2, <2>3, <2>4, <2>5, <2>6, <2>7, CoreShrink
<1>12. Live(T2, C2)
  <2>1. /\ Cnt(C2, Len(C2)) = Cnt(C, Len(C2)) /\ Nyci(C2, t, Len(C2)) = Nyci(C, t, Len(C2))
    BY <1>8, SameCount, SameNyci
  <2>2. Len(C2) = Len(C) - 1
    BY <1>7
  <2> QED BY <1>0, <1>9, <2>1, <2>2 DEF Live, CountedTo
<1>13. TopIs(m2, t, b2, n)
  BY <1>0, <1>2, <1>3, <1>5, <1>8, Zenon DEF TopIs
<1> QED BY <1>0, <1>5, <1>11, <1>12, <1>13

\* lua_pcallk or finishpcallk returns, and pcall with it
LEMMA PcallkReturns ==
  ASSUME NEW m, IsM(m), Core(m.th, m.cs), Live(m.th, m.cs), NEW u, NEW b, NEW n,
         TopIs(m, u, b, n), Runs(b), n > b.depth, m.th[u].status = "OK",
         Last(m.th[u].ci).func = "pcall", Last(m.th[u].ci).ypcall
  PROVE  /\ InvM(In(EndPcallk(m, u), "run"))
         /\ b.k = "unroll" => InvM(In(EndPcallk(m, u), "return"))
<1> DEFINE T  == m.th
           C  == m.cs
           m2 == EndPcallk(m, u)
           T2 == m2.th
           ci == T[u].ci
<1>1. /\ b \in Activation /\ b.depth \in Nat /\ u \in Threads /\ n \in Nat
      /\ ci \in Seq(CallInfo) /\ n > 0 /\ n \in 1 .. n
  <2>1. b.depth \in Nat /\ n \in Nat
    BY TopFacts
  <2> QED BY <2>1, TopFacts
<1>2. Len(C) > 0 /\ b = C[Len(C)] /\ u = b.t /\ n = Len(ci)
  BY DEF TopIs
<1>3. OnlyCI(m, m2, u) /\ T2[u].ci = Front(ci) /\ T2[u].errfunc = Last(ci).old_errfunc
  BY <1>1, <1>2, EndPcallkFacts, Zenon
<1>4. IsM(m2) /\ IsTh(T2) /\ m2.cs = C
  BY <1>3, MachineParts DEF OnlyCI
<1>5. IsInner(ci, n - 1, T2[u].errfunc)
  <2>1. OldHandlers(ci)
    BY <1>1 DEF Core, Frames, FramesOK
  <2>2. ci[n].ypcall /\ Last(ci) = ci[n]
    BY <1>2, Zenon DEF Last
  <2>3. n \in 1 .. Len(ci)
    BY <1>1, <1>2, Zenon
  <2> HIDE DEF ci
  <2> QED BY <1>3, <2>1, <2>2, <2>3 DEF OldHandlers
<1>6. Inv(T2, C, "run") /\ (b.k = "unroll" => Inv(T2, C, "return"))
  <2>1. /\ Others(T, T2, u) /\ T2[u].status = T[u].status /\ T2[u].body = T[u].body
        /\ T2[u].nny = T[u].nny /\ T2[u].nCcalls = T[u].nCcalls
    BY <1>3 DEF OnlyCI
  <2>2. Core(T, C) /\ Live(T, C) /\ u = C[Len(C)].t /\ Runs(C[Len(C)]) /\ T[u].status = "OK"
        /\ Len(T[u].ci) > C[Len(C)].depth /\ Last(T[u].ci).func # "lua"
        /\ IsInner(T[u].ci, Len(T[u].ci) - 1, T2[u].errfunc)
    BY <1>2, <1>5, Zenon
  <2>3. T2[u].ci = Front(T[u].ci)
    BY <1>3
  <2> HIDE DEF T, T2, C, m2, ci
  <2> QED BY <1>2, <1>4, <2>1, <2>2, <2>3, FrameReturns
<1> HIDE DEF m2
<1>7. /\ In(m2, "run").th = m2.th /\ In(m2, "run").cs = m2.cs /\ In(m2, "run").mode = "run"
      /\ In(m2, "return").th = m2.th /\ In(m2, "return").cs = m2.cs
      /\ In(m2, "return").mode = "return"
  BY <1>4, InFacts
<1> QED BY <1>4, <1>6, <1>7 DEF InvM, m2

NothingChanges(m, m2, t) ==
  /\ OnlyCounters(m, m2, t) /\ m2.th[t].nny = m.th[t].nny /\ m2.th[t].nCcalls = m.th[t].nCcalls
LEMMA PopCOnly ==
  ASSUME NEW m, IsM(m), Len(m.cs) > 0, NEW t
  PROVE  NothingChanges(PopC(m), PopC(m), t)
<1>1. IsM(PopC(m))
  BY PopCFacts
<1> QED BY <1>1 DEF NothingChanges, OnlyCounters, Others

\* luaF_close returns to OP_CLOSE or OP_RETURN, or to finishpcallk
CloseEnded(m, m2, t, b2, n) ==
  /\ IsM(m2) /\ Core(m2.th, m2.cs) /\ Live(m2.th, m2.cs) /\ TopIs(m2, t, b2, n) /\ Runs(b2)
  /\ n > b2.depth /\ m2.th[t].status = "OK" /\ m2.mode = m.mode /\ m2.th[t].ci = m.th[t].ci
LEMMA CloseDone ==
  ASSUME NEW m, IsM(m), InvM(m), m.mode = "run", NEW t, NEW b, NEW n, TopIs(m, t, b, n),
         b.k = "close", m.cs[Len(m.cs) - 1].k # "prot"
  PROVE  /\ CloseEnded(m, PopC(m), t, m.cs[Len(m.cs) - 1], n)
         /\ \/ m.th[t].ci[n].func = "lua"
            \/ /\ m.th[t].ci[n].func = "pcall" /\ m.th[t].ci[n].ypcall
               /\ m.cs[Len(m.cs) - 1].k = "unroll"
<1> DEFINE b2 == m.cs[Len(m.cs) - 1]
           ci == m.th[t].ci
           m2 == PopC(m)
<1>1. /\ Core(m.th, m.cs) /\ OnTop(ci, b, Acts(m.cs, t), "run") /\ Live(m.th, m.cs)
      /\ m.th[t].status = "OK" /\ Good(m.th, m.cs, Len(m.cs))
  BY TopReady
<1>2. b = m.cs[Len(m.cs)] /\ n = Len(ci) /\ Len(m.cs) > 0
  BY SMTT(20) DEF TopIs
<1>3. ~First(m.cs, Len(m.cs)) /\ b.inc = "none"
  BY <1>1, <1>2 DEF Good, BlockStarts
<1>4. n = b.depth
  BY <1>1, <1>2 DEF OnTop
<1>5. /\ BelowIs(m, t, b, b2) /\ b2 \in Activation /\ Linked(ci, b, b2)
      /\ ~Resumes(b2) => b2.depth <= b.depth /\ (b2.k = "call" => b2.depth < b.depth)
  BY <1>1, <1>3, BelowFacts
<1>6. b \in Activation /\ b.yy \in BOOLEAN /\ b.depth \in Nat /\ b2.depth \in Nat
  BY <1>5, TopFacts, ActivationFields
<1> HIDE DEF b2
<1>7. b.yy
  BY <1>5, <1>6 DEF b2, Linked, LinkedClose
<1>8. /\ Runs(b2) /\ b.depth \in 1 .. Len(ci)
      /\ \/ ci[b.depth].func = "lua"
         \/ ci[b.depth].func = "pcall" /\ ci[b.depth].ypcall /\ b2.k = "unroll"
  BY <1>5, <1>7 DEF Linked, LinkedClose
<1>9. NothingChanges(m2, m2, t)
  BY <1>2, PopCOnly
<1>10. m2.th = m.th
  BY <1>2, PopCFacts
<1>11. m2.th[t].nCcalls = Cnt(m.cs, Len(m.cs) - 1) /\ m2.th[t].nny = Nyci(m.cs, t, Len(m.cs) - 1)
  <2>1. ~Counts(b)
    BY DEF Counts
  <2>2. /\ Cnt(m.cs, Len(m.cs) - 1) \in Nat /\ Nyci(m.cs, t, Len(m.cs) - 1) \in Nat
        /\ m.th[t].nCcalls = Cnt(m.cs, Len(m.cs) - 1) + (IF Counts(b) THEN 1 ELSE 0)
        /\ m.th[t].nny = Nyci(m.cs, t, Len(m.cs) - 1) + (IF b.inc = "nyci" THEN 1 ELSE 0)
    BY <1>1, CountsBelow
  <2> HIDE DEF m2
  <2> QED BY <1>3, <1>10, <2>1, <2>2
<1> HIDE DEF m2
<1>12. /\ IsM(m2) /\ Core(m2.th, m2.cs) /\ Live(m2.th, m2.cs) /\ TopIs(m2, t, b2, n)
       /\ m2.th[t].status = "OK" /\ m2.mode = m.mode /\ m2.th[t].ci = ci
  <2>1. OnlyCounters(PopC(m), m2, t)
    BY <1>9 DEF NothingChanges, m2
  <2>2. BelowIs(m, t, b, b2)
    BY <1>5 DEF b2
  <2>3. IsM(m2) /\ m.th[t].status = "OK" /\ n = b.depth
    BY <1>1, <1>2, <1>4, <1>10, PopCFacts DEF m2
  <2>4. Core(m.th, m.cs) /\ ~First(m.cs, Len(m.cs))
    BY <1>1, <1>3
  <2> HIDE DEF ci
  <2>5. PopsTo(m, t, b, n, b2, m2)
    BY <1>11, <2>1, <2>2, <2>3, <2>4 DEF PopsTo
  <2>6. /\ Core(m2.th, m2.cs) /\ Live(m2.th, m2.cs) /\ TopIs(m2, t, b2, n)
        /\ m2.th[t].status = "OK" /\ m2.mode = m.mode /\ m2.th[t].ci = m.th[t].ci
    BY <2>5, Popped
  <2> QED BY <2>3, <2>6 DEF ci
<1>13. n > b2.depth
  <2>1. n > 0
    <3> HIDE DEF ci
    <3> QED BY <1>4, <1>6, <1>8
  <2>2. CASE b2.k = "call"
    BY <1>4, <1>5, <1>6, <2>2 DEF Resumes
  <2>3. CASE b2.k = "unroll"
    <3>1. b2.depth = 0
      <4> DEFINE C == m2.cs
                 T == m2.th
      <4>1. Core(T, C) /\ Len(C) > 0 /\ C[Len(C)].k = "unroll" /\ t = C[Len(C)].t /\ b2 = C[Len(C)]
        BY <1>12, <2>3 DEF TopIs
      <4> HIDE DEF C, T
      <4>2. C[Len(C)].depth = 0
        BY <4>1, UnrollAlone
      <4> QED BY <4>1, <4>2
    <3> QED BY <2>1, <3>1
  <2> QED BY <1>8, <2>2, <2>3 DEF Runs
<1>14. \/ ci[n].func = "lua"
       \/ ci[n].func = "pcall" /\ ci[n].ypcall /\ b2.k = "unroll"
  BY <1>4, <1>8
<1> QED BY <1>8, <1>12, <1>13, <1>14 DEF CloseEnded, m2, b2

LEMMA OpCloseDone ==
  ASSUME NEW m, IsM(m), InvM(m), m.mode = "run", NEW t, NEW b, NEW n, TopIs(m, t, b, n),
         b.k = "close", m.cs[Len(m.cs) - 1].k # "prot", Last(m.th[t].ci).func = "lua"
  PROVE  InvM(PopC(m))
<1> DEFINE b2 == m.cs[Len(m.cs) - 1]
           m2 == PopC(m)
<1>1. CloseEnded(m, m2, t, b2, n)
  BY CloseDone
<1> HIDE DEF b2, m2
<1>2. /\ IsM(m2) /\ Core(m2.th, m2.cs) /\ Live(m2.th, m2.cs) /\ TopIs(m2, t, b2, n) /\ Runs(b2)
      /\ n > b2.depth /\ m2.th[t].status = "OK" /\ m2.mode = "run" /\ m2.th[t].ci = m.th[t].ci
  BY SMTT(20), <1>1 DEF CloseEnded
<1>3. n = Len(m2.th[t].ci) /\ m2.th[t].ci[Len(m2.th[t].ci)].func = "lua"
  BY <1>2 DEF TopIs, Last
<1>4. OnTop(m2.th[t].ci, b2, Acts(m2.cs, t), "run")
  BY <1>2, <1>3 DEF OnTop, Runs
<1>5. Inv(m2.th, m2.cs, "run")
  BY <1>2, <1>4, InvHolds
<1> QED BY <1>2, <1>5 DEF InvM, m2

LEMMA FinishpcallkDone ==
  ASSUME NEW m, IsM(m), InvM(m), m.mode = "run", NEW t, NEW b, NEW n, TopIs(m, t, b, n),
         b.k = "close", m.cs[Len(m.cs) - 1].k # "prot", Last(m.th[t].ci).func = "pcall"
  PROVE  InvM(In(EndPcallk(PopC(m), t), "return"))
<1> DEFINE b2 == m.cs[Len(m.cs) - 1]
           m2 == PopC(m)
<1>1. /\ CloseEnded(m, m2, t, b2, n)
      /\ \/ m.th[t].ci[n].func = "lua"
         \/ m.th[t].ci[n].func = "pcall" /\ m.th[t].ci[n].ypcall /\ b2.k = "unroll"
  BY CloseDone
<1> HIDE DEF b2, m2
<1>2. /\ IsM(m2) /\ Core(m2.th, m2.cs) /\ Live(m2.th, m2.cs) /\ TopIs(m2, t, b2, n) /\ Runs(b2)
      /\ n > b2.depth /\ m2.th[t].status = "OK" /\ m2.th[t].ci = m.th[t].ci
  BY <1>1 DEF CloseEnded
<1>3. Last(m.th[t].ci) = m.th[t].ci[n]
  <2>1. n = Len(m.th[t].ci)
    BY DEF TopIs
  <2> QED BY <2>1 DEF Last
<1>4. Last(m2.th[t].ci).func = "pcall" /\ Last(m2.th[t].ci).ypcall /\ b2.k = "unroll"
  BY <1>1, <1>2, <1>3
<1>5. InvM(In(EndPcallk(m2, t), "return"))
  BY <1>2, <1>4, PcallkReturns
<1> QED BY <1>5 DEF m2

EndsCcall(m, t, inc, c, y) ==
  /\ IsM(m) /\ Len(m.cs) > 0 /\ t \in Threads /\ c \in Nat /\ y \in Nat
  /\ m.th[t].nCcalls = c + (IF inc = "none" THEN 0 ELSE 1)
  /\ m.th[t].nny = y + (IF inc = "nyci" THEN 1 ELSE 0)
LEMMA EndsCcallFacts ==
  ASSUME NEW m, NEW t, NEW inc, NEW c, NEW y, EndsCcall(m, t, inc, c, y)
  PROVE  /\ OnlyCounters(PopC(m), EndCcall(m, t, inc), t)
         /\ EndCcall(m, t, inc).th[t].nCcalls = c /\ EndCcall(m, t, inc).th[t].nny = y
<1>1. IsM(m) /\ Len(m.cs) > 0 /\ t \in Threads /\ c \in Nat /\ y \in Nat
  BY DEF EndsCcall
<1>2. /\ m.th[t].nCcalls = c + (IF inc = "none" THEN 0 ELSE 1)
      /\ m.th[t].nny = y + (IF inc = "nyci" THEN 1 ELSE 0)
  BY DEF EndsCcall
<1> QED BY <1>1, <1>2, EndCcallFacts

\* luaV_execute returns to ccall
CallEnded(m, m2, t, b, b2, n) ==
  /\ IsM(m2) /\ Core(m2.th, m2.cs) /\ Live(m2.th, m2.cs) /\ TopIs(m2, t, b2, n)
  /\ m2.th[t].status = "OK" /\ m2.mode = m.mode /\ n = b.depth /\ LinkedCall(m2.th[t].ci, b, b2)
  /\ b2 \in Activation /\ m2.th[t].ci = m.th[t].ci
  /\ ~Resumes(b2) => b2.depth <= b.depth /\ (b2.k = "call" => b2.depth < b.depth)
LEMMA CallEnds ==
  ASSUME NEW m, IsM(m), InvM(m), m.mode = "return", NEW t, NEW b, NEW n, TopIs(m, t, b, n),
         b.k = "call"
  PROVE  CallEnded(m, EndCcall(m, t, b.inc), t, b, m.cs[Len(m.cs) - 1], n)
<1> DEFINE b2 == m.cs[Len(m.cs) - 1]
           ci == m.th[t].ci
           m2 == EndCcall(m, t, b.inc)
           c  == Cnt(m.cs, Len(m.cs) - 1)
           y  == Nyci(m.cs, t, Len(m.cs) - 1)
<1>1. /\ Core(m.th, m.cs) /\ OnTop(ci, b, Acts(m.cs, t), "return") /\ Live(m.th, m.cs)
      /\ m.th[t].status = "OK" /\ Good(m.th, m.cs, Len(m.cs))
  BY TopReady
<1>2. b = m.cs[Len(m.cs)] /\ n = Len(ci) /\ Len(m.cs) > 0
  BY SMTT(20) DEF TopIs
<1>3. ~First(m.cs, Len(m.cs))
  BY <1>1, <1>2 DEF Good, BlockStarts
<1>4. n = b.depth
  BY <1>1, <1>2 DEF OnTop
<1>5. /\ BelowIs(m, t, b, b2) /\ b2 \in Activation /\ Linked(ci, b, b2)
      /\ ~Resumes(b2) => b2.depth <= b.depth /\ (b2.k = "call" => b2.depth < b.depth)
  BY <1>1, <1>3, BelowFacts
<1>6. /\ c \in Nat /\ y \in Nat
      /\ m.th[t].nCcalls = c + (IF Counts(b) THEN 1 ELSE 0)
      /\ m.th[t].nny = y + (IF b.inc = "nyci" THEN 1 ELSE 0)
  BY <1>1, CountsBelow
<1>7. Counts(b) <=> b.inc # "none"
  BY DEF Counts
<1>8. t \in Threads
  BY TopFacts
<1> HIDE DEF c, y, b2, ci
<1>9. m.th[t].nCcalls = c + (IF b.inc = "none" THEN 0 ELSE 1)
  BY <1>6, <1>7
<1>10. OnlyCounters(PopC(m), m2, t) /\ m2.th[t].nCcalls = c /\ m2.th[t].nny = y
  <2>1. /\ c \in Nat /\ y \in Nat /\ Len(m.cs) > 0
        /\ m.th[t].nny = y + (IF b.inc = "nyci" THEN 1 ELSE 0)
    BY <1>2, <1>6
  <2>2. EndsCcall(m, t, b.inc, c, y)
    BY <1>8, <1>9, <2>1 DEF EndsCcall
  <2> QED BY <2>2, EndsCcallFacts
<1> HIDE DEF m2
<1>11. PopsTo(m, t, b, n, b2, m2)
  BY <1>1, <1>3, <1>4, <1>5, <1>10 DEF PopsTo, c, y
<1>12. /\ IsM(m2) /\ Core(m2.th, m2.cs) /\ Live(m2.th, m2.cs) /\ TopIs(m2, t, b2, n)
       /\ m2.th[t].status = "OK" /\ m2.mode = m.mode /\ m2.th[t].ci = m.th[t].ci
  BY <1>11, Popped
<1>13. LinkedCall(m2.th[t].ci, b, b2)
  BY <1>5, <1>12 DEF Linked, ci
<1>14. CallEnded(m, m2, t, b, b2, n)
  BY <1>4, <1>5, <1>12, <1>13 DEF CallEnded
<1> QED BY <1>14 DEF m2, b2

\* ... which luaF_close has called, ...
LEMMA MethodReturns ==
  ASSUME NEW m, IsM(m), InvM(m), m.mode = "return", NEW t, NEW b, NEW n, TopIs(m, t, b, n),
         b.k = "call", m.cs[Len(m.cs) - 1].k = "close"
  PROVE  InvM(In(EndCcall(m, t, b.inc), "run"))
<1> DEFINE b2 == m.cs[Len(m.cs) - 1]
           m2 == EndCcall(m, t, b.inc)
<1>1. CallEnded(m, m2, t, b, b2, n) /\ b2.k = "close"
  BY CallEnds
<1> HIDE DEF b2, m2
<1>2. /\ IsM(m2) /\ Core(m2.th, m2.cs) /\ Live(m2.th, m2.cs) /\ TopIs(m2, t, b2, n)
      /\ m2.th[t].status = "OK" /\ b2.depth = n
  BY <1>1 DEF CallEnded, LinkedCall
<1>3. Len(m2.th[t].ci) = b2.depth
  BY <1>2 DEF TopIs
<1>4. OnTop(m2.th[t].ci, b2, Acts(m2.cs, t), "run")
  BY <1>1, <1>3 DEF OnTop, Runs
<1>5. InvM(In(m2, "run"))
  BY <1>2, <1>4, InvHolds
<1> QED BY <1>5 DEF m2

\* ... luaD_rawrunprotected, ...
LEMMA BodyReturns ==
  ASSUME NEW m, IsM(m), InvM(m), m.mode = "return", NEW t, NEW b, NEW n, TopIs(m, t, b, n),
         b.k = "call", m.cs[Len(m.cs) - 1].k = "prot"
  PROVE  InvM(EndCcall(m, t, b.inc))
<1> DEFINE b2 == m.cs[Len(m.cs) - 1]
           m2 == EndCcall(m, t, b.inc)
<1>1. CallEnded(m, m2, t, b, b2, n) /\ b2.k = "prot"
  BY CallEnds
<1> HIDE DEF b2, m2
<1>2. /\ IsM(m2) /\ Core(m2.th, m2.cs) /\ Live(m2.th, m2.cs) /\ TopIs(m2, t, b2, n)
      /\ m2.th[t].status = "OK" /\ m2.mode = "return"
      /\ \/ b2.use = "resume" /\ n = 0
         \/ b2.use = "pcall" /\ n = b2.depth
  BY <1>1 DEF CallEnded, LinkedCall
<1>3. /\ b2.use = "resume" => Len(m2.th[t].ci) = 0
      /\ b2.use # "resume" => Len(m2.th[t].ci) = b2.depth
      /\ b2.use # "closep"
  BY <1>2 DEF TopIs
<1>4. OnTop(m2.th[t].ci, b2, Acts(m2.cs, t), "return")
  BY <1>1, <1>3 DEF OnTop, Runs
<1>5. Inv(m2.th, m2.cs, "return")
  BY <1>2, <1>4, InvHolds
<1> QED BY <1>2, <1>5 DEF InvM, m2

\* ... or a function of the same luaV_execute
CallOfRuns(m, m2, t, b, b2, n) ==
  /\ IsM(m2) /\ Core(m2.th, m2.cs) /\ Live(m2.th, m2.cs) /\ TopIs(m2, t, b2, n) /\ Runs(b2)
  /\ m2.th[t].status = "OK" /\ n > b2.depth /\ m2.th[t].ci = m.th[t].ci
  /\ LET f == Last(m2.th[t].ci)
     IN  f.func \in {"lua", "call"} \/ (f.func = "pcall" /\ f.ypcall)
LEMMA CallReturns ==
  ASSUME NEW m, IsM(m), InvM(m), m.mode = "return", NEW t, NEW b, NEW n, TopIs(m, t, b, n),
         b.k = "call", Runs(m.cs[Len(m.cs) - 1])
  PROVE  CallOfRuns(m, EndCcall(m, t, b.inc), t, b, m.cs[Len(m.cs) - 1], n)
<1> DEFINE b2 == m.cs[Len(m.cs) - 1]
           m2 == EndCcall(m, t, b.inc)
           ci == m2.th[t].ci
<1>1. CallEnded(m, m2, t, b, b2, n) /\ Runs(b2)
  BY CallEnds
<1> HIDE DEF b2, m2
<1>2. /\ IsM(m2) /\ Core(m2.th, m2.cs) /\ Live(m2.th, m2.cs) /\ TopIs(m2, t, b2, n)
      /\ m2.th[t].status = "OK" /\ n = b.depth /\ LinkedCall(ci, b, b2) /\ b2 \in Activation
      /\ ~Resumes(b2) => b2.depth <= b.depth /\ (b2.k = "call" => b2.depth < b.depth)
  BY <1>1 DEF CallEnded
<1>3. /\ b.depth \in 1 .. Len(ci)
      /\ \/ ci[b.depth].func \in {"lua", "call"}
         \/ ci[b.depth].func = "pcall" /\ ci[b.depth].ypcall
  BY <1>1, <1>2 DEF LinkedCall
<1>4. Len(ci) = n /\ Last(ci) = ci[n]
  BY <1>2, Zenon DEF TopIs, Last
<1>5. n > b2.depth
  <2>1. n \in Nat /\ n > 0
    <3>1. n \in Nat
      BY <1>2, TopFacts
    <3>2. n \in 1 .. n
      BY <1>2, <1>3, <1>4
    <3> QED BY <3>1, <3>2
  <2>2. CASE b2.k = "call"
    BY <1>2, <2>2 DEF Resumes
  <2>3. CASE b2.k = "unroll"
    <3> DEFINE C == m2.cs
               T == m2.th
    <3>1. Core(T, C) /\ Len(C) > 0 /\ C[Len(C)].k = "unroll" /\ t = C[Len(C)].t /\ b2 = C[Len(C)]
      BY <1>2, <2>3 DEF TopIs
    <3> HIDE DEF C, T, ci
    <3>2. C[Len(C)].depth = 0
      BY <3>1, UnrollAlone
    <3>3. b2.depth = 0
      BY <3>1, <3>2
    <3> QED BY SMTT(20), <2>1, <3>3
  <2> QED BY <1>1, <2>2, <2>3 DEF Runs
<1>6. Last(ci).func \in {"lua", "call"} \/ (Last(ci).func = "pcall" /\ Last(ci).ypcall)
  BY <1>2, <1>3, <1>4
<1>7. CallOfRuns(m, m2, t, b, b2, n)
  <2>1. m2.th[t].ci = m.th[t].ci
    BY <1>1 DEF CallEnded
  <2> QED BY <1>1, <1>2, <1>5, <1>6, <2>1 DEF CallOfRuns
<1> QED BY <1>7 DEF m2, b2

LEMMA LuaReturned ==
  ASSUME NEW m, IsM(m), InvM(m), m.mode = "return", NEW t, NEW b, NEW n, TopIs(m, t, b, n),
         b.k = "call", Runs(m.cs[Len(m.cs) - 1]), Last(m.th[t].ci).func = "lua"
  PROVE  InvM(In(EndCcall(m, t, b.inc), "run"))
<1> DEFINE b2 == m.cs[Len(m.cs) - 1]
           m2 == EndCcall(m, t, b.inc)
<1>1. CallOfRuns(m, m2, t, b, b2, n)
  BY CallReturns
<1> HIDE DEF b2, m2
<1>2. /\ IsM(m2) /\ Core(m2.th, m2.cs) /\ Live(m2.th, m2.cs) /\ TopIs(m2, t, b2, n) /\ Runs(b2)
      /\ n > b2.depth /\ m2.th[t].status = "OK" /\ m2.th[t].ci = m.th[t].ci
  BY SMTT(20), <1>1 DEF CallOfRuns
<1>3. n = Len(m2.th[t].ci) /\ m2.th[t].ci[Len(m2.th[t].ci)].func = "lua"
  BY <1>2 DEF TopIs, Last
<1>4. OnTop(m2.th[t].ci, b2, Acts(m2.cs, t), "run")
  BY <1>2, <1>3 DEF OnTop, Runs
<1>5. InvM(In(m2, "run"))
  BY <1>2, <1>4, InvHolds
<1> QED BY <1>5 DEF m2

LEMMA CReturned ==
  ASSUME NEW m, IsM(m), InvM(m), m.mode = "return", NEW t, NEW b, NEW n, TopIs(m, t, b, n),
         b.k = "call", Runs(m.cs[Len(m.cs) - 1]), Last(m.th[t].ci).func # "lua",
         NEW m2, m2 = EndCcall(m, t, b.inc)
  PROVE  InvM(In(IF Last(m.th[t].ci).func = "pcall" THEN EndPcallk(m2, t) ELSE PopCI(m2, t),
                 "run"))
<1>1. CallOfRuns(m, m2, t, b, m.cs[Len(m.cs) - 1], n)
  BY CallReturns
<1> DEFINE b2 == m.cs[Len(m.cs) - 1]
<1>2. /\ IsM(m2) /\ Core(m2.th, m2.cs) /\ Live(m2.th, m2.cs) /\ TopIs(m2, t, b2, n) /\ Runs(b2)
      /\ n > b2.depth /\ m2.th[t].status = "OK" /\ m2.th[t].ci = m.th[t].ci
  BY <1>1 DEF CallOfRuns
<1>3. \/ Last(m2.th[t].ci).func \in {"lua", "call"}
      \/ Last(m2.th[t].ci).func = "pcall" /\ Last(m2.th[t].ci).ypcall
  BY <1>1 DEF CallOfRuns
<1> HIDE DEF b2
<1>4. CASE Last(m.th[t].ci).func = "pcall"
  <2>1. Last(m2.th[t].ci).func = "pcall" /\ Last(m2.th[t].ci).ypcall
    BY <1>2, <1>3, <1>4
  <2>2. InvM(In(EndPcallk(m2, t), "run"))
    BY <1>2, <2>1, PcallkReturns
  <2> QED BY <1>4, <2>2
<1>5. CASE Last(m.th[t].ci).func # "pcall"
  <2>1. Last(m2.th[t].ci).func \notin {"lua", "pcall"}
    BY <1>2, <1>5
  <2>2. InvM(In(PopCI(m2, t), "run"))
    BY <1>2, <2>1, CReturns
  <2> QED BY <1>5, <2>2
<1> QED BY <1>4, <1>5

\* unroll goes on, or has nothing left to do
LEMMA UnrollFacts ==
  ASSUME NEW m, IsM(m), InvM(m), m.mode = "return", NEW t, NEW b, NEW n, TopIs(m, t, b, n),
         b.k = "unroll"
  PROVE  /\ Core(m.th, m.cs) /\ Live(m.th, m.cs) /\ m.th[t].status = "OK" /\ b.depth = 0
         /\ Good(m.th, m.cs, Len(m.cs)) /\ b.inc = "none" /\ n \in Nat
         /\ n > 0 => Continues(m.th[t].ci[n]) /\ m.th[t].ci[n] \in CallInfo
<1> DEFINE C  == m.cs
           T  == m.th
           ci == m.th[t].ci
<1>1. /\ Core(T, C) /\ OnTop(ci, b, Acts(C, t), "return") /\ Live(T, C)
      /\ T[t].status = "OK" /\ Good(T, C, Len(C))
  BY SMTT(20), TopReady
<1>2. Len(C) > 0 /\ b = C[Len(C)] /\ t = b.t /\ n = Len(ci) /\ b.inc = "none"
  BY <1>1 DEF TopIs, Good
<1>3. n \in Nat /\ ci \in Seq(CallInfo)
  BY TopFacts
<1>4. b.depth = 0
  <2>1. C[Len(C)].k = "unroll" /\ t = C[Len(C)].t
    BY <1>2
  <2> HIDE DEF C, T
  <2>2. C[Len(C)].depth = 0
    BY <1>1, <1>2, <2>1, UnrollAlone
  <2> QED BY <1>2, <2>2
<1>5. n > 0 => Continues(ci[n]) /\ ci[n] \in CallInfo
  <2>1. Len(ci) > 0 => Continues(ci[Len(ci)])
    BY <1>1 DEF OnTop
  <2>2. n > 0 => n \in 1 .. n
    BY <1>3
  <2> HIDE DEF ci
  <2> QED BY <1>2, <1>3, <2>1, <2>2
<1> QED BY <1>1, <1>2, <1>3, <1>4, <1>5, Zenon

LEMMA UnrollEnds ==
  ASSUME NEW m, IsM(m), InvM(m), m.mode = "return", NEW t, NEW b, NEW n, TopIs(m, t, b, n),
         b.k = "unroll", n = 0
  PROVE  InvM(PopC(m))
<1> DEFINE C  == m.cs
           T  == m.th
           b2 == m.cs[Len(m.cs) - 1]
           m2 == PopC(m)
<1>1. /\ Core(T, C) /\ Live(T, C) /\ T[t].status = "OK" /\ b.depth = 0 /\ b.inc = "none"
      /\ Good(T, C, Len(C))
  BY UnrollFacts
<1>2. Len(C) > 0 /\ b = C[Len(C)] /\ t = b.t /\ n = Len(T[t].ci)
  BY DEF TopIs
<1>3. Len(C) > 1 /\ Resumes(b2) /\ b2.t = t
  <2>1. C[Len(C)].k = "unroll" /\ t = C[Len(C)].t
    BY <1>2
  <2> HIDE DEF C, T
  <2>2. Len(C) > 1 /\ Resumes(C[Len(C) - 1]) /\ C[Len(C) - 1].t = t
    BY <1>1, <1>2, <2>1, UnrollAlone
  <2> QED BY <2>2 DEF C
<1>4. ~First(C, Len(C))
  BY Zenon, <1>1, <1>2 DEF Good, BlockStarts
<1>5. BelowIs(m, t, b, b2)
  BY <1>3 DEF BelowIs
<1>6. NothingChanges(m2, m2, t) /\ m2.th = T /\ m2.mode = "return"
  BY <1>2, PopCOnly, PopCFacts
<1>7. m2.th[t].nCcalls = Cnt(m.cs, Len(m.cs) - 1) /\ m2.th[t].nny = Nyci(m.cs, t, Len(m.cs) - 1)
  <2>1. ~Counts(b)
    BY DEF Counts
  <2>2. /\ Cnt(m.cs, Len(m.cs) - 1) \in Nat /\ Nyci(m.cs, t, Len(m.cs) - 1) \in Nat
        /\ m.th[t].nCcalls = Cnt(m.cs, Len(m.cs) - 1) + (IF Counts(b) THEN 1 ELSE 0)
        /\ m.th[t].nny = Nyci(m.cs, t, Len(m.cs) - 1) + (IF b.inc = "nyci" THEN 1 ELSE 0)
    BY <1>1, CountsBelow
  <2> HIDE DEF m2
  <2> QED BY <1>1, <1>6, <2>1, <2>2
<1>8. OnlyCounters(PopC(m), m2, t)
  BY <1>6 DEF NothingChanges
<1> HIDE DEF m2, b2
<1>9. PopsTo(m, t, b, n, b2, m2)
  BY <1>1, <1>4, <1>5, <1>7, <1>8 DEF PopsTo
<1>10. /\ IsM(m2) /\ Core(m2.th, m2.cs) /\ Live(m2.th, m2.cs) /\ TopIs(m2, t, b2, n)
       /\ m2.th[t].status = "OK"
  BY <1>9, Popped
<1>11. Len(m2.th[t].ci) = 0
  BY <1>10 DEF TopIs
<1>12. OnTop(m2.th[t].ci, b2, Acts(m2.cs, t), "return")
  BY <1>3, <1>11 DEF OnTop, Resumes
<1>13. Inv(m2.th, m2.cs, "return")
  BY <1>10, <1>12, InvHolds
<1> QED BY <1>6, <1>13 DEF InvM, m2

LEMMA UnrollRuns ==
  ASSUME NEW m, IsM(m), InvM(m), m.mode = "return", NEW t, NEW b, NEW n, TopIs(m, t, b, n),
         b.k = "unroll", n > 0, Last(m.th[t].ci).func = "lua"
  PROVE  InvM(In(m, "run"))
<1>1. Core(m.th, m.cs) /\ Live(m.th, m.cs) /\ m.th[t].status = "OK" /\ b.depth = 0
  BY SMTT(20), UnrollFacts
<1>2. Len(m.th[t].ci) > b.depth /\ m.th[t].ci[Len(m.th[t].ci)].func = "lua"
  BY <1>1 DEF TopIs, Last
<1>3. OnTop(m.th[t].ci, b, Acts(m.cs, t), "run")
  BY <1>2 DEF OnTop
<1> QED BY <1>1, <1>3, InvHolds

LEMMA FinishesPcallk ==
  ASSUME NEW m, IsM(m), InvM(m), m.mode = "return", NEW t, NEW b, NEW n, TopIs(m, t, b, n),
         b.k = "unroll", n > 0, Last(m.th[t].ci).func # "lua", NEW f, f = Last(m.th[t].ci)
  PROVE  InvM(IF f.recst # "OK" THEN Close(m, t, f.level, f.recst, TRUE) ELSE EndPcallk(m, t))
<1> DEFINE ci == m.th[t].ci
<1>1. /\ Core(m.th, m.cs) /\ Live(m.th, m.cs) /\ m.th[t].status = "OK" /\ b.depth = 0
      /\ Continues(ci[n]) /\ ci[n] \in CallInfo /\ n \in Nat
  BY UnrollFacts
<1>2. f = ci[n]
  BY DEF TopIs, Last
<1>3. f.func = "pcall" /\ f.ypcall
  BY <1>1, <1>2 DEF Continues
<1>4. f.level \in Nat /\ f.recst \in {"OK", "ERR"}
  BY <1>1, <1>2, CallInfoFields
<1>5. CloseReady(ci, b, n, TRUE) /\ Runs(b) /\ n > b.depth
  BY <1>1, <1>2, <1>3 DEF CloseReady, Runs
<1>6. InvM(Close(m, t, f.level, f.recst, TRUE))
  BY <1>1, <1>4, <1>5, CloseBegins
<1>7. InvM(In(EndPcallk(m, t), "return"))
  BY <1>1, <1>3, <1>5, PcallkReturns
<1>8. InvM(EndPcallk(m, t))
  <2>1. t \in Threads /\ Len(ci) > 0
    BY TopFacts DEF TopIs
  <2>2. IsM(EndPcallk(m, t)) /\ EndPcallk(m, t).mode = "return"
    BY <2>1, EndPcallkFacts DEF OnlyCI
  <2> DEFINE m2 == EndPcallk(m, t)
  <2> HIDE DEF m2
  <2>3. IsM(m2) /\ m2.mode = "return" /\ InvM(In(m2, "return"))
    BY <1>7, <2>2 DEF m2
  <2>4. In(m2, "return").th = m2.th /\ In(m2, "return").cs = m2.cs
        /\ In(m2, "return").mode = m2.mode
    BY <2>3, InFacts
  <2>5. InvM(m2)
    BY <2>3, <2>4 DEF InvM
  <2> QED BY SMTT(20), <2>5 DEF m2
<1> QED BY <1>6, <1>8

-----------------------------------------------------------------------------
(* The end of a protected call *)

\* C[h] of thread u is left, with everything above it, and has restored the counters
ProtOver(T, C, h, u, m) ==
  /\ Core(T, C) /\ h \in 1 .. Len(C) /\ C[h].k = "prot" /\ u = C[h].t /\ u = C[Len(C)].t
  /\ \A j \in h + 1 .. Len(C) : C[j].t = u /\ C[j].depth >= Len(T[u].ci)
  /\ T[u].status = "OK" /\ Len(T[u].ci) = (IF Resumes(C[h]) THEN 0 ELSE C[h].depth)
  /\ IsM(m) /\ Len(m.cs) = h - 1 /\ \A i \in 1 .. h - 1 : m.cs[i] = C[i]
  /\ Others(T, m.th, u) /\ m.th[u].ci = T[u].ci /\ m.th[u].status = T[u].status
  /\ m.th[u].body = T[u].body /\ m.th[u].errfunc = T[u].errfunc
  /\ m.th[u].nCcalls = C[h].nCcalls /\ m.th[u].nny = C[h].nny

LEMMA ProtTypes ==
  ASSUME NEW T, NEW C, NEW h, NEW u, NEW m, ProtOver(T, C, h, u, m)
  PROVE  /\ C \in Seq(Activation) /\ IsTh(T) /\ Len(C) \in Nat /\ h \in Nat /\ Len(C) > 0
         /\ u \in Threads /\ u \in ChainOf(C) /\ C[h] \in Activation /\ C[h].depth \in Nat
         /\ T[u].ci \in Seq(CallInfo) /\ Good(T, C, h) /\ StatusOf(T, C, u)
         /\ IsTh(m.th) /\ m.cs \in Seq(Activation) /\ C[h].inc = "none" /\ Stack(T, C)
         /\ IsInner(T[u].ci, Len(T[u].ci), T[u].errfunc)
<1>1. Core(T, C) /\ h \in 1 .. Len(C) /\ u = C[h].t /\ IsM(m) /\ T[u].status = "OK"
      /\ C[h].k = "prot"
  BY DEF ProtOver
<1>2. C \in Seq(Activation) /\ IsTh(T) /\ Good(T, C, h) /\ Stack(T, C)
  BY <1>1 DEF Core, Types, IsTh, Stack
<1>3. Len(C) \in Nat
  BY <1>2
<1>4. h \in Nat /\ Len(C) > 0
  BY <1>1, <1>3
<1>5. C[h] \in Activation /\ u \in Threads /\ C[h].depth \in Nat /\ u \in ChainOf(C)
  BY <1>1, <1>2, ActivationsFields DEF ChainOf
<1>6. T[u].ci \in Seq(CallInfo)
  BY <1>2, <1>5, ThreadFields DEF IsTh
<1>7. StatusOf(T, C, u)
  BY <1>1, <1>5 DEF Core, States
<1>8. C[h].inc = "none"
  BY <1>1, <1>2 DEF Good
<1>9. IsInner(T[u].ci, Len(T[u].ci), T[u].errfunc)
  BY <1>1, <1>5 DEF Core, Frames
<1> QED BY <1>1, <1>2, <1>3, <1>4, <1>5, <1>6, <1>7, <1>8, <1>9, MachineParts

\* the thread is left altogether, or the activation below is one of it
LEMMA ProtBelow ==
  ASSUME NEW T, NEW C, NEW h, NEW u, NEW m, ProtOver(T, C, h, u, m)
  PROVE  IF First(C, h)
         THEN /\ u \notin ChainOf(m.cs) /\ Len(T[u].ci) = 0
              /\ u = MainThread => h = 1 /\ C[h].nny = 1 /\ C[h].nCcalls = 0
         ELSE /\ h > 1 /\ C[h - 1].t = u /\ ~Resumes(C[h])
              /\ ~Resumes(C[h - 1]) => /\ C[h - 1].depth <= C[h].depth
                                       /\ C[h - 1].k = "call" => C[h - 1].depth < C[h].depth
<1>1. /\ Core(T, C) /\ h \in 1 .. Len(C) /\ C[h].k = "prot" /\ u = C[h].t
      /\ Len(T[u].ci) = (IF Resumes(C[h]) THEN 0 ELSE C[h].depth)
      /\ Len(m.cs) = h - 1 /\ \A i \in 1 .. h - 1 : m.cs[i] = C[i]
  BY DEF ProtOver
<1>2. /\ C \in Seq(Activation) /\ Len(C) \in Nat /\ h \in Nat /\ Good(T, C, h) /\ Stack(T, C)
      /\ C[h].inc = "none"
  BY ProtTypes
<1>3. CASE First(C, h)
  <2>1. \A e \in 1 .. h - 1 : C[e].t # u
    BY <1>1, <1>2, <1>3, FirstIsProt
  <2>2. u \notin ChainOf(m.cs)
    BY <1>1, <2>1 DEF ChainOf
  <2>3. BlockStarts(T, C, h)
    BY <1>2, <1>3 DEF Good
  <2>4. Len(T[u].ci) = 0
    <3>1. h = 1 \/ h > 1
      BY <1>1, <1>2
    <3>2. Resumes(C[h]) \/ C[h].depth = 0
      BY <1>1, <2>3, <3>1 DEF BlockStarts, Resumes
    <3> QED BY <1>1, <3>2
  <2>5. ASSUME u = MainThread
        PROVE  h = 1 /\ C[h].nny = 1 /\ C[h].nCcalls = 0
    <3>1. h = 1 \/ h > 1
      BY <1>1, <1>2
    <3>2. h = 1 /\ ~Resumes(C[h])
      BY <1>1, <2>3, <2>5, <3>1 DEF BlockStarts, Resumes, IsPcall
    <3>3. C[1].nny = Nyci(C, u, 1) /\ C[1].nCcalls = Cnt(C, 1)
      BY <1>1, <1>2, <3>2 DEF Good, Saved
    <3>4. /\ Cnt(C, 0) = 0 /\ Nyci(C, u, 0) = 1
      <4>1. \A i \in 1 .. 0 : C[i].t # u
        OBVIOUS
      <4> QED BY <2>5, <4>1, NoneYet
    <3>5. /\ Cnt(C, 0 + 1) = Cnt(C, 0) + (IF Counts(C[0 + 1]) THEN 1 ELSE 0)
          /\ Nyci(C, u, 0 + 1) = Nyci(C, u, 0)
               + (IF C[0 + 1].t = u /\ C[0 + 1].inc = "nyci" THEN 1 ELSE 0)
      BY OneMore
    <3>6. ~Counts(C[1]) /\ C[1].inc # "nyci"
      BY <1>1, <1>2, <3>2 DEF Counts, Resumes
    <3> QED BY <3>2, <3>3, <3>4, <3>5, <3>6
  <2> QED BY <1>3, <2>2, <2>4, <2>5
<1>4. CASE ~First(C, h)
  <2>1. h # 1 /\ C[h - 1].t = u
    BY <1>1, <1>4 DEF First
  <2>2. h > 1 /\ h - 1 \in 1 .. h - 1
    BY <1>1, <1>2, <2>1
  <2>3. ~Resumes(C[h])
    BY <1>1, <1>2, <1>4, ResumeFirst
  <2>4. Deeper(C, h)
    BY <1>2 DEF Good
  <2> QED BY <1>1, <1>4, <2>1, <2>2, <2>3, <2>4 DEF Deeper
<1> QED BY <1>3, <1>4

LEMMA ProtEnds ==
  ASSUME NEW T, NEW C, NEW h, NEW u, NEW m, ProtOver(T, C, h, u, m)
  PROVE  Core(m.th, m.cs)
<1> DEFINE T2 == m.th
           C2 == m.cs
           ci == T[u].ci
<1>1. /\ Core(T, C) /\ h \in 1 .. Len(C) /\ C[h].k = "prot" /\ u = C[h].t
      /\ \A j \in h + 1 .. Len(C) : C[j].t = u /\ C[j].depth >= Len(ci)
      /\ T[u].status = "OK" /\ Len(ci) = (IF Resumes(C[h]) THEN 0 ELSE C[h].depth)
      /\ Len(C2) = h - 1 /\ \A i \in 1 .. h - 1 : C2[i] = C[i]
      /\ \A t \in Threads \ {u} : T2[t] = T[t]
      /\ T2[u].ci = ci /\ T2[u].status = T[u].status
      /\ T2[u].body = T[u].body /\ T2[u].errfunc = T[u].errfunc
      /\ T2[u].nCcalls = C[h].nCcalls /\ T2[u].nny = C[h].nny
  BY DEF ProtOver, Others
<1>2. /\ C \in Seq(Activation) /\ IsTh(T) /\ Len(C) \in Nat /\ h \in Nat /\ Len(C) > 0
      /\ u \in Threads /\ u \in ChainOf(C) /\ C[h].depth \in Nat
      /\ ci \in Seq(CallInfo) /\ Good(T, C, h) /\ StatusOf(T, C, u)
      /\ IsTh(T2) /\ C2 \in Seq(Activation) /\ IsInner(ci, Len(ci), T[u].errfunc)
  BY ProtTypes
<1>3. First(C, h) => /\ u \notin ChainOf(C2) /\ Len(ci) = 0
                     /\ u = MainThread => C[h].nny = 1 /\ C[h].nCcalls = 0
  BY ProtBelow
<1>4. ~First(C, h) => /\ h > 1 /\ C[h - 1].t = u /\ ~Resumes(C[h])
                      /\ ~Resumes(C[h - 1]) => C[h - 1].depth <= C[h].depth
  BY ProtBelow
<1> HIDE DEF T2, C2, ci
<1>5. /\ Len(C2) <= Len(C) /\ \A i \in 1 .. Len(C2) : C2[i] = C[i]
  BY <1>1, <1>2
<1>6. \A i \in Len(C2) + 1 .. Len(C) : C[i].t = u /\ C[i].depth >= Len(ci)
  <2>1. C[h].depth >= Len(ci)
    <3>1. Len(ci) = 0 \/ Len(ci) = C[h].depth
      BY <1>1
    <3>2. Len(ci) \in Nat
      BY <1>2
    <3> QED BY <1>2, <3>1, <3>2
  <2>2. \A i \in Len(C2) + 1 .. Len(C) : i = h \/ i \in h + 1 .. Len(C)
    BY <1>1, <1>2
  <2> QED BY <1>1, <2>1, <2>2
<1>7. u \in ChainOf(C2) => C2[Len(C2)].t = u /\ (~Resumes(C2[Len(C2)]) => C2[Len(C2)].depth <= Len(ci))
  <2> SUFFICES ASSUME u \in ChainOf(C2)
               PROVE  C2[Len(C2)].t = u /\ (~Resumes(C2[Len(C2)]) => C2[Len(C2)].depth <= Len(ci))
    OBVIOUS
  <2>1. ~First(C, h)
    BY <1>3
  <2>2. h > 1 /\ C[h - 1].t = u /\ ~Resumes(C[h])
        /\ (~Resumes(C[h - 1]) => C[h - 1].depth <= C[h].depth)
    BY <1>4, <2>1
  <2>3. C2[h - 1] = C[h - 1]
    BY <1>1, <1>2, <2>2
  <2>4. Len(ci) = C[h].depth /\ Len(C2) = h - 1
    BY <1>1, <2>2
  <2> QED BY <2>2, <2>3, <2>4
<1>8. StatusOf(T2, C2, u)
  <2>1. u \notin ChainOf(C2) => Len(ci) = 0
    <3> SUFFICES ASSUME u \notin ChainOf(C2)
                 PROVE  Len(ci) = 0
      OBVIOUS
    <3>1. CASE First(C, h)
      BY <1>3, <3>1
    <3>2. CASE ~First(C, h)
      <4>1. h > 1 /\ C[h - 1].t = u
        BY <1>4, <3>2
      <4>2. h - 1 \in 1 .. Len(C2) /\ C2[h - 1] = C[h - 1]
        BY <1>1, <1>2, <4>1
      <4> QED BY <4>1, <4>2 DEF ChainOf
    <3> QED BY <3>1, <3>2
  <2>2. T2[u].status = "OK" /\ ~T2[u].body /\ T2[u].ci = ci
    BY <1>1, <1>2 DEF StatusOf
  <2> QED BY <2>1, <2>2 DEF StatusOf
<1>9. u = MainThread /\ MainThread \notin ChainOf(C2) => T2[u].nny = 1 /\ T2[u].nCcalls = 0
  <2> SUFFICES ASSUME u = MainThread, u \notin ChainOf(C2)
               PROVE  T2[u].nny = 1 /\ T2[u].nCcalls = 0
    OBVIOUS
  <2>1. First(C, h)
    <3> SUFFICES ASSUME ~First(C, h)
                 PROVE  FALSE
      OBVIOUS
    <3>1. h > 1 /\ C[h - 1].t = u
      BY <1>4
    <3>2. h - 1 \in 1 .. Len(C2) /\ C2[h - 1] = C[h - 1]
      BY <1>1, <1>2, <3>1
    <3> QED BY <3>1, <3>2 DEF ChainOf
  <2> QED BY <1>1, <1>3, <2>1
<1>10. Alike(T[u].ci, T2[u].ci, Len(T2[u].ci)) /\ IsInner(T2[u].ci, Len(T2[u].ci), T2[u].errfunc)
  <2>1. T[u].ci = ci /\ T2[u].ci = ci /\ Len(ci) \in Nat /\ T2[u].errfunc = T[u].errfunc
    BY <1>1, <1>2 DEF ci
  <2>2. Len(ci) <= Len(ci)
    BY <2>1
  <2> QED BY <1>2, <2>1, <2>2 DEF Alike
<1>11. \A i \in Len(C2) + 1 .. Len(C) : C[i].t = u /\ C[i].depth >= Len(T2[u].ci)
  BY <1>1, <1>6
<1>12. u \in ChainOf(C2) /\ ~Resumes(C2[Len(C2)]) => C2[Len(C2)].depth <= Len(T2[u].ci)
  BY <1>1, <1>7
<1>13. u \in ChainOf(C2) => u = C2[Len(C2)].t
  BY <1>7
<1>14. Core(T2, C2)
  <2>1. T[u].status # "ERR" /\ \A t \in Threads \ {u} : T2[t] = T[t]
    BY <1>1
  <2> QED BY <1>1, <1>2, <1>5, <1>8, <1>9, <1>10, <1>11, <1>12, <1>13, <2>1, CoreShrink
<1> QED BY <1>14 DEF T2, C2

LEMMA PcallEnds ==
  ASSUME NEW T, NEW C, NEW h, NEW u, NEW m, ProtOver(T, C, h, u, m), IsPcall(C[h])
  PROVE  InvM(EndPcall(m, C[h]))
<1> DEFINE T1 == m.th
           C1 == m.cs
           p  == C[h]
           m2 == EndPcall(m, p)
           T2 == m2.th
           ci == T[u].ci
<1>1. /\ Core(T, C) /\ h \in 1 .. Len(C) /\ u = p.t /\ p.k = "prot" /\ ~Resumes(p)
      /\ T[u].status = "OK" /\ Len(ci) = p.depth /\ IsM(m)
      /\ Len(C1) = h - 1 /\ \A i \in 1 .. h - 1 : C1[i] = C[i]
      /\ T1[u].ci = ci /\ T1[u].status = T[u].status /\ T1[u].errfunc = T[u].errfunc
      /\ T1[u].nCcalls = p.nCcalls /\ T1[u].nny = p.nny
  <2>1. ~Resumes(p)
    BY DEF IsPcall, Resumes
  <2> QED BY <2>1 DEF ProtOver
<1>2. /\ C \in Seq(Activation) /\ Len(C) \in Nat /\ h \in Nat
      /\ u \in Threads /\ p \in Activation /\ p.depth \in Nat
      /\ ci \in Seq(CallInfo) /\ Good(T, C, h) /\ p.inc = "none"
      /\ IsTh(T1) /\ C1 \in Seq(Activation) /\ IsInner(ci, Len(ci), T[u].errfunc)
  BY ProtTypes
<1>3. Core(T1, C1)
  BY ProtEnds
<1>4. /\ OnlyCI(In(m, "run"), m2, u) /\ T2[u].errfunc = p.errfunc
      /\ T2[u].ci = IF Len(m.th[u].ci) = 0 THEN m.th[u].ci ELSE Front(m.th[u].ci)
  <2>1. p \in Activation /\ u = p.t /\ IsM(m)
    BY <1>1, <1>2
  <2> HIDE DEF p
  <2>2. /\ OnlyCI(In(m, "run"), EndPcall(m, p), p.t)
        /\ EndPcall(m, p).th[p.t].ci =
             IF Len(m.th[p.t].ci) = 0 THEN m.th[p.t].ci ELSE Front(m.th[p.t].ci)
        /\ EndPcall(m, p).th[p.t].errfunc = p.errfunc
    BY <2>1, EndPcallFacts
  <2> QED BY <2>1, <2>2
<1>5. /\ IsM(m2) /\ m2.cs = C1 /\ m2.mode = "run" /\ Others(T1, T2, u)
      /\ T2[u].status = "OK" /\ T2[u].body = T1[u].body
      /\ T2[u].nny = T1[u].nny /\ T2[u].nCcalls = T1[u].nCcalls
  <2>1. In(m, "run").th = m.th /\ In(m, "run").cs = m.cs /\ In(m, "run").mode = "run"
    BY <1>1, InFacts
  <2> HIDE DEF m2
  <2> QED BY <1>1, <1>4, <2>1 DEF OnlyCI
<1>6. IsTh(T2)
  BY <1>5, MachineParts
<1>7. CASE First(C, h)
  <2>1. u \notin ChainOf(C1) /\ Len(ci) = 0
    BY <1>7, ProtBelow
  <2>2. h = 1 /\ p.errfunc = 0
    <3>1. BlockStarts(T, C, h)
      BY <1>2, <1>7 DEF Good
    <3>2. h = 1 \/ h > 1
      BY <1>1, <1>2
    <3> QED BY <3>1, <3>2 DEF BlockStarts, IsPcall
  <2>3. T[u].errfunc = 0
    <3> HIDE DEF ci
    <3>1. T[u].errfunc \in 0 .. 0
      BY <1>2, <2>1 DEF IsInner
    <3> QED BY <3>1
  <2>4. T2[u].ci = T1[u].ci /\ T2[u].errfunc = T1[u].errfunc
    BY <1>1, <1>4, <2>1, <2>2, <2>3
  <2>5. Len(C1) = 0
    BY <1>1, <2>2
  <2>6. Core(T2, C1)
    <3>1. \A t \in Threads \ {u} : T2[t] = T1[t]
      BY <1>5 DEF Others
    <3>2. Alike(T1[u].ci, T2[u].ci, Len(T1[u].ci))
      <4>1. Len(T1[u].ci) <= Len(T1[u].ci)
        BY <1>1, <2>1
      <4> QED BY <2>4, <4>1 DEF Alike
    <3>3. T2[u].status = T1[u].status
      BY <1>1, <1>5
    <3> HIDE DEF T1, T2, C1
    <3>4. Len(T2[u].ci) = Len(T1[u].ci)
      BY <2>4
    <3> QED BY <1>2, <1>3, <1>5, <1>6, <2>1, <2>4, <3>1, <3>2, <3>3, <3>4, CoreQuiet
  <2>7. Inv(T2, C1, "run")
    BY <2>5, <2>6 DEF Inv, TopOf, Live
  <2> QED BY <1>5, <2>7 DEF InvM
<1>8. CASE ~First(C, h)
  <2>1. /\ h > 1 /\ C[h - 1].t = u
        /\ ~Resumes(C[h - 1]) => /\ C[h - 1].depth <= p.depth
                                 /\ C[h - 1].k = "call" => C[h - 1].depth < p.depth
    BY SMTT(20), <1>8, ProtBelow
  <2>2. /\ Runs(C[h - 1]) /\ p.depth \in 1 .. Len(ci)
        /\ ci[p.depth].func = "pcall" /\ IsInner(ci, p.depth - 1, p.errfunc)
    BY <1>1, <1>8, ProtCall
  <2>3. C1[Len(C1)] = C[h - 1] /\ Len(C1) > 0 /\ Len(C1) = h - 1
    <3>1. h - 1 \in 1 .. h - 1 /\ h - 1 > 0
      BY <1>2, <2>1
    <3> HIDE DEF C1
    <3> QED BY <1>1, <3>1
  <2>4. Live(T1, C1)
    <3> DEFINE g == h - 1
    <3>1. g \in Nat /\ g + 1 = h /\ Len(C1) = g
      BY <1>2, <2>1, <2>3
    <3>2. p.nny = Nyci(C, u, h) /\ p.nCcalls = Cnt(C, h)
      BY <1>1, <1>2 DEF Good, Saved
    <3>3. \A i \in 1 .. g : C1[i] = C[i]
      BY <1>1
    <3>4. ~Counts(p) /\ p.inc # "nyci"
      BY <1>1, <1>2 DEF Counts, Resumes
    <3>5. C[g + 1] = p
      BY <3>1
    <3>6. C1[Len(C1)].t = u
      BY <2>1, <2>3
    <3> HIDE DEF g, p, T1, C1
    <3>7. /\ Cnt(C, g) \in Nat /\ Cnt(C, g + 1) = Cnt(C, g) + (IF Counts(C[g + 1]) THEN 1 ELSE 0)
          /\ Nyci(C, u, g) \in Nat
          /\ Nyci(C, u, g + 1) = Nyci(C, u, g)
               + (IF C[g + 1].t = u /\ C[g + 1].inc = "nyci" THEN 1 ELSE 0)
      BY ZenonT(40), <3>1, OneMore
    <3>8. Cnt(C, g + 1) = Cnt(C, g) /\ Nyci(C, u, g + 1) = Nyci(C, u, g)
      BY <3>4, <3>5, <3>7
    <3>9. Cnt(C1, g) = Cnt(C, g) /\ Nyci(C1, u, g) = Nyci(C, u, g)
      BY <3>3, SameCount, SameNyci
    <3>10. T1[u].nny = Nyci(C1, u, Len(C1)) /\ T1[u].nCcalls = Cnt(C1, Len(C1))
      BY <1>1, <3>1, <3>2, <3>8, <3>9
    <3> QED BY <3>6, <3>10 DEF Live, CountedTo
  <2>5. p.depth > C[h - 1].depth
    <3>1. p.depth > 0
      <4> HIDE DEF p, ci
      <4> QED BY <1>2, <2>2
    <3>2. CASE C[h - 1].k = "call"
      BY <2>1, <3>2 DEF Resumes
    <3>3. CASE C[h - 1].k = "unroll"
      <4>1. C1[Len(C1)].k = "unroll"
        BY <2>3, <3>3
      <4> HIDE DEF C1, T1
      <4>2. C1[Len(C1)].depth = 0
        BY <1>3, <2>3, <4>1, UnrollAlone
      <4> QED BY <2>3, <3>1, <4>2
    <3> QED BY <2>2, <3>2, <3>3 DEF Runs
  <2>6. Last(T1[u].ci).func = "pcall" /\ Len(T1[u].ci) = p.depth
    BY <1>1, <2>2 DEF Last
  <2>7. T2[u].ci = Front(T1[u].ci)
    <3>1. Len(m.th[u].ci) # 0
      BY <1>1, <1>2, <2>2
    <3> QED BY <1>4, <3>1
  <2>8. IsInner(T1[u].ci, Len(T1[u].ci) - 1, T2[u].errfunc)
    BY SMTT(20), <1>1, <1>4, <2>2
  <2>9. /\ u = C1[Len(C1)].t /\ Runs(C1[Len(C1)]) /\ Len(T1[u].ci) > C1[Len(C1)].depth
        /\ T1[u].status = "OK" /\ T2[u].status = T1[u].status /\ Last(T1[u].ci).func # "lua"
    <3>1. Len(T1[u].ci) > C[h - 1].depth
      BY SMTT(20), <2>5, <2>6
    <3> QED BY <1>1, <1>5, <2>1, <2>2, <2>3, <2>6, <3>1
  <2> HIDE DEF T1, T2, C1
  <2>10. Inv(T2, C1, "run")
    BY <1>3, <1>5, <1>6, <2>3, <2>4, <2>7, <2>8, <2>9, FrameReturns
  <2> QED BY <1>5, <2>10 DEF InvM, T2
<1> QED BY <1>7, <1>8

Restored(m, m2, p, u) ==
  /\ IsM(m2) /\ m2.mode = m.mode /\ Others(m.th, m2.th, u) /\ m2.th[u].ci = m.th[u].ci
  /\ m2.th[u].status = m.th[u].status /\ m2.th[u].body = m.th[u].body
  /\ m2.th[u].errfunc = m.th[u].errfunc /\ m2.th[u].tbclist = m.th[u].tbclist
  /\ m2.th[u].nCcalls = p.nCcalls /\ m2.th[u].nny = p.nny
LEMMA RestoredFacts ==
  ASSUME NEW m, IsM(m), Len(m.cs) > 0, NEW p \in Activation, NEW u, u = p.t
  PROVE  /\ Restored(m, PopC(Restore(m, p)), p, u)
         /\ PopC(Restore(m, p)).cs = Front(m.cs)
<1> DEFINE m1 == Restore(m, p)
<1>1. /\ OnlyCounters(m, m1, p.t) /\ m1.th[p.t].nCcalls = p.nCcalls /\ m1.th[p.t].nny = p.nny
  BY RestoreFacts
<1> HIDE DEF m1
<1>2. IsM(m1) /\ Len(m1.cs) > 0 /\ m1.cs = m.cs
  BY <1>1 DEF OnlyCounters
<1>3. /\ IsM(PopC(m1)) /\ PopC(m1).th = m1.th /\ PopC(m1).cs = Front(m1.cs)
      /\ PopC(m1).mode = m1.mode
  BY <1>2, PopCFacts
<1>4. Restored(m, PopC(m1), p, u)
  BY <1>1, <1>3 DEF OnlyCounters, Restored
<1> QED BY <1>2, <1>3, <1>4 DEF m1

\* m2 is m when p, in which nothing of thread t is left to do, is over
ProtLast(m, h, p, t, m2) ==
  /\ ProtOver(m.th, m.cs, h, t, m2) /\ m.cs[h] = p /\ Core(m2.th, m2.cs)
  /\ m2.th[t].tbclist = m.th[t].tbclist

LEMMA ProtReady ==
  ASSUME NEW m, IsM(m), InvM(m), m.mode = "return", NEW t, NEW b, NEW n, TopIs(m, t, b, n),
         b.k = "prot"
  PROVE  /\ ProtLast(m, Len(m.cs), b, t, PopC(Restore(m, b)))
         /\ b.use = "resume" \/ IsPcall(b)
<1> DEFINE T  == m.th
           C  == m.cs
           h  == Len(m.cs)
           m2 == PopC(Restore(m, b))
           ci == m.th[t].ci
<1>1. /\ Core(T, C) /\ OnTop(ci, b, Acts(C, t), "return")
      /\ T[t].status = "OK" /\ Good(T, C, Len(C))
  BY TopReady
<1>2. Len(C) > 0 /\ b = C[Len(C)] /\ t = b.t /\ n = Len(ci)
  BY DEF TopIs
<1>3. b \in Activation /\ h \in Nat /\ h \in 1 .. h /\ b.depth \in Nat /\ C \in Seq(Activation)
  BY TopFacts, MachineParts
<1>4. b.use # "closep" /\ Len(ci) = (IF Resumes(b) THEN 0 ELSE b.depth)
  BY <1>1 DEF OnTop, Resumes
<1>5. Restored(m, m2, b, t) /\ m2.cs = Front(C)
  BY <1>2, <1>3, RestoredFacts
<1>6. Len(m2.cs) = h - 1 /\ \A i \in 1 .. h - 1 : m2.cs[i] = C[i]
  <2> HIDE DEF C, m2
  <2>1. Len(Front(C)) = Len(C) - 1 /\ \A i \in 1 .. Len(C) - 1 : Front(C)[i] = C[i]
    BY SMTT(20), <1>2, <1>3, FrontFacts
  <2> QED BY <1>5, <2>1 DEF C
<1> HIDE DEF m2
<1>7. ProtOver(T, C, h, t, m2)
  <2>1. \A j \in h + 1 .. Len(C) : C[j].t = t /\ C[j].depth >= Len(ci)
    BY <1>3
  <2>2. C[h] = b
    BY <1>2
  <2> HIDE DEF h
  <2>3. h = Len(C)
    BY DEF h
  <2> HIDE DEF T, C, ci
  <2>4. Others(T, m2.th, t) /\ m2.th[t].ci = T[t].ci /\ m2.th[t].status = T[t].status
        /\ m2.th[t].body = T[t].body /\ m2.th[t].errfunc = T[t].errfunc
        /\ m2.th[t].nCcalls = b.nCcalls /\ m2.th[t].nny = b.nny /\ IsM(m2)
    BY <1>5 DEF Restored, T
  <2>5. ci = T[t].ci
    BY DEF ci, T
  <2> QED BY <1>1, <1>2, <1>3, <1>4, <1>6, <2>1, <2>2, <2>3, <2>4, <2>5 DEF ProtOver
<1>8. Core(m2.th, m2.cs)
  BY <1>7, ProtEnds
<1>9. ASSUME b.use # "resume" PROVE IsPcall(b)
  <2>1. CASE First(C, h)
    <3>1. Good(T, C, h)
      BY <1>1
    <3>2. h = 1 \/ h > 1
      <4>1. h \in Nat /\ h \in 1 .. h
        BY <1>3
      <4> HIDE DEF h
      <4> QED BY <4>1
    <3>3. C[h] = b
      BY <1>2
    <3> HIDE DEF T, C, h
    <3>4. BlockStarts(T, C, h)
      BY <2>1, <3>1 DEF Good
    <3> QED BY <1>4, <1>9, <3>2, <3>3, <3>4 DEF BlockStarts
  <2>2. CASE ~First(C, h)
    BY <1>1, <1>2, <2>2, Zenon DEF Good, Linked, LinkedProt
  <2> QED BY <2>1, <2>2
<1>10. m2.th[t].tbclist = m.th[t].tbclist
  BY <1>5 DEF Restored
<1>11. C[h] = b
  BY <1>2
<1>12. ProtLast(m, h, b, t, m2)
  <2> HIDE DEF h
  <2> QED BY <1>7, <1>8, <1>10, <1>11 DEF ProtLast
<1> QED BY <1>9, <1>12 DEF m2

\* luaD_rawrunprotected returns normally
LEMMA ProtReturned ==
  ASSUME NEW m, IsM(m), InvM(m), m.mode = "return", NEW t, NEW b, NEW n, TopIs(m, t, b, n),
         b.k = "prot"
  PROVE  InvM(IF b.use = "resume" THEN Resumed(PopC(Restore(m, b)), b.t, "OK")
                                  ELSE EndPcall(PopC(Restore(m, b)), b))
<1> DEFINE h  == Len(m.cs)
           m2 == PopC(Restore(m, b))
<1>1. /\ ProtLast(m, h, b, t, m2)
      /\ b.use = "resume" \/ IsPcall(b)
  BY ProtReady
<1> HIDE DEF h, m2
<1>2. /\ ProtOver(m.th, m.cs, h, t, m2) /\ m.cs[h] = b /\ Core(m2.th, m2.cs)
  BY <1>1 DEF ProtLast
<1>3. CASE b.use = "resume"
  <2>1. Resumes(m.cs[h]) /\ b.t = m.cs[h].t
    BY <1>2, <1>3 DEF Resumes, ProtOver
  <2>2. /\ Core(m.th, m.cs) /\ h \in 1 .. Len(m.cs) /\ IsM(m2) /\ Len(m2.cs) = h - 1
        /\ \A i \in 1 .. h - 1 : m2.cs[i] = m.cs[i]
        /\ Others(m.th, m2.th, m.cs[h].t)
    BY <1>2 DEF ProtOver
  <2>3. InvM(Resumed(m2, m.cs[h].t, "OK"))
    BY <1>2, <2>1, <2>2, ResumeEnds
  <2> QED BY SMTT(20), <1>3, <2>1, <2>3 DEF m2
<1>4. CASE b.use # "resume"
  <2>1. InvM(EndPcall(m2, b))
    BY <1>1, <1>2, <1>4, PcallEnds
  <2> QED BY <1>4, <2>1 DEF m2
<1> QED BY <1>3, <1>4

\* ... and of luaD_closeprotected
ProtCloses(m, p) ==
  /\ p.then = "pcall" => IsPcall(p)
  /\ p.then # "pcall" => First(m.cs, Len(m.cs) - 1) /\ Len(m.cs) - 1 > 1 /\ ~Resumes(p)
LEMMA CloseReadyProt ==
  ASSUME NEW m, IsM(m), InvM(m), m.mode = "run", NEW t, NEW b, NEW n, TopIs(m, t, b, n),
         b.k = "close", NEW p, p = m.cs[Len(m.cs) - 1], p.k = "prot"
  PROVE  ProtLast(m, Len(m.cs) - 1, p, t, PopC(Restore(PopC(m), p))) /\ ProtCloses(m, p)
<1> DEFINE T  == m.th
           C  == m.cs
           h  == Len(m.cs) - 1
           m1 == PopC(m)
           m2 == PopC(Restore(m1, p))
           ci == m.th[t].ci
<1>1. /\ Core(T, C) /\ OnTop(ci, b, Acts(C, t), "run")
      /\ T[t].status = "OK" /\ Good(T, C, Len(C))
  BY TopReady
<1>2. Len(C) > 0 /\ b = C[Len(C)] /\ t = b.t /\ n = Len(ci)
  BY DEF TopIs
<1>3. b \in Activation /\ Len(C) \in Nat /\ b.depth \in Nat /\ C \in Seq(Activation)
  BY TopFacts, MachineParts
<1>4. Len(ci) = b.depth
  BY <1>1 DEF OnTop
<1>5. ~First(C, Len(C))
  BY <1>1, <1>2, Zenon DEF Good, BlockStarts
<1>6. BelowIs(m, t, b, p) /\ Linked(ci, b, p) /\ p \in Activation
  BY <1>1, <1>5, BelowFacts
<1>7. p.use = "closep" /\ b.depth = p.depth /\ p.t = t /\ Len(C) > 1
  <2>1. b.yy \in BOOLEAN
    BY <1>3, ActivationFields
  <2> QED BY <1>6, <2>1 DEF BelowIs, Linked, LinkedClose, Runs
<1>8. h \in Nat /\ h + 1 = Len(C) /\ h > 0 /\ h \in 1 .. Len(C) /\ C[h] = p
  <2> DEFINE x == Len(C)
  <2>1. x \in Nat /\ x > 1 /\ C[x - 1] = p
    BY <1>3, <1>7
  <2> HIDE DEF x, C
  <2>2. x - 1 \in Nat /\ (x - 1) + 1 = x /\ x - 1 > 0 /\ x - 1 \in 1 .. x
    BY <2>1
  <2> QED BY <2>1, <2>2 DEF x, C
<1>9. IsM(m1) /\ m1.th = T /\ m1.cs = Front(C)
  BY <1>2, PopCFacts
<1>10. /\ Len(m1.cs) = h /\ \A i \in 1 .. h : m1.cs[i] = C[i]
  <2> HIDE DEF C, m1
  <2>1. Len(Front(C)) = Len(C) - 1 /\ \A i \in 1 .. Len(C) - 1 : Front(C)[i] = C[i]
    BY <1>2, <1>3, FrontFacts
  <2> QED BY <1>9, <2>1 DEF C
<1> HIDE DEF m1, h
<1>11. Restored(m1, m2, p, t) /\ m2.cs = Front(m1.cs)
  BY <1>6, <1>7, <1>8, <1>9, <1>10, RestoredFacts
<1> HIDE DEF m2
<1>12. Len(m2.cs) = h - 1 /\ \A i \in 1 .. h - 1 : m2.cs[i] = C[i]
  <2> DEFINE s == m1.cs
  <2>1. s \in Seq(Activation) /\ Len(s) > 0
    BY <1>8, <1>9, <1>10, MachineParts
  <2> HIDE DEF s
  <2>2. Len(Front(s)) = Len(s) - 1 /\ \A i \in 1 .. Len(s) - 1 : Front(s)[i] = s[i]
    BY <2>1, FrontFacts
  <2>3. \A i \in 1 .. h - 1 : i \in 1 .. h
    BY <1>8
  <2>4. Len(s) = h /\ \A i \in 1 .. h : s[i] = C[i]
    BY <1>10 DEF s
  <2>5. m2.cs = Front(s)
    BY <1>11 DEF s
  <2> QED BY <2>2, <2>3, <2>4, <2>5
<1>13. ProtOver(T, C, h, t, m2)
  <2>1. \A j \in h + 1 .. Len(C) : C[j].t = t /\ C[j].depth >= Len(ci)
    <3>1. \A j \in h + 1 .. Len(C) : j = Len(C)
      BY SMTT(20), <1>8
    <3>2. C[Len(C)].t = t /\ C[Len(C)].depth >= Len(ci)
      <4>1. b.depth >= Len(ci)
        BY <1>3, <1>4
      <4> QED BY <1>2, <4>1
    <3> QED BY <3>1, <3>2
  <2>2. ~Resumes(C[h]) /\ C[h].t = C[Len(C)].t /\ C[h].t = t
    BY <1>2, <1>7, <1>8 DEF Resumes
  <2> HIDE DEF T, C, ci
  <2>4. Others(T, m2.th, t) /\ m2.th[t].ci = T[t].ci /\ m2.th[t].status = T[t].status
        /\ m2.th[t].body = T[t].body /\ m2.th[t].errfunc = T[t].errfunc
        /\ m2.th[t].nCcalls = p.nCcalls /\ m2.th[t].nny = p.nny /\ IsM(m2)
    BY <1>9, <1>11 DEF Restored, T
  <2>5. ci = T[t].ci
    BY DEF ci, T
  <2>6. Len(ci) = C[h].depth /\ C[h].k = "prot"
    BY <1>4, <1>7, <1>8
  <2> QED BY <1>1, <1>8, <1>12, <2>1, <2>2, <2>4, <2>5, <2>6 DEF ProtOver
<1>14. Core(m2.th, m2.cs)
  BY <1>13, ProtEnds
<1>15. ASSUME p.then = "pcall" PROVE IsPcall(p)
  BY <1>7, <1>15 DEF IsPcall
<1>16. ASSUME p.then # "pcall" PROVE First(C, h) /\ h > 1 /\ ~Resumes(p)
  <2>1. ~IsPcall(p) /\ ~Resumes(p)
    BY <1>7, <1>16 DEF IsPcall, Resumes
  <2>2. Good(T, C, h)
    BY <1>1, <1>8 DEF Core, Stack
  <2>3. First(C, h)
    BY <1>8, <2>1, <2>2, Zenon DEF Good, Linked, LinkedProt
  <2>4. h > 1
    <3>1. BlockStarts(T, C, h)
      BY SMTT(20), <2>2, <2>3 DEF Good
    <3>2. h # 1
      BY <1>8, <2>1, <3>1 DEF BlockStarts, Resumes
    <3> QED BY <1>8, <3>2
  <2> QED BY <2>1, <2>3, <2>4
<1>17. m2.th[t].tbclist = m.th[t].tbclist
  BY <1>9, <1>11 DEF Restored
<1>18. ProtLast(m, h, p, t, m2)
  BY <1>8, <1>13, <1>14, <1>17 DEF ProtLast
<1>19. ProtCloses(m, p)
  BY <1>15, <1>16 DEF ProtCloses, h
<1> QED BY <1>18, <1>19 DEF h, m2, m1

\* luaF_close returns to luaD_closeprotected
LEMMA CloseProtectedEnds ==
  ASSUME NEW m, IsM(m), InvM(m), m.mode = "run", NEW t, NEW b, NEW n, TopIs(m, t, b, n),
         b.k = "close", NEW p, p = m.cs[Len(m.cs) - 1], p.k = "prot"
  PROVE  InvM(IF p.then = "pcall" THEN EndPcall(PopC(Restore(PopC(m), p)), p)
                                  ELSE EndReset(PopC(Restore(PopC(m), p)), p))
<1> DEFINE h  == Len(m.cs) - 1
           m2 == PopC(Restore(PopC(m), p))
<1>1. ProtLast(m, h, p, t, m2) /\ ProtCloses(m, p)
  BY CloseReadyProt
<1>2. p.then # "pcall" => First(m.cs, h) /\ h > 1 /\ ~Resumes(p)
  BY <1>1 DEF ProtCloses
<1> HIDE DEF h, m2
<1>3. /\ ProtOver(m.th, m.cs, h, t, m2) /\ m.cs[h] = p /\ Core(m2.th, m2.cs)
  BY <1>1 DEF ProtLast
<1>4. CASE p.then = "pcall"
  <2>1. InvM(EndPcall(m2, p))
    BY <1>1, <1>3, <1>4, PcallEnds DEF ProtCloses
  <2> QED BY <1>4, <2>1 DEF m2
<1>5. CASE p.then # "pcall"
  <2>1. /\ Core(m.th, m.cs) /\ h \in 1 .. Len(m.cs) /\ IsM(m2) /\ Len(m2.cs) = h - 1
        /\ \A i \in 1 .. h - 1 : m2.cs[i] = m.cs[i]
        /\ Others(m.th, m2.th, m.cs[h].t)
    BY <1>3 DEF ProtOver
  <2>2. InvM(EndReset(m2, m.cs[h]))
    BY <1>2, <1>3, <1>5, <2>1, ResetEnds
  <2> QED BY SMTT(20), <1>3, <1>5, <2>2 DEF m2
<1> QED BY <1>4, <1>5

-----------------------------------------------------------------------------
(* Throws *)

\* h is where a throw of thread u is caught
Throws(T, C, h, u) ==
  /\ Core(T, C) /\ h \in 1 .. Len(C) /\ C[h].k = "prot" /\ u = C[h].t /\ u = C[Len(C)].t
  /\ \A j \in h + 1 .. Len(C) : C[j].k # "prot" /\ C[j].t = C[Len(C)].t
  /\ ~T[u].body /\ T[u].status \in {"OK", "YIELD"}

LEMMA ThrowTypes ==
  ASSUME NEW T, NEW C, NEW h, NEW u, Throws(T, C, h, u)
  PROVE  /\ C \in Seq(Activation) /\ IsTh(T) /\ Len(C) \in Nat /\ h \in Nat /\ Len(C) > 0
         /\ u \in Threads /\ u \in ChainOf(C) /\ C[h] \in Activation /\ C[h].depth \in Nat
         /\ T[u].ci \in Seq(CallInfo) /\ Len(T[u].ci) \in Nat /\ Good(T, C, h)
         /\ StatusOf(T, C, u) /\ Stack(T, C) /\ C[h].inc = "none"
         /\ IsInner(T[u].ci, Len(T[u].ci), T[u].errfunc) /\ FramesOK(T[u].ci, Acts(C, u))
<1>1. Core(T, C) /\ h \in 1 .. Len(C) /\ u = C[h].t /\ C[h].k = "prot" /\ T[u].status # "ERR"
  BY DEF Throws
<1>2. C \in Seq(Activation) /\ IsTh(T) /\ Good(T, C, h) /\ Stack(T, C)
  BY <1>1 DEF Core, Types, IsTh, Stack
<1>3. Len(C) \in Nat
  BY <1>2
<1>4. h \in Nat /\ Len(C) > 0
  BY <1>1, <1>3
<1>5. C[h] \in Activation /\ u \in Threads /\ C[h].depth \in Nat /\ u \in ChainOf(C)
  BY <1>1, <1>2, ActivationsFields DEF ChainOf
<1>6. T[u].ci \in Seq(CallInfo) /\ Len(T[u].ci) \in Nat
  BY <1>2, <1>5, ThreadFields DEF IsTh
<1>7. StatusOf(T, C, u)
  BY <1>1, <1>5 DEF Core, States
<1>8. C[h].inc = "none"
  BY <1>1, <1>2 DEF Good
<1>9. IsInner(T[u].ci, Len(T[u].ci), T[u].errfunc) /\ FramesOK(T[u].ci, Acts(C, u))
  BY <1>1, <1>5 DEF Core, Frames
<1> QED BY <1>1, <1>2, <1>3, <1>4, <1>5, <1>6, <1>7, <1>8, <1>9

CaughtAt(m, h, p) == Restore([m EXCEPT !.cs = SubSeq(@, 1, h - 1)], p)
IsCaught(m, m2, h, p, u) ==
  /\ Restored(m, m2, p, u) /\ Len(m2.cs) = h - 1 /\ \A i \in 1 .. h - 1 : m2.cs[i] = m.cs[i]
LEMMA CaughtFacts ==
  ASSUME NEW m, IsM(m), NEW h \in 1 .. Len(m.cs), NEW u, NEW p \in Activation, u = p.t
  PROVE  IsCaught(m, CaughtAt(m, h, p), h, p, u)
<1> DEFINE m1 == [m EXCEPT !.cs = SubSeq(@, 1, h - 1)]
           C  == m.cs
<1>1. C \in Seq(Activation)
  BY MachineParts
<1>2. h - 1 \in 0 .. Len(C) /\ h \in Nat
  BY <1>1
<1>3. /\ SubSeq(C, 1, h - 1) \in Seq(Activation) /\ Len(SubSeq(C, 1, h - 1)) = h - 1
      /\ \A i \in 1 .. h - 1 : SubSeq(C, 1, h - 1)[i] = C[i]
  <2> DEFINE g == h - 1
  <2>1. g \in 0 .. Len(C)
    BY <1>2
  <2> HIDE DEF g, C
  <2>2. /\ SubSeq(C, 1, g) \in Seq(Activation) /\ Len(SubSeq(C, 1, g)) = g
        /\ \A i \in 1 .. g : SubSeq(C, 1, g)[i] = C[i]
    BY <1>1, <2>1, PrefixFacts
  <2> QED BY <2>2 DEF g
<1>4. IsM(m1) /\ m1.cs = SubSeq(C, 1, h - 1) /\ m1.th = m.th /\ m1.mode = m.mode
  BY <1>3 DEF IsM
<1> HIDE DEF m1, C
<1> DEFINE m2 == Restore(m1, p)
<1>5. /\ OnlyCounters(m1, m2, p.t) /\ m2.th[p.t].nCcalls = p.nCcalls /\ m2.th[p.t].nny = p.nny
  BY <1>4, RestoreFacts
<1> HIDE DEF m2
<1>6. Restored(m, m2, p, u) /\ m2.cs = m1.cs
  BY <1>4, <1>5 DEF OnlyCounters, Restored
<1>7. IsCaught(m, m2, h, p, u)
  BY <1>3, <1>4, <1>6 DEF IsCaught, C
<1> QED BY <1>7 DEF m2, m1, CaughtAt

\* the coroutine is left, yielded or dead
LEMMA CoroutineLeft ==
  ASSUME NEW T, NEW C, NEW h, NEW u, Throws(T, C, h, u), Resumes(C[h]),
         NEW T2, IsTh(T2), NEW C2 \in Seq(Activation), Others(T, T2, u),
         Len(C2) = h - 1, \A i \in 1 .. h - 1 : C2[i] = C[i],
         T2[u].ci = T[u].ci, T2[u].body = T[u].body, T2[u].errfunc = T[u].errfunc,
         T2[u].status = "ERR" \/ (T2[u].status = "YIELD" /\ T[u].status = "YIELD")
  PROVE  Core(T2, C2)
<1> DEFINE ci == T[u].ci
<1>1. /\ C \in Seq(Activation) /\ IsTh(T) /\ Len(C) \in Nat /\ h \in Nat /\ Len(C) > 0
      /\ u \in Threads /\ ci \in Seq(CallInfo) /\ StatusOf(T, C, u) /\ Stack(T, C)
      /\ IsInner(ci, Len(ci), T[u].errfunc) /\ FramesOK(ci, Acts(C, u))
  BY ThrowTypes
<1>2. /\ Core(T, C) /\ h \in 1 .. Len(C) /\ C[h].k = "prot" /\ u = C[h].t /\ u = C[Len(C)].t
      /\ \A j \in h + 1 .. Len(C) : C[j].k # "prot" /\ C[j].t = C[Len(C)].t
      /\ ~T[u].body
  BY DEF Throws
<1>3. /\ \A i \in 1 .. h - 1 : C[i].t # u
      /\ u # MainThread
  <2>1. C[h].t = C[Len(C)].t
    BY <1>2
  <2>2. (\A i \in 1 .. h - 1 : C[i].t # C[h].t) /\ C[h].t # MainThread
    BY <1>2, <2>1, AboveResume
  <2> QED BY <1>2, <2>2
<1>4. u \notin ChainOf(C2)
  BY <1>3 DEF ChainOf
<1>5. Acts(C2, u) = {}
  BY <1>4 DEF Acts, ChainOf
<1>6. T2[u].status = "YIELD" => Suspended(T[u])
  BY <1>1 DEF StatusOf
<1>7. T2[u].status # "ERR" => FramesOK(ci, {})
  <2> SUFFICES ASSUME T2[u].status # "ERR"
               PROVE  FramesOK(ci, {})
    OBVIOUS
  <2>1. Suspended(T[u])
    BY <1>6
  <2>2. \A j \in 1 .. Len(ci) : ~Continues(ci[j]) => j = Len(ci)
    <3> DEFINE x == Len(ci)
    <3>1. x \in Nat /\ \A j \in 1 .. x - 1 : Continues(ci[j])
      BY <1>1, <2>1 DEF Suspended
    <3> HIDE DEF x, ci
    <3>2. \A j \in 1 .. x : j = x \/ j \in 1 .. x - 1
      BY <3>1
    <3>3. \A j \in 1 .. x : ~Continues(ci[j]) => j = x
      BY <3>1, <3>2
    <3> QED BY <3>3 DEF x
  <2> HIDE DEF ci
  <2> QED BY <1>1, <2>2 DEF FramesOK, FreshOnes, Owned, NoYpcall
<1>8. StatusOf(T2, C2, u)
  <2>1. Suspended(T[u]) => Suspended(T2[u])
    BY DEF Suspended
  <2> QED BY <1>2, <1>3, <1>4, <1>6, <2>1 DEF StatusOf
<1>9. Cut(T, C, T2, C2, u)
  <2>1. Types(T2, C2)
    BY DEF Types, IsTh
  <2>2. Len(C2) <= Len(C) /\ \A i \in 1 .. Len(C2) : C2[i] = C[i]
    BY <1>1, <1>2
  <2>3. \A i \in Len(C2) + 1 .. Len(C) : C[i].t = u
    <3>1. \A i \in Len(C2) + 1 .. Len(C) : i = h \/ i \in h + 1 .. Len(C)
      BY <1>1
    <3> QED BY <1>2, <3>1
  <2>4. Len(C2) > 0 => C2[Len(C2)].t # u
    <3>1. Len(C2) > 0 => Len(C2) \in 1 .. Len(C2)
      BY <1>1
    <3> QED BY <1>4, <3>1 DEF ChainOf
  <2>5. T2[u].status # "ERR" =>
          FramesOK(T2[u].ci, Acts(C2, u)) /\ IsInner(T2[u].ci, Len(T2[u].ci), T2[u].errfunc)
    BY <1>1, <1>5, <1>7
  <2>6. \A t \in Threads \ {u} : T2[t] = T[t]
    BY DEF Others
  <2> QED BY <1>3, <1>4, <1>8, <2>1, <2>2, <2>3, <2>4, <2>5, <2>6 DEF Cut
<1> QED BY <1>1, <1>2, <1>9, CoreCut

LEMMA YieldCaught ==
  ASSUME NEW m, IsM(m), NEW h, NEW u, Throws(m.th, m.cs, h, u), Resumes(m.cs[h]),
         m.th[u].status = "YIELD"
  PROVE  InvM(Resumed(CaughtAt(m, h, m.cs[h]), u, "YIELD"))
<1> DEFINE T  == m.th
           C  == m.cs
           p  == C[h]
           m2 == CaughtAt(m, h, p)
<1>1. Core(T, C) /\ h \in 1 .. Len(C) /\ u = C[h].t
  BY DEF Throws
<1>2. p \in Activation
  BY ThrowTypes
<1>3. IsCaught(m, m2, h, p, u)
  <2> HIDE DEF p
  <2>1. u = p.t
    BY <1>1 DEF p
  <2> QED BY <1>1, <1>2, <2>1, CaughtFacts
<1> HIDE DEF m2
<1>4. /\ IsM(m2) /\ Others(T, m2.th, u) /\ m2.th[u].ci = T[u].ci
      /\ m2.th[u].status = T[u].status /\ m2.th[u].body = T[u].body
      /\ m2.th[u].errfunc = T[u].errfunc
      /\ Len(m2.cs) = h - 1 /\ \A i \in 1 .. h - 1 : m2.cs[i] = C[i]
  BY <1>3 DEF IsCaught, Restored
<1>5. IsTh(m2.th) /\ m2.cs \in Seq(Activation)
  BY <1>4, MachineParts
<1> HIDE DEF p
<1>6. Core(m2.th, m2.cs)
  <2>1. m2.th[u].status = "YIELD" /\ T[u].status = "YIELD"
    BY <1>4
  <2>2. Throws(T, C, h, u) /\ Resumes(C[h])
    OBVIOUS
  <2> HIDE DEF T, C
  <2> QED BY <1>4, <1>5, <2>1, <2>2, CoroutineLeft
<1>7. InvM(Resumed(m2, C[h].t, "YIELD"))
  <2>1. Others(T, m2.th, C[h].t) /\ Resumes(C[h])
    BY <1>1, <1>4
  <2> HIDE DEF T, C
  <2> QED BY <1>1, <1>4, <1>6, <2>1, ResumeEnds
<1> QED BY <1>1, <1>7 DEF m2, p

\* no protected call of the coroutine is left: it dies
LEMMA ErrorKills ==
  ASSUME NEW m, IsM(m), NEW h, NEW u, Throws(m.th, m.cs, h, u), Resumes(m.cs[h])
  PROVE  InvM(Resumed(SetStatus(CaughtAt(m, h, m.cs[h]), u, "ERR"), u, "ERR"))
<1> DEFINE T  == m.th
           C  == m.cs
           p  == C[h]
           m1 == CaughtAt(m, h, p)
           m2 == SetStatus(m1, u, "ERR")
<1>1. Core(T, C) /\ h \in 1 .. Len(C) /\ u = C[h].t
  BY DEF Throws
<1>2. p \in Activation /\ u \in Threads
  BY ThrowTypes
<1>3. IsCaught(m, m1, h, p, u)
  <2> HIDE DEF p
  <2>1. u = p.t
    BY <1>1 DEF p
  <2> QED BY <1>1, <1>2, <2>1, CaughtFacts
<1> HIDE DEF m1
<1>4. /\ IsM(m2) /\ m2.cs = m1.cs /\ Others(m1.th, m2.th, u) /\ m2.th[u].status = "ERR"
      /\ m2.th[u].body = m1.th[u].body /\ m2.th[u].ci = m1.th[u].ci
      /\ m2.th[u].errfunc = m1.th[u].errfunc
  <2>1. IsM(m1)
    BY <1>3 DEF IsCaught, Restored
  <2> QED BY <1>2, <2>1, SetStatusFacts
<1> HIDE DEF m2
<1>5. /\ Others(T, m2.th, u) /\ m2.th[u].ci = T[u].ci /\ m2.th[u].body = T[u].body
      /\ m2.th[u].errfunc = T[u].errfunc
      /\ Len(m2.cs) = h - 1 /\ \A i \in 1 .. h - 1 : m2.cs[i] = C[i]
  BY <1>3, <1>4 DEF IsCaught, Restored, Others
<1>6. IsTh(m2.th) /\ m2.cs \in Seq(Activation)
  BY <1>4, MachineParts
<1> HIDE DEF p
<1>7. Core(m2.th, m2.cs)
  <2>1. Throws(T, C, h, u) /\ Resumes(C[h])
    OBVIOUS
  <2> HIDE DEF T, C
  <2> QED BY <1>4, <1>5, <1>6, <2>1, CoroutineLeft
<1>8. InvM(Resumed(m2, C[h].t, "ERR"))
  <2>1. Others(T, m2.th, C[h].t) /\ Resumes(C[h])
    BY <1>1, <1>5
  <2> HIDE DEF T, C
  <2> QED BY <1>1, <1>4, <1>5, <1>7, <2>1, ResumeEnds
<1> QED BY <1>1, <1>8 DEF m2, m1, p

LEMMA FindPcallFacts ==
  ASSUME NEW ci \in Seq(CallInfo), NEW i, i = FindPcall(ci)
  PROVE  /\ i # 0 => /\ i \in 1 .. Len(ci) /\ ci[i].ypcall
                     /\ \A j \in 1 .. Len(ci) : ci[j].ypcall => j <= i
         /\ i = 0 => \A j \in 1 .. Len(ci) : ~ci[j].ypcall
<1> DEFINE I == {j \in DOMAIN ci : ci[j].ypcall}
<1>1. DOMAIN ci = 1 .. Len(ci) /\ Len(ci) \in Nat
  OBVIOUS
<1>2. CASE I = {}
  <2>1. i = 0
    BY <1>2 DEF FindPcall
  <2> QED BY <1>1, <1>2, <2>1
<1>3. CASE I # {}
  <2>1. I \in SUBSET (1 .. Len(ci))
    BY <1>1
  <2>2. \E x \in I : \A j \in I : j <= x
    <3> DEFINE n == Len(ci)
    <3> HIDE DEF I, n
    <3> QED BY <1>1, <1>3, <2>1, LastPosition DEF n
  <2>3. i = CHOOSE x \in I : \A j \in I : j <= x
    BY <1>3 DEF FindPcall
  <2>4. i \in I /\ \A j \in I : j <= i
    <3> HIDE DEF I
    <3> QED BY <2>2, <2>3
  <2>5. i \in 1 .. Len(ci) /\ ci[i].ypcall /\ \A j \in 1 .. Len(ci) : ci[j].ypcall => j <= i
    BY <1>1, <2>4
  <2>6. i # 0
    BY <1>1, <2>5
  <2> QED BY <2>5, <2>6
<1> QED BY <1>2, <1>3

\* what is left of the coroutine can continue, and the call of pcall that
\* precover finds is the last one
LEMMA AbovePcallk ==
  ASSUME NEW T, NEW C, NEW h, NEW u, Throws(T, C, h, u), Resumes(C[h]),
         OnTop(T[u].ci, C[Len(C)], Acts(C, u), "ERR"), NEW i, i = FindPcall(T[u].ci), i # 0
  PROVE  /\ \A j \in 1 .. i : Continues(T[u].ci[j])
         /\ IsInner(T[u].ci, i, T[u].errfunc)
<1> DEFINE ci == T[u].ci
           A  == Acts(C, u)
           n  == Len(ci)
<1>1. /\ ci \in Seq(CallInfo) /\ n \in Nat /\ IsInner(ci, n, T[u].errfunc) /\ FramesOK(ci, A)
  BY ThrowTypes
<1>2. \A a \in A : ~IsPcall(a)
  <2>1. /\ Core(T, C) /\ h \in 1 .. Len(C) /\ u = C[h].t /\ C[h].t = C[Len(C)].t
        /\ \A j \in h + 1 .. Len(C) : C[j].k # "prot" /\ C[j].t = C[Len(C)].t
    BY DEF Throws
  <2>2. \A a \in Acts(C, C[h].t) : ~IsPcall(a)
    BY <2>1, AboveResume
  <2> QED BY <2>1, <2>2
<1>3. /\ i \in 1 .. n /\ ci[i].ypcall /\ \A j \in 1 .. n : ci[j].ypcall => j <= i
  BY <1>1, FindPcallFacts
<1>4. ci[i].func = "pcall" /\ Continues(ci[i])
  BY <1>1, <1>3 DEF FramesOK, OldHandlers, Continues
<1>5. \A j \in 1 .. n : ~Continues(ci[j]) => j = n \/ Owns(A, ci, j)
  BY <1>1 DEF FramesOK, Owned
<1>6. \A j \in 1 .. n : Owns(A, ci, j) =>
        ci[j].func = "call" /\ \A x \in 1 .. n : x > j => ~ci[x].ypcall
  <2> SUFFICES ASSUME NEW j \in 1 .. n, Owns(A, ci, j)
               PROVE  ci[j].func = "call" /\ \A x \in 1 .. n : x > j => ~ci[x].ypcall
    OBVIOUS
  <2>1. PICK a \in A : a.depth = j /\ ci[j].func = "call" /\ a.inc = "nyci"
    BY <1>2 DEF Owns
  <2>2. \A x \in 1 .. n : x > a.depth => ~ci[x].ypcall
    BY <1>1, <2>1 DEF FramesOK, NoYpcall
  <2> QED BY <2>1, <2>2
<1> HIDE DEF n
<1>7. \A j \in 1 .. i : Continues(ci[j])
  <2> SUFFICES ASSUME NEW j \in 1 .. i, ~Continues(ci[j])
               PROVE  FALSE
    OBVIOUS
  <2>1. j \in 1 .. n /\ j # i /\ i > j /\ j # n
    <3>1. j # i
      BY <1>4
    <3> HIDE DEF ci
    <3> QED BY <1>1, <1>3, <3>1
  <2> HIDE DEF ci, A
  <2> QED BY <1>3, <1>5, <1>6, <2>1
<1>8. \A j \in 1 .. n : ci[j].func = "pcall" => j <= i
  <2> SUFFICES ASSUME NEW j \in 1 .. n, ci[j].func = "pcall", ~(j <= i)
               PROVE  FALSE
    OBVIOUS
  <2>1. ~Continues(ci[j])
    BY <1>3 DEF Continues
  <2>2. ~Owns(A, ci, j)
    BY <1>6
  <2>3. j = n
    BY <1>5, <2>1, <2>2
  <2>4. ci[n].ypcall \/ Owns(A, ci, n)
    <3>1. n > 0
      BY <1>1, <2>3
    <3> QED BY <2>3, <3>1 DEF OnTop, n
  <2> QED BY <1>3, <2>2, <2>3, <2>4
<1>9. IsInner(ci, i, T[u].errfunc)
  <2> DEFINE e == T[u].errfunc
  <2> HIDE DEF ci, e
  <2>1. e \in 0 .. n /\ (e # 0 => ci[e].func = "pcall") /\ \A j \in 1 .. n : ci[j].func = "pcall" => j <= e
    BY <1>1 DEF IsInner, e
  <2>2. e \in 0 .. i
    <3>1. e # 0 => e \in 1 .. n
      BY <1>1, <2>1
    <3> QED BY <1>1, <1>3, <1>8, <2>1, <3>1
  <2>3. \A j \in 1 .. i : j \in 1 .. n
    BY <1>1, <1>3
  <2> QED BY <2>1, <2>2, <2>3 DEF IsInner, e
<1> QED BY <1>7, <1>9

\* precover cuts the CallInfos at the call of pcall
MarkErr(s, i) ==
  [s EXCEPT !.ci = [SubSeq(s.ci, 1, i) EXCEPT ![i] = [SubSeq(s.ci, 1, i)[i] EXCEPT !.recst = "ERR"]]]
LEMMA MarkErrFields ==
  ASSUME NEW s \in LuaState, NEW i \in 1 .. Len(s.ci)
  PROVE  LET s2 == MarkErr(s, i)
         IN  /\ s2 \in LuaState /\ s2.ci \in Seq(CallInfo) /\ Len(s2.ci) = i
             /\ Alike(s.ci, s2.ci, i)
             /\ s2.status = s.status /\ s2.body = s.body /\ s2.errfunc = s.errfunc
             /\ s2.nny = s.nny /\ s2.nCcalls = s.nCcalls
<1> DEFINE ci == s.ci
           c1 == SubSeq(ci, 1, i)
           c2 == [c1 EXCEPT ![i] = [c1[i] EXCEPT !.recst = "ERR"]]
<1>1. ci \in Seq(CallInfo) /\ Len(ci) \in Nat
  BY DEF LuaState
<1>2. i \in 0 .. Len(ci) /\ i \in Nat /\ i \in 1 .. i /\ i <= Len(ci)
  <2> DEFINE x == Len(ci)
  <2>1. x \in Nat /\ i \in 1 .. x
    BY <1>1
  <2> HIDE DEF x
  <2>2. i \in 0 .. x /\ i \in Nat /\ i \in 1 .. i /\ i <= x
    BY <2>1
  <2> QED BY <2>2 DEF x
<1>3. c1 \in Seq(CallInfo) /\ Len(c1) = i /\ \A j \in 1 .. i : c1[j] = ci[j]
  <2> HIDE DEF ci
  <2> QED BY <1>1, <1>2, PrefixFacts
<1> HIDE DEF c1
<1>4. c1[i] \in CallInfo /\ [c1[i] EXCEPT !.recst = "ERR"] \in CallInfo
  <2>1. c1[i] \in CallInfo
    BY <1>2, <1>3
  <2> DEFINE f == c1[i]
  <2> HIDE DEF f
  <2>2. f \in CallInfo
    BY <2>1 DEF f
  <2>3. [f EXCEPT !.recst = "ERR"] \in CallInfo
    BY <2>2 DEF CallInfo
  <2> QED BY <2>2, <2>3 DEF f
<1>5. c2 \in Seq(CallInfo) /\ Len(c2) = i /\ DOMAIN c1 = 1 .. i
  BY <1>3, <1>4
<1>6. \A j \in 1 .. i : c2[j] = IF j = i THEN [c1[j] EXCEPT !.recst = "ERR"] ELSE c1[j]
  BY <1>5
<1>7. \A j \in 1 .. i : /\ c2[j].func = c1[j].func /\ c2[j].fresh = c1[j].fresh
                        /\ c2[j].ypcall = c1[j].ypcall /\ c2[j].old_errfunc = c1[j].old_errfunc
  <2> SUFFICES ASSUME NEW j \in 1 .. i
               PROVE  /\ c2[j].func = c1[j].func /\ c2[j].fresh = c1[j].fresh
                      /\ c2[j].ypcall = c1[j].ypcall /\ c2[j].old_errfunc = c1[j].old_errfunc
    OBVIOUS
  <2>1. c1[j] \in CallInfo
    BY <1>3
  <2> DEFINE f == c1[j]
  <2> HIDE DEF f
  <2>2. f \in CallInfo
    BY <2>1 DEF f
  <2>3. LET g == [f EXCEPT !.recst = "ERR"]
        IN  /\ g.func = f.func /\ g.fresh = f.fresh /\ g.ypcall = f.ypcall
            /\ g.old_errfunc = f.old_errfunc
    BY <2>2 DEF CallInfo
  <2>4. c2[j] = IF j = i THEN [f EXCEPT !.recst = "ERR"] ELSE f
    BY <1>6 DEF f
  <2> HIDE DEF c2
  <2>5. c1[j] = f
    BY DEF f
  <2> QED BY <2>3, <2>4, <2>5
<1> HIDE DEF c2
<1>8. Alike(ci, c2, i)
  <2>1. i <= Len(ci) /\ i <= Len(c2)
    BY <1>2, <1>5
  <2> HIDE DEF ci
  <2> QED BY <1>3, <1>7, <2>1 DEF Alike
<1>9. MarkErr(s, i) = WithCI(s, c2)
  BY DEF MarkErr, WithCI, c2, c1
<1>10. /\ WithCI(s, c2) \in LuaState /\ WithCI(s, c2).ci = c2
       /\ WithCI(s, c2).status = s.status
       /\ WithCI(s, c2).nCcalls = s.nCcalls /\ WithCI(s, c2).nny = s.nny
       /\ WithCI(s, c2).errfunc = s.errfunc /\ WithCI(s, c2).body = s.body
  BY SMTT(20), <1>5, OneList
<1> QED BY <1>5, <1>8, <1>9, <1>10

\* the C stack up to C[h] and the CallInfos up to i
LEMMA RecoverCore ==
  ASSUME NEW T, NEW C, NEW h, NEW u, Throws(T, C, h, u), Resumes(C[h]), T[u].status = "OK",
         OnTop(T[u].ci, C[Len(C)], Acts(C, u), "ERR"), NEW i, i = FindPcall(T[u].ci), i # 0,
         NEW T2, IsTh(T2), NEW C2 \in Seq(Activation), Others(T, T2, u),
         Len(C2) = h, \A j \in 1 .. h : C2[j] = C[j],
         Alike(T[u].ci, T2[u].ci, i), Len(T2[u].ci) = i,
         T2[u].body = T[u].body, T2[u].errfunc = T[u].errfunc, T2[u].status = "OK"
  PROVE  Core(T2, C2)
<1> DEFINE ci == T[u].ci
           c2 == T2[u].ci
<1>1. /\ C \in Seq(Activation) /\ IsTh(T) /\ Len(C) \in Nat /\ h \in Nat /\ Len(C) > 0
      /\ u \in Threads /\ ci \in Seq(CallInfo) /\ StatusOf(T, C, u)
      /\ FramesOK(ci, Acts(C, u)) /\ C[h].inc = "none"
  BY ThrowTypes
<1>2. /\ Core(T, C) /\ h \in 1 .. Len(C) /\ C[h].k = "prot" /\ u = C[h].t /\ C[h].t = C[Len(C)].t
      /\ \A j \in h + 1 .. Len(C) : C[j].k # "prot" /\ C[j].t = C[Len(C)].t
      /\ ~T[u].body
  BY SMTT(20) DEF Throws
<1>3. (\A j \in 1 .. h - 1 : C[j].t # C[h].t) /\ C[h].t # MainThread
  BY SMTT(20), <1>2, AboveResume
<1>4. \A a \in Acts(C2, u) : a.k = "prot" /\ a.inc = "none"
  <2> SUFFICES ASSUME NEW j \in 1 .. h, C2[j].t = u
               PROVE  C2[j].k = "prot" /\ C2[j].inc = "none"
    BY DEF Acts
  <2>1. j = h
    <3>1. j = h \/ j \in 1 .. h - 1
      BY SMTT(20), <1>1
    <3>2. C[j].t = C[h].t
      BY <1>2
    <3> QED BY <1>3, <3>1, <3>2
  <2> QED BY <1>1, <1>2, <2>1
<1>5. i \in 1 .. Len(ci) /\ i \in Nat
  <2> HIDE DEF ci
  <2>1. i \in 1 .. Len(ci)
    BY <1>1, FindPcallFacts DEF ci
  <2> QED BY <1>1, <2>1
<1>6. (\A j \in 1 .. i : Continues(ci[j])) /\ IsInner(ci, i, T[u].errfunc)
  BY AbovePcallk
<1>7. IsInner(c2, i, T2[u].errfunc)
  <2>1. i \in 0 .. i
    BY <1>5
  <2> HIDE DEF ci, c2
  <2>2. Alike(ci, c2, i)
    BY DEF ci, c2
  <2>3. IsInner(c2, i, T[u].errfunc)
    BY <1>5, <1>6, <2>1, <2>2, InnerAlike
  <2> QED BY <2>3
<1>8. FramesOK(c2, Acts(C2, u))
  <2>1. FreshOnes(c2, Acts(C2, u)) /\ NoYpcall(c2, Acts(C2, u))
    BY <1>4 DEF FreshOnes, NoYpcall
  <2>2. \A j \in 1 .. i : /\ c2[j].func = ci[j].func /\ c2[j].fresh = ci[j].fresh
                          /\ c2[j].ypcall = ci[j].ypcall
                          /\ c2[j].old_errfunc = ci[j].old_errfunc
    BY DEF Alike
  <2>3. /\ \A j \in 1 .. i : j \in 1 .. Len(ci) /\ (j > 1 => j - 1 \in 1 .. i)
        /\ \A j \in 1 .. i : j \in Nat /\ j - 1 \in 0 .. i
    <3> DEFINE x == Len(ci)
    <3>1. x \in Nat /\ i \in 1 .. x
      BY <1>1, <1>5
    <3> HIDE DEF x
    <3> QED BY <3>1 DEF x
  <2>4. Len(c2) = i
    OBVIOUS
  <2>5. Owned(c2, Acts(C2, u))
    <3>1. \A j \in 1 .. i : Continues(c2[j])
      BY <1>6, <2>2 DEF Continues
    <3> HIDE DEF c2
    <3> QED BY <2>4, <3>1 DEF Owned
  <2>6. LuaBelow(c2)
    <3>1. LuaBelow(ci)
      BY <1>1 DEF FramesOK
    <3> HIDE DEF c2, ci
    <3> QED BY ZenonT(40), <2>2, <2>3, <2>4, <3>1 DEF LuaBelow
  <2>7. OldHandlers(c2)
    <3>1. OldHandlers(ci)
      BY <1>1 DEF FramesOK
    <3>2. Alike(ci, c2, i)
      OBVIOUS
    <3> HIDE DEF c2, ci
    <3>3. ASSUME NEW j \in 1 .. Len(c2), c2[j].ypcall
          PROVE  c2[j].func = "pcall" /\ IsInner(c2, j - 1, c2[j].old_errfunc)
      <4>1. j \in 1 .. i
        BY <2>4
      <4>2. ci[j].func = "pcall" /\ IsInner(ci, j - 1, ci[j].old_errfunc)
        BY <2>2, <2>3, <3>1, <3>3, <4>1 DEF OldHandlers
      <4>3. j - 1 \in 0 .. i
        BY <2>3, <4>1
      <4>4. IsInner(c2, j - 1, ci[j].old_errfunc)
        BY SMTT(20), <1>5, <3>2, <4>2, <4>3, InnerAlike
      <4> QED BY <2>2, <4>1, <4>2, <4>4
    <3> QED BY <3>3 DEF OldHandlers
  <2> QED BY <2>1, <2>5, <2>6, <2>7 DEF FramesOK
<1>9. C2[Len(C2)] = C[h] /\ Len(C2) > 0 /\ u \in ChainOf(C2)
  <2>1. h \in 1 .. h /\ h > 0
    BY SMTT(20), <1>1, <1>2
  <2> QED BY SMTT(20), <1>2, <2>1 DEF ChainOf
<1>10. StatusOf(T2, C2, u)
  BY SMTT(20), <1>2, <1>3, <1>9 DEF StatusOf
<1>11. Cut(T, C, T2, C2, u)
  <2>1. Types(T2, C2)
    BY SMTT(20) DEF Types, IsTh
  <2>2. Len(C2) <= Len(C) /\ \A j \in 1 .. Len(C2) : C2[j] = C[j]
    BY SMTT(20), <1>1, <1>2
  <2>3. \A j \in Len(C2) + 1 .. Len(C) : C[j].t = u
    BY SMTT(20), <1>1, <1>2
  <2>4. u = C2[Len(C2)].t /\ Resumes(C2[Len(C2)])
    BY <1>2, <1>9
  <2>5. FramesOK(T2[u].ci, Acts(C2, u)) /\ IsInner(T2[u].ci, Len(T2[u].ci), T2[u].errfunc)
    BY <1>7, <1>8
  <2>6. \A t \in Threads \ {u} : T2[t] = T[t]
    BY DEF Others
  <2> QED BY <1>9, <1>10, <2>1, <2>2, <2>3, <2>4, <2>5, <2>6 DEF Cut
<1> QED BY <1>1, <1>2, <1>11, CoreCut

Recovered(m, h, u, i) ==
  LET m1 == CaughtAt(m, h, m.cs[h])
      m2 == SetT(m1, u, MarkErr(m1.th[u], i))
  IN  In(PushC(PushC(m2, m.cs[h]), Blank(u)), "return")

LEMMA BlankFields ==
  ASSUME NEW t \in Threads
  PROVE  /\ Blank(t) \in Activation /\ Blank(t).t = t /\ Blank(t).k = "unroll"
         /\ Blank(t).inc = "none" /\ Blank(t).depth = 0 /\ Blank(t).use = None
  BY DEF Blank, Activation, None

LEMMA ErrorRecovered ==
  ASSUME NEW m, IsM(m), NEW h, NEW u, Throws(m.th, m.cs, h, u), Resumes(m.cs[h]),
         m.th[u].status = "OK", OnTop(m.th[u].ci, m.cs[Len(m.cs)], Acts(m.cs, u), "ERR"),
         NEW i, i = FindPcall(m.th[u].ci), i # 0
  PROVE  InvM(Recovered(m, h, u, i))
<1> DEFINE T  == m.th
           C  == m.cs
           p  == C[h]
           m1 == CaughtAt(m, h, p)
           s  == MarkErr(m1.th[u], i)
           m2 == SetT(m1, u, s)
           m3 == PushC(m2, p)
           m4 == PushC(m3, Blank(u))
<1>1. Core(T, C) /\ h \in 1 .. Len(C) /\ u = C[h].t /\ C[h].k = "prot"
  BY Zenon DEF Throws
<1>2. /\ p \in Activation /\ u \in Threads /\ T[u].ci \in Seq(CallInfo) /\ h \in Nat
      /\ Good(T, C, h) /\ C \in Seq(Activation)
  BY ThrowTypes
<1>3. IsCaught(m, m1, h, p, u)
  <2> HIDE DEF p
  <2>1. u = p.t
    BY <1>1 DEF p
  <2> QED BY SMTT(20), <1>1, <1>2, <2>1, CaughtFacts
<1> HIDE DEF m1
<1>4. /\ IsM(m1) /\ Others(T, m1.th, u) /\ m1.th[u].ci = T[u].ci
      /\ m1.th[u].status = T[u].status /\ m1.th[u].body = T[u].body
      /\ m1.th[u].errfunc = T[u].errfunc /\ m1.th[u].nny = p.nny /\ m1.th[u].nCcalls = p.nCcalls
      /\ Len(m1.cs) = h - 1 /\ \A j \in 1 .. h - 1 : m1.cs[j] = C[j]
  BY <1>3 DEF IsCaught, Restored
<1>5. i \in 1 .. Len(T[u].ci)
  <2> DEFINE ci == T[u].ci
  <2>1. ci \in Seq(CallInfo) /\ i = FindPcall(ci)
    BY <1>2
  <2> HIDE DEF ci
  <2>2. i \in 1 .. Len(ci)
    BY <2>1, FindPcallFacts
  <2> QED BY <2>2 DEF ci
<1>6. m1.th[u] \in LuaState
  BY <1>2, <1>4, MachineParts, ThreadFields DEF IsTh
<1>7. /\ s \in LuaState /\ s.ci \in Seq(CallInfo) /\ Len(s.ci) = i /\ Alike(T[u].ci, s.ci, i)
      /\ s.status = "OK" /\ s.body = T[u].body /\ s.errfunc = T[u].errfunc
      /\ s.nny = p.nny /\ s.nCcalls = p.nCcalls
  <2> DEFINE s0 == m1.th[u]
  <2>1. s0 \in LuaState /\ i \in 1 .. Len(s0.ci)
    BY <1>4, <1>5, <1>6
  <2> HIDE DEF s0
  <2>2. LET s2 == MarkErr(s0, i)
        IN  /\ s2 \in LuaState /\ s2.ci \in Seq(CallInfo) /\ Len(s2.ci) = i
            /\ Alike(s0.ci, s2.ci, i)
            /\ s2.status = s0.status /\ s2.body = s0.body /\ s2.errfunc = s0.errfunc
            /\ s2.nny = s0.nny /\ s2.nCcalls = s0.nCcalls
    BY <2>1, MarkErrFields
  <2> QED BY <1>4, <2>2 DEF s0
<1> HIDE DEF s
<1>8. /\ IsM(m2) /\ m2.cs = m1.cs /\ m2.th[u] = s /\ Others(m1.th, m2.th, u)
  BY <1>2, <1>4, <1>7, SetTFacts
<1> HIDE DEF m2
<1>9. IsM(m3) /\ m3.th = m2.th /\ m3.cs = Append(m2.cs, p)
  BY <1>2, <1>8, PushCFacts
<1> HIDE DEF m3
<1>10. /\ Len(m3.cs) = h /\ \A j \in 1 .. h : m3.cs[j] = C[j]
  <2> DEFINE w == m2.cs
             g == h - 1
  <2>1. w \in Seq(Activation) /\ Len(w) = g /\ \A j \in 1 .. g : w[j] = C[j]
    BY SMTT(20), <1>4, <1>8, MachineParts
  <2>2. g \in Nat /\ g + 1 = h
    BY <1>1, <1>2
  <2>3. m3.cs = Append(w, p)
    BY <1>9
  <2> HIDE DEF w, g, p
  <2>4. Len(Append(w, p)) = g + 1 /\ Append(w, p)[g + 1] = p /\ \A j \in 1 .. g : Append(w, p)[j] = w[j]
    BY <1>2, <2>1
  <2>5. \A j \in 1 .. h : j = g + 1 \/ j \in 1 .. g
    BY <2>2
  <2>6. C[g + 1] = p
    BY <2>2 DEF p
  <2> QED BY <2>1, <2>2, <2>3, <2>4, <2>5, <2>6
<1>11. IsTh(m3.th) /\ m3.cs \in Seq(Activation)
  BY <1>9, MachineParts
<1>12. /\ Others(T, m3.th, u) /\ m3.th[u] = s
  BY <1>4, <1>8, <1>9 DEF Others
<1> HIDE DEF p
<1>13. Core(m3.th, m3.cs)
  <2>1. /\ Throws(T, C, h, u) /\ Resumes(C[h]) /\ T[u].status = "OK"
        /\ OnTop(T[u].ci, C[Len(C)], Acts(C, u), "ERR") /\ i = FindPcall(T[u].ci) /\ i # 0
    OBVIOUS
  <2>2. /\ Alike(T[u].ci, m3.th[u].ci, i) /\ Len(m3.th[u].ci) = i
        /\ m3.th[u].body = T[u].body /\ m3.th[u].errfunc = T[u].errfunc
        /\ m3.th[u].status = "OK"
    BY <1>7, <1>12
  <2> HIDE DEF T, C
  <2> QED BY <1>10, <1>11, <1>12, <2>1, <2>2, RecoverCore
<1>14. m3.cs[Len(m3.cs)] = C[h] /\ Len(m3.cs) > 0
  <2>1. h \in 1 .. h /\ h > 0
    BY SMTT(20), <1>1, <1>2
  <2> QED BY SMTT(20), <1>10, <2>1
<1>15. Live(m3.th, m3.cs)
  <2>1. C[h].nny = Nyci(C, u, h) /\ C[h].nCcalls = Cnt(C, h)
    BY <1>1, <1>2 DEF Good, Saved
  <2>2. Nyci(m3.cs, u, h) = Nyci(C, u, h) /\ Cnt(m3.cs, h) = Cnt(C, h)
    BY <1>10, SameCount, SameNyci
  <2>3. m3.th[u].nny = C[h].nny /\ m3.th[u].nCcalls = C[h].nCcalls
    BY <1>7, <1>12 DEF p
  <2> QED BY SMTT(20), <1>1, <1>10, <1>14, <2>1, <2>2, <2>3 DEF Live, CountedTo
<1>16. LET a == Blank(u)
       IN  Core(m3.th, Append(m3.cs, a)) /\ (Live(m3.th, m3.cs) => Live(m3.th, Append(m3.cs, a)))
  <2> DEFINE a == Blank(u)
             b == m3.cs[Len(m3.cs)]
  <2>1. /\ a \in Activation /\ a.t = u /\ a.k = "unroll" /\ a.inc = "none" /\ a.depth = 0
        /\ a.use = None
    BY SMTT(20), <1>2, BlankFields
  <2> HIDE DEF a
  <2>2. Resumes(b) /\ b.t = u
    BY <1>1, <1>14
  <2>3. Linked(m3.th[a.t].ci, a, b)
    BY <2>1, <2>2 DEF Linked, LinkedProt, LinkedClose, LinkedCall, LinkedUnroll
  <2>4. ~Resumes(a) /\ b.k # "call"
    BY <2>1, <2>2 DEF Resumes
  <2>5. m3.th[a.t].status = "OK"
    BY <1>7, <1>12, <2>1
  <2> DEFINE T3 == m3.th
             C3 == m3.cs
  <2>6. /\ Core(T3, C3) /\ Len(C3) > 0 /\ a.t = C3[Len(C3)].t /\ Resumes(C3[Len(C3)])
        /\ C3[Len(C3)].k # "call" /\ Linked(T3[a.t].ci, a, C3[Len(C3)]) /\ T3[a.t].status = "OK"
    BY <1>13, <1>14, <2>1, <2>2, <2>3, <2>4, <2>5
  <2>7. a.k # "call" /\ a.k # "prot"
    BY <2>1
  <2> HIDE DEF T3, C3
  <2>8. Core(T3, Append(C3, a)) /\ (Live(T3, C3) => Live(T3, Append(C3, a)))
    BY <2>1, <2>4, <2>6, <2>7, ActBegins
  <2> QED BY <2>8 DEF T3, C3, a
<1>17. IsM(m4) /\ m4.th = m3.th /\ m4.cs = Append(m3.cs, Blank(u))
  <2>1. Blank(u) \in Activation
    BY <1>2, BlankFields
  <2> QED BY <1>9, <2>1, PushCFacts
<1> HIDE DEF m4
<1>18. TopIs(m4, u, Blank(u), i)
  <2> DEFINE w == m3.cs
             a == Blank(u)
  <2>1. w \in Seq(Activation) /\ a \in Activation /\ a.t = u
    BY <1>2, <1>11, BlankFields
  <2> HIDE DEF w, a
  <2>2. Len(Append(w, a)) > 0 /\ Append(w, a)[Len(Append(w, a))] = a
    BY <2>1
  <2>3. m4.cs = Append(w, a) /\ Len(m4.th[u].ci) = i
    BY <1>7, <1>12, <1>17 DEF w, a
  <2>4. TopIs(m4, u, a, i)
    BY <2>1, <2>2, <2>3 DEF TopIs
  <2> QED BY <2>4 DEF a
<1>19. Core(m4.th, m4.cs) /\ Live(m4.th, m4.cs)
  BY <1>15, <1>16, <1>17
<1>20. OnTop(m4.th[u].ci, Blank(u), Acts(m4.cs, u), "return")
  <2>1. Len(m4.th[u].ci) = i /\ m4.th[u].ci = s.ci
    BY <1>7, <1>12, <1>17
  <2>2. Continues(s.ci[i])
    <3>1. Continues(T[u].ci[i])
      <4>1. \A j \in 1 .. i : Continues(T[u].ci[j])
        BY AbovePcallk
      <4>2. i \in 1 .. i
        <5> DEFINE x == Len(T[u].ci)
        <5>1. x \in Nat /\ i \in 1 .. x
          BY <1>2, <1>5
        <5> HIDE DEF x
        <5> QED BY <5>1
      <4> QED BY <4>1, <4>2
    <3>2. i \in 1 .. i
      <4> DEFINE x == Len(T[u].ci)
      <4>1. x \in Nat /\ i \in 1 .. x
        BY <1>2, <1>5
      <4> HIDE DEF x
      <4> QED BY <4>1
    <3>3. s.ci[i].func = T[u].ci[i].func /\ s.ci[i].ypcall = T[u].ci[i].ypcall
      BY <1>7, <3>2 DEF Alike
    <3> QED BY <3>1, <3>3 DEF Continues
  <2>3. Blank(u).k = "unroll"
    BY <1>2, BlankFields
  <2> QED BY <2>1, <2>2, <2>3 DEF OnTop
<1>21. m4.th[u].status = "OK"
  BY <1>7, <1>12, <1>17
<1>22. InvM(In(m4, "return"))
  BY <1>17, <1>18, <1>19, <1>20, <1>21, InvHolds
<1> QED BY <1>22 DEF Recovered, m4, m3, m2, m1, s, p

\* what a protected call, or luaD_closeprotected, that catches an error knows
LEMMA CaughtError ==
  ASSUME NEW T, NEW C, NEW h, NEW u, Throws(T, C, h, u), ~Resumes(C[h]), T[u].status = "OK",
         OnTop(T[u].ci, C[Len(C)], Acts(C, u), "ERR")
  PROVE  /\ C[h].depth \in 0 .. Len(T[u].ci)
         /\ IsInner(T[u].ci, C[h].depth, T[u].errfunc)
         /\ \A i \in h + 1 .. Len(C) : C[i].depth >= C[h].depth
         /\ C[h].use = "pcall" \/ (C[h].use = "closep" /\ C[h].then \in {"pcall", "close", "wrap"})
<1> DEFINE ci == T[u].ci
           d  == C[h].depth
           n  == Len(ci)
<1>1. /\ C \in Seq(Activation) /\ IsTh(T) /\ Len(C) \in Nat /\ h \in Nat /\ Len(C) > 0
      /\ u \in Threads /\ C[h] \in Activation /\ d \in Nat
      /\ ci \in Seq(CallInfo) /\ n \in Nat /\ Good(T, C, h) /\ Stack(T, C)
      /\ IsInner(ci, n, T[u].errfunc)
  BY ThrowTypes
<1>2. /\ Core(T, C) /\ h \in 1 .. Len(C) /\ C[h].k = "prot" /\ u = C[h].t /\ C[h].t = C[Len(C)].t
      /\ \A j \in h + 1 .. Len(C) : C[j].k # "prot" /\ C[j].t = C[Len(C)].t
      /\ T[C[h].t].status # "ERR"
  BY DEF Throws
<1>3. d \in 0 .. n
  <2>1. CASE d = 0
    BY <1>1, <2>1
  <2>2. CASE d # 0
    <3>1. C[h].depth > 0
      BY <1>1, <2>2
    <3>2. C[h].depth \in 1 .. Len(T[C[h].t].ci)
      <4> HIDE DEF d
      <4> QED BY <1>2, <3>1, ProtCall
    <3>3. d \in 1 .. n
      BY <1>2, <3>2
    <3> HIDE DEF d, n
    <3> QED BY <1>1, <3>3
  <2> QED BY <2>1, <2>2
<1>4. \A j \in 1 .. n : ci[j].func = "pcall" => j <= d
  <2>1. OnTop(T[C[h].t].ci, C[Len(C)], Acts(C, C[h].t), "ERR")
    BY <1>2
  <2>2. \A j \in 1 .. Len(T[C[h].t].ci) : T[C[h].t].ci[j].func = "pcall" => j <= C[h].depth
    BY <1>2, <2>1, NoPcallAbove
  <2> QED BY <1>2, <2>2
<1>5. IsInner(ci, d, T[u].errfunc)
  <2> DEFINE e == T[u].errfunc
  <2> HIDE DEF ci, e, d, n
  <2>1. e \in 0 .. n /\ (e # 0 => ci[e].func = "pcall") /\ \A j \in 1 .. n : ci[j].func = "pcall" => j <= e
    BY <1>1 DEF IsInner, e
  <2>2. e \in 0 .. d
    <3>1. e # 0 => e \in 1 .. n
      BY <1>1, <2>1
    <3> QED BY <1>1, <1>3, <1>4, <2>1, <3>1
  <2>3. \A j \in 1 .. d : j \in 1 .. n
    BY <1>1, <1>3
  <2> QED BY <2>1, <2>2, <2>3 DEF IsInner, e
<1>6. ASSUME NEW i \in h + 1 .. Len(C)
      PROVE  C[i].depth >= C[h].depth
  <2>1. i \in 1 .. Len(C) /\ h \in 1 .. i - 1
    BY <1>1, <1>2
  <2>2. Deeper(C, i)
    BY <1>1, <2>1 DEF Stack, Good
  <2>3. C[h].t = C[i].t
    BY <1>2
  <2>4. C[h].depth <= C[i].depth
    BY <2>1, <2>2, <2>3 DEF Deeper
  <2>5. C[i].depth \in Nat
    BY <1>1, <2>1, ActivationsFields
  <2> QED BY <1>1, <2>4, <2>5
<1>7. C[h].use = "pcall" \/ (C[h].use = "closep" /\ C[h].then \in {"pcall", "close", "wrap"})
  <2>1. CASE First(C, h)
    <3>1. BlockStarts(T, C, h)
      BY <1>1, <2>1 DEF Good
    <3>2. h = 1 \/ h > 1
      BY <1>1, <1>2
    <3> QED BY <1>2, <3>1, <3>2 DEF BlockStarts, IsPcall, Resumes
  <2>2. CASE ~First(C, h)
    <3>1. IsPcall(C[h])
      BY <1>1, <1>2, <2>2 DEF Good, Linked, LinkedProt
    <3> QED BY SMTT(20), <3>1 DEF IsPcall
  <2> QED BY <2>1, <2>2
<1> QED BY <1>3, <1>5, <1>6, <1>7

\* the C stack up to C[h] and the CallInfos that it saw
LEMMA CaughtCore ==
  ASSUME NEW T, NEW C, NEW h, NEW u, Throws(T, C, h, u), ~Resumes(C[h]), T[u].status = "OK",
         OnTop(T[u].ci, C[Len(C)], Acts(C, u), "ERR"),
         NEW T2, IsTh(T2), NEW C2 \in Seq(Activation), Others(T, T2, u),
         Len(C2) = h, \A j \in 1 .. h : C2[j] = C[j],
         Len(T2[u].ci) = C[h].depth, Alike(T[u].ci, T2[u].ci, C[h].depth),
         T2[u].body = T[u].body, T2[u].errfunc = T[u].errfunc, T2[u].status = "OK",
         T2[u].nny = C[h].nny, T2[u].nCcalls = C[h].nCcalls
  PROVE  Core(T2, C2) /\ Live(T2, C2)
<1> DEFINE d == C[h].depth
<1>1. /\ C \in Seq(Activation) /\ IsTh(T) /\ Len(C) \in Nat /\ h \in Nat /\ Len(C) > 0
      /\ u \in Threads /\ StatusOf(T, C, u) /\ d \in Nat /\ Good(T, C, h)
      /\ T[u].ci \in Seq(CallInfo)
  BY ThrowTypes
<1>2. /\ Core(T, C) /\ h \in 1 .. Len(C) /\ C[h].k = "prot" /\ u = C[h].t /\ C[h].t = C[Len(C)].t
      /\ \A j \in h + 1 .. Len(C) : C[j].k # "prot" /\ C[j].t = C[Len(C)].t
      /\ ~T[u].body
  BY DEF Throws
<1>3. /\ IsInner(T[u].ci, d, T[u].errfunc) /\ d \in 0 .. Len(T[u].ci)
      /\ \A i \in h + 1 .. Len(C) : C[i].depth >= d
  BY CaughtError
<1>4. C2[Len(C2)] = C[h] /\ Len(C2) > 0 /\ u \in ChainOf(C2) /\ u = C2[Len(C2)].t
  <2>1. h \in 1 .. h /\ h > 0
    BY <1>1, <1>2
  <2> QED BY <1>2, <2>1 DEF ChainOf
<1>5. IsInner(T2[u].ci, d, T2[u].errfunc)
  <2> DEFINE ci == T[u].ci
             c2 == T2[u].ci
  <2>1. d \in 0 .. d
    BY <1>1
  <2>2. Alike(ci, c2, d) /\ IsInner(ci, d, T[u].errfunc)
    BY <1>3
  <2> HIDE DEF ci, c2, d
  <2>3. IsInner(c2, d, T[u].errfunc)
    BY <1>1, <2>1, <2>2, InnerAlike
  <2> QED BY <2>3 DEF c2
<1>6. StatusOf(T2, C2, u)
  BY SMTT(20), <1>2, <1>4 DEF StatusOf
<1>7. \A i \in Len(C2) + 1 .. Len(C) : C[i].t = u /\ C[i].depth >= d
  BY <1>2, <1>3
<1>8. Len(C2) <= Len(C) /\ (\A i \in 1 .. Len(C2) : C2[i] = C[i]) /\ C2[Len(C2)].depth <= d
  BY SMTT(20), <1>1, <1>2, <1>4
<1>9. Core(T2, C2)
  <2>1. Len(T2[u].ci) = d /\ Alike(T[u].ci, T2[u].ci, d) /\ \A t \in Threads \ {u} : T2[t] = T[t]
    BY DEF Others
  <2>2. T[u].status # "ERR"
    OBVIOUS
  <2> HIDE DEF d
  <2> QED BY <1>1, <1>2, <1>4, <1>5, <1>6, <1>7, <1>8, <2>1, <2>2, CoreShrink
<1>10. Live(T2, C2)
  <2>1. C[h].nny = Nyci(C, u, h) /\ C[h].nCcalls = Cnt(C, h)
    BY <1>1, <1>2 DEF Good, Saved
  <2>2. Nyci(C2, u, h) = Nyci(C, u, h) /\ Cnt(C2, h) = Cnt(C, h)
    BY SameCount, SameNyci
  <2> QED BY <1>2, <1>4, <2>1, <2>2 DEF Live, CountedTo
<1> QED BY <1>9, <1>10

Protects(m, a, t, then, e) ==
  /\ a \in Activation /\ a.k = "prot" /\ a.t = t /\ a.use = "closep" /\ a.then = then
  /\ a.depth = Len(m.th[t].ci) /\ a.inc = "none" /\ a.nny = m.th[t].nny
  /\ a.nCcalls = m.th[t].nCcalls /\ a.errfunc = e
LEMMA ProtectsClose ==
  ASSUME NEW m, IsM(m), NEW t \in Threads, NEW level \in Nat,
         NEW then \in {"pcall", "close", "wrap"}, NEW e \in Nat
  PROVE  Protects(m, ProtectClose(m, t, level, then, e), t, then, e)
  BY ProtectCloseFacts DEF Protects

ErrorAt(m, h, u) ==
  LET m1 == CaughtAt(m, h, m.cs[h])
  IN  SetCI(m1, u, SubSeq(m1.th[u].ci, 1, m.cs[h].depth))
Caught2(p) == IF p.use = "pcall" THEN "pcall" ELSE p.then
LEMMA ErrorCaught ==
  ASSUME NEW m, IsM(m), NEW h, NEW u, Throws(m.th, m.cs, h, u), ~Resumes(m.cs[h]),
         m.th[u].status = "OK", OnTop(m.th[u].ci, m.cs[Len(m.cs)], Acts(m.cs, u), "ERR")
  PROVE  InvM(CloseProtected(ErrorAt(m, h, u), u, m.cs[h].level, "ERR", Caught2(m.cs[h]),
                             m.cs[h].errfunc))
<1> DEFINE T  == m.th
           C  == m.cs
           p  == C[h]
           d  == p.depth
           m1 == CaughtAt(m, h, p)
           c3 == SubSeq(m1.th[u].ci, 1, d)
           m3 == SetCI(m1, u, c3)
           a  == ProtectClose(m3, u, p.level, Caught2(p), p.errfunc)
           m4 == PushC(m3, a)
           CC == Append(m3.cs, p)
<1>1. Core(T, C) /\ h \in 1 .. Len(C) /\ u = C[h].t /\ C[h].k = "prot" /\ ~T[u].body
  BY DEF Throws
<1>2. /\ p \in Activation /\ u \in Threads /\ T[u].ci \in Seq(CallInfo) /\ h \in Nat
      /\ Good(T, C, h) /\ C \in Seq(Activation) /\ d \in Nat
  BY ThrowTypes
<1>3. IsCaught(m, m1, h, p, u)
  <2> HIDE DEF p
  <2>1. u = p.t
    BY <1>1 DEF p
  <2> QED BY <1>1, <1>2, <2>1, CaughtFacts
<1> HIDE DEF m1
<1>4. /\ IsM(m1) /\ Others(T, m1.th, u) /\ m1.th[u].ci = T[u].ci
      /\ m1.th[u].status = T[u].status /\ m1.th[u].body = T[u].body
      /\ m1.th[u].errfunc = T[u].errfunc /\ m1.th[u].nny = p.nny /\ m1.th[u].nCcalls = p.nCcalls
      /\ Len(m1.cs) = h - 1 /\ \A j \in 1 .. h - 1 : m1.cs[j] = C[j]
  BY <1>3 DEF IsCaught, Restored
<1>5. /\ d \in 0 .. Len(T[u].ci)
      /\ p.use = "pcall" \/ (p.use = "closep" /\ p.then \in {"pcall", "close", "wrap"})
  <2>1. OnTop(T[u].ci, C[Len(C)], Acts(C, u), "ERR") /\ ~Resumes(C[h]) /\ Throws(T, C, h, u)
        /\ T[u].status = "OK"
    OBVIOUS
  <2>2. C[h].depth \in 0 .. Len(T[u].ci)
    <3> HIDE DEF T, C
    <3> QED BY <2>1, CaughtError
  <2>3. C[h].use = "pcall" \/ (C[h].use = "closep" /\ C[h].then \in {"pcall", "close", "wrap"})
    <3> HIDE DEF T, C
    <3> QED BY <2>1, CaughtError
  <2> QED BY <2>2, <2>3
<1>6. c3 \in Seq(CallInfo) /\ Len(c3) = d /\ \A j \in 1 .. d : c3[j] = T[u].ci[j]
  <2> DEFINE ci == T[u].ci
  <2>1. c3 = SubSeq(ci, 1, d) /\ ci \in Seq(CallInfo) /\ d \in 0 .. Len(ci)
    BY <1>2, <1>4, <1>5
  <2> HIDE DEF ci, d, c3
  <2>2. c3 \in Seq(CallInfo) /\ Len(c3) = d /\ \A j \in 1 .. d : c3[j] = ci[j]
    BY <2>1, PrefixFacts
  <2> QED BY <2>2 DEF ci
<1>7. Alike(T[u].ci, c3, d)
  <2> DEFINE ci == T[u].ci
  <2>1. d <= Len(ci) /\ d <= Len(c3)
    <3> DEFINE x == Len(ci)
    <3>1. d \in 0 .. x /\ Len(c3) = d /\ x \in Nat
      BY <1>2, <1>5, <1>6
    <3> HIDE DEF x, d, c3
    <3> QED BY <3>1 DEF x
  <2>2. \A j \in 1 .. d : c3[j] = ci[j]
    BY <1>6
  <2> HIDE DEF ci, c3, d
  <2>3. Alike(ci, c3, d)
    BY <2>1, <2>2 DEF Alike
  <2> QED BY <2>3 DEF ci
<1> HIDE DEF c3
<1>8. OnlyCI(m1, m3, u) /\ m3.th[u].ci = c3 /\ m3.th[u].errfunc = m1.th[u].errfunc
  BY <1>2, <1>4, <1>6, SetCIFacts
<1> HIDE DEF m3
<1>9. /\ IsM(m3) /\ m3.cs = m1.cs /\ Others(T, m3.th, u) /\ m3.th[u].status = "OK"
      /\ m3.th[u].body = T[u].body /\ m3.th[u].errfunc = T[u].errfunc
      /\ m3.th[u].nny = p.nny /\ m3.th[u].nCcalls = p.nCcalls
  BY <1>4, <1>8 DEF OnlyCI, Others
<1>10. /\ CC \in Seq(Activation) /\ Len(CC) = h /\ \A j \in 1 .. h : CC[j] = C[j]
  <2> DEFINE w == m3.cs
             g == h - 1
  <2>1. w \in Seq(Activation) /\ Len(w) = g /\ \A j \in 1 .. g : w[j] = C[j]
    BY <1>4, <1>9, MachineParts
  <2>2. g \in Nat /\ g + 1 = h
    BY <1>1, <1>2
  <2>3. CC = Append(w, p)
    OBVIOUS
  <2> HIDE DEF w, g, p, CC
  <2>4. /\ Append(w, p) \in Seq(Activation)
        /\ Len(Append(w, p)) = g + 1 /\ Append(w, p)[g + 1] = p
        /\ \A j \in 1 .. g : Append(w, p)[j] = w[j]
    BY <1>2, <2>1
  <2>5. \A j \in 1 .. h : j = g + 1 \/ j \in 1 .. g
    BY <2>2
  <2>6. C[g + 1] = p
    BY <2>2 DEF p
  <2> QED BY <2>1, <2>2, <2>3, <2>4, <2>5, <2>6
<1>11. IsTh(m3.th)
  BY <1>9, MachineParts
<1>12. Core(m3.th, CC) /\ Live(m3.th, CC)
  <2>1. /\ Throws(T, C, h, u) /\ ~Resumes(C[h]) /\ T[u].status = "OK"
        /\ OnTop(T[u].ci, C[Len(C)], Acts(C, u), "ERR")
    OBVIOUS
  <2>2. /\ Len(m3.th[u].ci) = C[h].depth /\ Alike(T[u].ci, m3.th[u].ci, C[h].depth)
        /\ m3.th[u].nny = C[h].nny /\ m3.th[u].nCcalls = C[h].nCcalls
    BY <1>6, <1>7, <1>8, <1>9
  <2> DEFINE T3 == m3.th
  <2>3. /\ IsTh(T3) /\ Others(T, T3, u) /\ T3[u].body = T[u].body /\ T3[u].errfunc = T[u].errfunc
        /\ T3[u].status = "OK" /\ Len(T3[u].ci) = C[h].depth /\ Alike(T[u].ci, T3[u].ci, C[h].depth)
        /\ T3[u].nny = C[h].nny /\ T3[u].nCcalls = C[h].nCcalls
    BY <1>9, <1>11, <2>2
  <2> HIDE DEF T, C, CC, T3, p, d
  <2>4. Core(T3, CC) /\ Live(T3, CC)
    BY <1>10, <2>1, <2>3, CaughtCore
  <2> QED BY <2>4 DEF T3
<1>13. CC[Len(CC)] = p /\ Len(CC) > 0
  <2>1. h \in 1 .. h /\ h > 0
    BY <1>1, <1>2
  <2> QED BY <1>10, <2>1
<1>14. Caught2(p) \in {"pcall", "close", "wrap"} /\ p.level \in Nat /\ p.errfunc \in Nat
  <2>1. Caught2(p) \in {"pcall", "close", "wrap"}
    BY <1>5 DEF Caught2
  <2> HIDE DEF p
  <2> QED BY <1>2, <2>1, ActivationFields
<1>15. /\ a \in Activation /\ a.k = "prot" /\ a.t = u /\ a.use = "closep" /\ a.then = Caught2(p)
       /\ a.depth = d /\ a.inc = "none" /\ a.nny = p.nny /\ a.nCcalls = p.nCcalls
       /\ a.errfunc = p.errfunc
  <2> DEFINE lv == p.level
             tn == Caught2(p)
             ef == p.errfunc
  <2>1. lv \in Nat /\ tn \in {"pcall", "close", "wrap"} /\ ef \in Nat
    BY <1>14
  <2>0. IsM(m3)
    BY <1>9
  <2> HIDE DEF lv, tn, ef, p, d, CC
  <2>2. Protects(m3, ProtectClose(m3, u, lv, tn, ef), u, tn, ef)
    BY <1>2, <2>0, <2>1, ProtectsClose
  <2>3. a = ProtectClose(m3, u, lv, tn, ef)
    BY DEF lv, tn, ef
  <2> HIDE DEF a
  <2>4. /\ a \in Activation /\ a.k = "prot" /\ a.t = u /\ a.use = "closep" /\ a.then = tn
        /\ a.depth = Len(m3.th[u].ci) /\ a.inc = "none" /\ a.nny = m3.th[u].nny
        /\ a.nCcalls = m3.th[u].nCcalls /\ a.errfunc = ef
    BY <2>2, <2>3 DEF Protects
  <2> QED BY <1>6, <1>8, <1>9, <2>4 DEF tn, ef
<1> HIDE DEF a
<1>16. IsM(m4) /\ m4.th = m3.th /\ m4.cs = Append(m3.cs, a)
  BY <1>9, <1>15, PushCFacts
<1> HIDE DEF m4
<1>17. /\ m4.cs \in Seq(Activation) /\ Len(m4.cs) = h /\ m4.cs[h] = a
       /\ \A j \in 1 .. h - 1 : m4.cs[j] = CC[j]
  <2> DEFINE w == m3.cs
             g == h - 1
  <2>1. w \in Seq(Activation) /\ Len(w) = g /\ \A j \in 1 .. g : w[j] = C[j]
    BY <1>4, <1>9, MachineParts
  <2>2. g \in Nat /\ g + 1 = h /\ \A j \in 1 .. g : j \in 1 .. h
    BY <1>1, <1>2
  <2> HIDE DEF w, CC
  <2>3. m4.cs = Append(w, a)
    BY <1>16 DEF w
  <2> HIDE DEF g
  <2>4. /\ Append(w, a) \in Seq(Activation)
        /\ Len(Append(w, a)) = g + 1 /\ Append(w, a)[g + 1] = a
        /\ \A j \in 1 .. g : Append(w, a)[j] = w[j]
    BY <1>15, <2>1
  <2>5. \A j \in 1 .. g : m4.cs[j] = CC[j]
    BY <1>10, <2>1, <2>2, <2>3, <2>4
  <2>6. m4.cs \in Seq(Activation) /\ Len(m4.cs) = g + 1 /\ m4.cs[g + 1] = a
    BY <2>3, <2>4
  <2> QED BY <2>2, <2>5, <2>6 DEF g
<1>18. Core(m4.th, m4.cs) /\ Live(m4.th, m4.cs)
  <2> DEFINE T3 == m3.th
             C3 == m4.cs
             q  == CC[Len(CC)]
  <2>1. /\ q.k = "prot" /\ ~Resumes(q) /\ a.t = q.t /\ a.depth = q.depth /\ a.nny = q.nny
        /\ a.nCcalls = q.nCcalls /\ a.errfunc = q.errfunc
        /\ a.then = (IF q.use = "pcall" THEN "pcall" ELSE q.then)
    BY <1>1, <1>13, <1>15 DEF Caught2
  <2>2. /\ Core(T3, CC) /\ Live(T3, CC) /\ Len(CC) > 0 /\ Len(C3) = Len(CC)
        /\ C3 \in Seq(Activation) /\ C3[Len(CC)] = a
        /\ \A i \in 1 .. Len(CC) - 1 : C3[i] = CC[i]
    BY <1>10, <1>12, <1>13, <1>17
  <2>3. /\ a \in Activation /\ a.k = "prot" /\ a.use = "closep" /\ a.inc = "none"
    BY <1>15
  <2> HIDE DEF T3, C3, CC
  <2>4. Core(T3, C3) /\ (Live(T3, CC) => Live(T3, C3))
    BY <2>1, <2>2, <2>3, ProtAgain DEF q
  <2> QED BY <1>16, <2>2, <2>4 DEF T3, C3
<1>19. TopIs(m4, u, a, d)
  <2>1. Len(m4.cs) > 0 /\ m4.cs[Len(m4.cs)] = a
    BY <1>1, <1>2, <1>17
  <2>2. Len(m4.th[u].ci) = d
    BY <1>6, <1>8, <1>16
  <2> QED BY <1>15, <2>1, <2>2 DEF TopIs
<1>20. m4.th[u].status = "OK" /\ CloseReady(m4.th[u].ci, a, d, FALSE)
  BY <1>9, <1>15, <1>16 DEF CloseReady
<1>21. InvM(Close(m4, u, p.level, "ERR", FALSE))
  <2> DEFINE lv == p.level
  <2>1. lv \in Nat
    BY <1>14
  <2> HIDE DEF lv, d, p
  <2>2. InvM(Close(m4, u, lv, "ERR", FALSE))
    BY <1>16, <1>18, <1>19, <1>20, <2>1, CloseBegins
  <2> QED BY <2>2 DEF lv
<1> DEFINE r == CloseProtected(ErrorAt(m, h, u), u, m.cs[h].level, "ERR", Caught2(m.cs[h]),
                               m.cs[h].errfunc)
<1>22. r = Close(m4, u, p.level, "ERR", FALSE)
  BY DEF ErrorAt, CloseProtected, ProtectClose, m4, a, m3, c3, m1
<1> HIDE DEF r
<1>23. InvM(r)
  BY <1>21, <1>22
<1> QED BY SMTT(20), <1>23 DEF r

-----------------------------------------------------------------------------
(* The steps of the specification *)

IInv == Inv(th, cstack, mode)

LEMMA Arrives ==
  ASSUME NEW m, InvM(m), Go(m)
  PROVE  IInv'
  BY DEF InvM, Go, IInv

\* the state that a step starts from
Depth == Len(th[L].ci)
LEMMA MFacts ==
  ASSUME IInv
  PROVE  IsM(M) /\ InvM(M) /\ M.th = th /\ M.cs = cstack /\ M.mode = mode
<1>1. th \in [Threads -> LuaState] /\ cstack \in Seq(Activation)
      /\ mode \in {"run", "return", "ERR", "YIELD"}
  BY DEF IInv, Inv, Core, Types
<1>2. M.th = th /\ M.cs = cstack /\ M.mode = mode
  BY DEF M
<1> QED BY <1>1, <1>2 DEF IsM, InvM, IInv, M

LEMMA Leaves ==
  ASSUME IInv, cstack # <<>>
  PROVE  /\ IsM(M) /\ InvM(M) /\ M.th = th /\ M.cs = cstack /\ M.mode = mode
         /\ TopIs(M, L, Top, Depth) /\ Depth \in Nat /\ L \in Threads /\ Top \in Activation
         /\ th[L].ci \in Seq(CallInfo) /\ Top = cstack[Len(cstack)] /\ Len(cstack) > 0
         /\ Core(th, cstack) /\ IsTh(th) /\ th[L] \in LuaState
<1>1. IsM(M) /\ InvM(M) /\ M.th = th /\ M.cs = cstack /\ M.mode = mode
  BY MFacts
<1>2. Core(th, cstack) /\ cstack \in Seq(Activation) /\ IsTh(th)
  BY DEF IInv, Inv, Core, Types, IsTh
<1>3. Len(cstack) > 0 /\ Top = cstack[Len(cstack)]
  BY <1>2 DEF Top, Last
<1>4. TopIs(M, L, Top, Depth)
  BY <1>1, <1>3 DEF TopIs, L, Depth
<1>5. /\ Depth \in Nat /\ L \in Threads /\ Top \in Activation /\ M.th[L].ci \in Seq(CallInfo)
  <2> DEFINE m == M
             b == Top
             t == L
             n == Depth
  <2>1. IsM(m) /\ TopIs(m, t, b, n)
    BY <1>1, <1>4
  <2> HIDE DEF m, b, t, n
  <2>2. n \in Nat /\ t \in Threads /\ b \in Activation /\ m.th[t].ci \in Seq(CallInfo)
    BY <2>1, TopFacts
  <2> QED BY <2>2 DEF m, b, t, n
<1>6. th[L] \in LuaState
  BY <1>2, <1>5 DEF IsTh
<1> QED BY <1>1, <1>2, <1>3, <1>4, <1>5, <1>6

LEMMA LuaLeaves ==
  ASSUME IInv, LuaRuns
  PROVE  /\ LuaTop(M, L, Top, Depth) /\ IsM(M) /\ M.th = th /\ M.cs = cstack /\ M.mode = mode
         /\ Depth \in Nat /\ L \in Threads /\ Level(L) \in Nat /\ th[L] \in LuaState
         /\ th[L].ci \in Seq(CallInfo) /\ Depth > 0 /\ F = th[L].ci[Depth] /\ F \in CallInfo
         /\ L \in ChainOf(cstack)
<1>1. cstack # <<>> /\ mode = "run" /\ Runs(Top)
  BY DEF LuaRuns, Runs
<1>2. /\ IsM(M) /\ InvM(M) /\ M.th = th /\ M.cs = cstack /\ M.mode = mode
      /\ TopIs(M, L, Top, Depth) /\ Depth \in Nat /\ L \in Threads
      /\ th[L].ci \in Seq(CallInfo) /\ th[L] \in LuaState
  BY <1>1, Leaves
<1>3. LuaTop(M, L, Top, Depth)
  BY <1>1, <1>2 DEF LuaTop
<1>4. Level(L) \in Nat
  BY <1>2 DEF Level, LuaState
<1>5. Depth > 0 /\ L \in ChainOf(cstack)
  <2> DEFINE m == M
             b == Top
             t == L
             n == Depth
  <2>1. LuaTop(m, t, b, n)
    BY <1>3
  <2> HIDE DEF m, b, t, n
  <2>2. n > 0 /\ t \in ChainOf(m.cs)
    BY <2>1, LuaReady
  <2> QED BY <1>2, <2>2 DEF m, b, t, n
<1>6. F = th[L].ci[Depth] /\ F \in CallInfo
  <2> DEFINE ci == th[L].ci
  <2>1. ci \in Seq(CallInfo) /\ Len(ci) > 0 /\ Depth = Len(ci)
    BY <1>2, <1>5 DEF Depth
  <2>2. F = Last(ci)
    BY DEF F
  <2> HIDE DEF ci
  <2>3. Last(ci) = ci[Len(ci)] /\ ci[Len(ci)] \in CallInfo
    BY <2>1 DEF Last
  <2> QED BY <2>1, <2>2, <2>3 DEF ci
<1> QED BY <1>2, <1>3, <1>4, <1>5, <1>6

LEMMA CallLuaKeeps ==
  ASSUME IInv, CallLua
  PROVE  IInv'
<1>1. LuaRuns /\ Go(PushCI(M, L, Frame("lua", Level(L))))
  BY DEF CallLua, MayAct
<1>2. LuaTop(M, L, Top, Depth) /\ Level(L) \in Nat
  BY <1>1, LuaLeaves
<1>3. InvM(PushCI(M, L, Frame("lua", Level(L))))
  BY <1>2, LuaCalled
<1> QED BY <1>1, <1>3, Arrives

LEMMA CallMetamethodKeeps ==
  ASSUME IInv, CallMetamethod
  PROVE  IInv'
<1>1. LuaRuns /\ Go(Ccall(M, L, "yieldable", None))
  BY DEF CallMetamethod, Uses, MayAct
<1>2. LuaTop(M, L, Top, Depth)
  BY <1>1, LuaLeaves
<1>3. InvM(Ccall(M, L, "yieldable", None))
  BY <1>2, MetamethodCalled
<1> QED BY <1>1, <1>3, Arrives

LEMMA CallBackKeeps ==
  ASSUME IInv, CallBack
  PROVE  IInv'
<1>1. LuaRuns /\ Go(Ccall(PushCI(M, L, Frame("call", Level(L))), L, "nyci", None))
  BY DEF CallBack, Uses, MayAct
<1>2. LuaTop(M, L, Top, Depth) /\ Level(L) \in Nat
  BY <1>1, LuaLeaves
<1>3. InvM(Ccall(PushCI(M, L, Frame("call", Level(L))), L, "nyci", None))
  BY <1>2, CallbackCalled
<1> QED BY <1>1, <1>3, Arrives

LEMMA ErrorKeeps ==
  ASSUME IInv, Error
  PROVE  IInv'
<1>1. LuaRuns /\ Go(In(M, "ERR"))
  BY DEF Error, MayAct
<1>2. LuaTop(M, L, Top, Depth)
  BY <1>1, LuaLeaves
<1>3. InvM(In(M, "ERR"))
  BY <1>2, ErrorThrown
<1> QED BY <1>1, <1>3, Arrives

LEMMA ErrIs ==
  ASSUME NEW m, NEW t, NEW e
  PROVE  [m EXCEPT !.th[t].errfunc = e] = SetErr(m, t, e)
  BY DEF SetErr

LEMMA PCallKeeps ==
  ASSUME IInv, PCall
  PROVE  IInv'
<1> DEFINE lv == Level(L)
           e  == th[L].errfunc
           f  == Frame("pcall", lv)
           m1 == PushCI(M, L, f)
           my == PushCI(M, L, PcallFrame(lv, e))
<1>1. /\ LuaRuns
      /\ IF Yieldable(L)
         THEN Go(Ccall(SetErr(my, L, Depth + 1), L, "yieldable", None))
         ELSE Go(Ccall(PushC(SetErr(m1, L, Depth + 1), PcallProt(m1, L, e)), L, "nyci", None))
  BY DEF PCall, Uses, MayAct, PcallFrame, PcallProt, Depth, SetErr
<1>2. LuaTop(M, L, Top, Depth) /\ Level(L) \in Nat /\ M.th = th
  BY <1>1, LuaLeaves
<1>3. CASE Yieldable(L)
  <2>1. M.th[L].nny = 0
    BY <1>2, <1>3 DEF Yieldable
  <2>2. InvM(Ccall(SetErr(PushCI(M, L, PcallFrame(lv, M.th[L].errfunc)), L, Depth + 1),
                   L, "yieldable", None))
    BY <1>2, <2>1, PcallkCalled
  <2>3. InvM(Ccall(SetErr(my, L, Depth + 1), L, "yieldable", None))
    BY <1>2, <2>2
  <2> QED BY <1>1, <1>3, <2>3, Arrives
<1>4. CASE ~Yieldable(L)
  <2>1. LET m2 == PushCI(M, L, Frame("pcall", lv))
        IN  Begins(PushC(SetErr(m2, L, Depth + 1), PcallProt(m2, L, M.th[L].errfunc)), L, "nyci")
    BY <1>2, PcallBegins
  <2> DEFINE m3 == PushC(SetErr(m1, L, Depth + 1), PcallProt(m1, L, e))
             t  == L
  <2>3. Begins(m3, t, "nyci")
    BY <1>2, <2>1
  <2> HIDE DEF m3, t
  <2>4. InvM(Ccall(m3, t, "nyci", None))
    BY <2>3, BegunCall
  <2>2. InvM(Ccall(PushC(SetErr(m1, L, Depth + 1), PcallProt(m1, L, e)), L, "nyci", None))
    BY <2>4 DEF m3, t
  <2> QED BY <1>1, <1>4, <2>2, Arrives
<1> QED BY <1>3, <1>4

LEMMA NewTbcKeeps ==
  ASSUME IInv, NEW v \in Variables, NewTbc(v)
  PROVE  IInv'
<1> DEFINE tbc == Append(th[L].tbclist, v)
<1>1. LuaRuns /\ Go([M EXCEPT !.th[L].tbclist = Append(@, v)])
  BY DEF NewTbc, MayAct
<1>2. LuaTop(M, L, Top, Depth) /\ M.th = th /\ L \in Threads /\ th[L] \in LuaState /\ IsM(M)
  BY <1>1, LuaLeaves
<1>3. tbc \in Seq(Variables)
  BY <1>2 DEF LuaState
<1>4. [M EXCEPT !.th[L].tbclist = Append(@, v)] = SetT(M, L, [M.th[L] EXCEPT !.tbclist = tbc])
  BY <1>2 DEF SetT
<1> HIDE DEF tbc
<1>5. InvM(SetT(M, L, [M.th[L] EXCEPT !.tbclist = tbc]))
  BY <1>2, <1>3, TbcChanges
<1> QED BY <1>1, <1>4, <1>5, Arrives

\* an instruction begins, or has done, what it does with upto
OpSet(m, t, n, op, upto) == [m EXCEPT !.th[t].ci[n].op = op, !.th[t].ci[n].upto = upto]
LEMMA OpIs ==
  ASSUME NEW m, IsM(m), NEW t \in Threads, NEW n \in 1 .. Len(m.th[t].ci), NEW op, NEW upto
  PROVE  OpSet(m, t, n, op, upto) = SetT(m, t, SetOp(m.th[t], n, op, upto))
<1> DEFINE s  == m.th[t]
           ci == s.ci
           f  == ci[n]
           f1 == [f EXCEPT !.op = op]
           f2 == [f EXCEPT !.op = op, !.upto = upto]
           c1 == [ci EXCEPT ![n] = f1]
           c2 == [ci EXCEPT ![n] = f2]
           m1 == SetT(m, t, WithCI(s, c1))
<1>1. m.th \in [Threads -> LuaState] /\ s \in LuaState
  BY DEF IsM
<1>2. ci \in Seq(CallInfo)
  BY <1>1 DEF LuaState
<1>3. n \in DOMAIN ci
  BY <1>2
<1>4. [m EXCEPT !.th[t].ci[n].op = op] = m1
  BY DEF SetT, WithCI
<1>5. m1.th[t].ci = c1
  <2>1. m1.th = [m.th EXCEPT ![t] = WithCI(s, c1)]
    BY DEF SetT, IsM
  <2>2. m1.th[t] = WithCI(s, c1)
    BY <1>1, <2>1
  <2>3. WithCI(s, c1).ci = c1
    BY <1>1 DEF WithCI, LuaState
  <2> QED BY <2>2, <2>3
<1>6. c1[n] = f1
  BY <1>3
<1>7. [f1 EXCEPT !.upto = upto] = f2
  OBVIOUS
<1>8. [c1 EXCEPT ![n] = f2] = c2
  BY <1>3
<1>9. [m1 EXCEPT !.th[t].ci[n].upto = upto]
        = SetT(m1, t, WithCI(m1.th[t], [m1.th[t].ci EXCEPT ![n] = [m1.th[t].ci[n] EXCEPT !.upto = upto]]))
  BY DEF SetT, WithCI
<1>10. [m1 EXCEPT !.th[t].ci[n].upto = upto] = SetT(m1, t, WithCI(m1.th[t], c2))
  <2> HIDE DEF m1, c1, f1, c2, f2
  <2> QED BY <1>5, <1>6, <1>7, <1>8, <1>9
<1>11. SetT(m1, t, WithCI(m1.th[t], c2)) = SetT(m, t, WithCI(s, c2))
  <2>1. m1.th = [m.th EXCEPT ![t] = WithCI(s, c1)]
    BY DEF SetT, IsM
  <2>2. m1.th[t] = WithCI(s, c1)
    BY <1>1, <2>1
  <2>3. WithCI(WithCI(s, c1), c2) = WithCI(s, c2)
    BY <1>1 DEF WithCI, LuaState
  <2>4. SetT(m1, t, WithCI(s, c2)) = SetT(m, t, WithCI(s, c2))
    <3> DEFINE x == WithCI(s, c1)
               y == WithCI(s, c2)
    <3>1. m1 = SetT(m, t, x)
      OBVIOUS
    <3> HIDE DEF x, y, m1
    <3>2. SetT(SetT(m, t, x), t, y) = SetT(m, t, y)
      BY <1>1 DEF SetT, IsM
    <3> QED BY <3>1, <3>2 DEF y
  <2> QED BY <2>2, <2>3, <2>4
<1>12. SetT(m, t, WithCI(s, c2)) = SetT(m, t, SetOp(m.th[t], n, op, upto))
  BY DEF WithCI, SetOp
<1>13. OpSet(m, t, n, op, upto) = [[m EXCEPT !.th[t].ci[n].op = op] EXCEPT !.th[t].ci[n].upto = upto]
  BY DEF OpSet
<1> QED BY <1>4, <1>10, <1>11, <1>12, <1>13, Zenon

LEMMA OpKeeps ==
  ASSUME IInv, LuaRuns, NEW op \in {None, "close", "return"}, NEW upto \in Nat,
         Go(OpSet(M, L, Depth, op, upto))
  PROVE  IInv'
<1>1. /\ LuaTop(M, L, Top, Depth) /\ M.th = th /\ L \in Threads /\ IsM(M) /\ Depth \in Nat
      /\ Depth > 0
  BY LuaLeaves
<1>2. Depth \in 1 .. Len(M.th[L].ci)
  BY <1>1 DEF Depth
<1>3. InvM(SetT(M, L, SetOp(M.th[L], Depth, op, upto)))
  BY <1>1, OpChanges
<1>4. OpSet(M, L, Depth, op, upto) = SetT(M, L, SetOp(M.th[L], Depth, op, upto))
  BY <1>1, <1>2, OpIs
<1> QED BY <1>3, <1>4, Arrives

LEMMA EndBlockKeeps ==
  ASSUME IInv, EndBlock
  PROVE  IInv'
<1>1. LuaRuns /\ Level(L) > F.level /\ Go(OpSet(M, L, Depth, "close", Level(L) - 1))
  BY DEF EndBlock, Uses, MayAct, OpSet, Depth
<1>2. Level(L) \in Nat /\ F \in CallInfo
  BY <1>1, LuaLeaves
<1>3. Level(L) - 1 \in Nat
  <2>1. F.level \in Nat
    BY <1>2, CallInfoFields
  <2> QED BY <1>1, <1>2, <2>1
<1> QED BY SMTT(20), <1>1, <1>3, OpKeeps

LEMMA ReturnKeeps ==
  ASSUME IInv, Return
  PROVE  IInv'
<1>1. LuaRuns /\ Go(OpSet(M, L, Depth, "return", F.level))
  BY DEF Return, MayAct, OpSet, Depth
<1>2. F.level \in Nat
  BY <1>1, LuaLeaves, CallInfoFields
<1> QED BY SMTT(20), <1>1, <1>2, OpKeeps

LEMMA YieldKeeps ==
  ASSUME IInv, Yield
  PROVE  IInv'
<1>1. /\ LuaRuns /\ Yieldable(L)
      /\ Go(In(PushCI(SetStatus(M, L, "YIELD"), L, Frame("yield", Level(L))), "YIELD"))
  BY DEF Yield, MayAct, SetStatus
<1>2. LuaTop(M, L, Top, Depth) /\ Level(L) \in Nat /\ M.th = th
  BY <1>1, LuaLeaves
<1>3. M.th[L].nny = 0
  BY <1>1, <1>2 DEF Yieldable
<1>4. InvM(In(PushCI(SetStatus(M, L, "YIELD"), L, Frame("yield", Level(L))), "YIELD"))
  BY <1>2, <1>3, Yielded
<1> QED BY <1>1, <1>4, Arrives

LEMMA CloseVariablesKeeps ==
  ASSUME IInv, CloseVariables
  PROVE  IInv'
<1>1. LuaRuns /\ Go(Close(M, L, F.upto, "OK", TRUE))
  BY DEF CloseVariables
<1>2. LuaTop(M, L, Top, Depth) /\ F.upto \in Nat
  BY <1>1, LuaLeaves, CallInfoFields
<1>3. InvM(Close(M, L, F.upto, "OK", TRUE))
  BY <1>2, OpCloses
<1> QED BY <1>1, <1>3, Arrives

LEMMA FinishOpKeeps ==
  ASSUME IInv, FinishOp
  PROVE  IInv'
<1>1. /\ LuaRuns
      /\ \/ Go(OpSet(M, L, Depth, None, 0))
         \/ Go(In(PopCI(M, L), IF F.fresh THEN "return" ELSE "run"))
  BY DEF FinishOp, OpSet, Depth
<1>2. LuaTop(M, L, Top, Depth) /\ M.th = th
  BY <1>1, LuaLeaves
<1>3. InvM(In(PopCI(M, L), IF F.fresh THEN "return" ELSE "run"))
  <2>1. InvM(In(PopCI(M, L), IF Last(M.th[L].ci).fresh THEN "return" ELSE "run"))
    BY <1>2, LuaReturns
  <2> QED BY <1>2, <2>1 DEF F
<1>4. CASE Go(OpSet(M, L, Depth, None, 0))
  BY <1>1, <1>4, OpKeeps
<1>5. CASE Go(In(PopCI(M, L), IF F.fresh THEN "return" ELSE "run"))
  BY <1>3, <1>5, Arrives
<1> QED BY <1>1, <1>4, <1>5

-----------------------------------------------------------------------------
(* Coroutines *)

LEMMA NotInChain ==
  ASSUME IInv, LuaRuns, NEW t \in Threads,
         AuxStatus(t) = "suspended" \/ AuxStatus(t) = "dead"
  PROVE  t \notin ChainOf(cstack)
<1>1. StatusOf(th, cstack, t)
  BY DEF IInv, Inv, Core, States
<1>2. t # L
  BY DEF AuxStatus
<1>3. Last(cstack).t = L /\ L = cstack[Len(cstack)].t /\ Core(th, cstack)
  <2>1. Top = cstack[Len(cstack)] /\ Core(th, cstack)
    BY Leaves DEF LuaRuns
  <2> QED BY <2>1 DEF L, Top
<1> SUFFICES ASSUME t \in ChainOf(cstack)
             PROVE  FALSE
  OBVIOUS
<1>4. ~th[t].body /\ th[t].status = "OK"
  BY <1>1, <1>2, <1>3 DEF StatusOf
<1>5. Len(th[t].ci) > 0
  BY <1>2, <1>3, WaitingCalls
<1>6. th[t].ci # <<>>
  BY <1>5
<1>7. AuxStatus(t) = "normal"
  BY <1>2, <1>4, <1>6 DEF AuxStatus
<1> QED BY <1>7

LEMMA CreateKeeps ==
  ASSUME IInv, NEW t \in Threads, Create(t)
  PROVE  IInv'
<1>1. /\ LuaRuns /\ t # MainThread /\ ~ \E i \in DOMAIN cstack : cstack[i].t = t
      /\ Go(SetT(M, t, [NewThread EXCEPT !.body = TRUE]))
  BY DEF Create, MayAct, SetT
<1>2. LuaTop(M, L, Top, Depth) /\ M.cs = cstack
  BY <1>1, LuaLeaves
<1>3. t \notin ChainOf(M.cs)
  <2>1. cstack \in Seq(Activation)
    BY DEF IInv, Inv, Core, Types
  <2> QED BY <1>1, <1>2, <2>1 DEF ChainOf
<1>4. InvM(SetT(M, t, [NewThread EXCEPT !.body = TRUE]))
  BY <1>1, <1>2, <1>3, Created
<1> QED BY <1>1, <1>4, Arrives

LEMMA ResumeKeeps ==
  ASSUME IInv, NEW t \in Threads, NEW func \in {"resume", "wrap"}, Resume(t, func)
  PROVE  IInv'
<1>1. /\ LuaRuns /\ AuxStatus(t) = "suspended"
      /\ Go(ResumeThread(PushCI(M, L, Frame(func, Level(L))), t, th[L].nCcalls))
  BY DEF Resume, Uses, MayAct
<1>2. LuaTop(M, L, Top, Depth) /\ M.cs = cstack /\ M.th = th /\ Level(L) \in Nat
  BY <1>1, LuaLeaves
<1>3. t \notin ChainOf(M.cs)
  BY <1>1, <1>2, NotInChain
<1>4. th[t].status = "YIELD" \/ th[t].body
  BY <1>1 DEF AuxStatus
<1>5. t # MainThread
  <2>1. StatusOf(th, cstack, t)
    BY DEF IInv, Inv, Core, States
  <2> QED BY <1>4, <2>1 DEF StatusOf
<1>6. InvM(ResumeThread(PushCI(M, L, Frame(func, Level(L))), t, M.th[L].nCcalls))
  <2> DEFINE m == M
             u == L
             b == Top
             n == Depth
             lv == Level(L)
  <2>1. /\ LuaTop(m, u, b, n) /\ lv \in Nat /\ t \notin ChainOf(m.cs)
        /\ m.th[t].status = "YIELD" \/ m.th[t].body
    BY <1>2, <1>3, <1>4
  <2>2. th[t].status = m.th[t].status
    BY <1>2
  <2> HIDE DEF m, u, b, n, lv
  <2>3. InvM(ResumeThread(PushCI(m, u, Frame(func, lv)), t, m.th[u].nCcalls))
    BY <1>5, <2>1, <2>2, ResumeCalled
  <2> QED BY <2>3 DEF m, u, lv
<1>7. InvM(ResumeThread(PushCI(M, L, Frame(func, Level(L))), t, th[L].nCcalls))
  BY <1>2, <1>6
<1> QED BY <1>1, <1>7, Arrives

LEMMA CloseCoroutineKeeps ==
  ASSUME IInv, "close main" \notin Functions, NEW t \in Threads, CloseCoroutine(t)
  PROVE  IInv'
<1>1. /\ LuaRuns /\ (AuxStatus(t) = "suspended" \/ AuxStatus(t) = "dead") /\ t # MainThread
      /\ Go(ResetThread(PushCI(M, L, Frame("close", Level(L))), t, L, "close"))
  BY Zenon DEF CloseCoroutine, Uses, MayAct
<1>2. LuaTop(M, L, Top, Depth) /\ M.cs = cstack /\ Level(L) \in Nat
  BY Zenon, <1>1, LuaLeaves
<1>3. t \notin ChainOf(M.cs)
  BY Zenon, <1>1, <1>2, NotInChain
<1>4. InvM(ResetThread(PushCI(M, L, Frame("close", Level(L))), t, L, "close"))
  BY Zenon, <1>1, <1>2, <1>3, CloseCalled
<1> QED BY Zenon, <1>1, <1>4, Arrives

-----------------------------------------------------------------------------
(* What goes on by itself *)

CloseTop(m, t, b, n) == IsM(m) /\ InvM(m) /\ TopIs(m, t, b, n) /\ b.k = "close" /\ m.mode = "run"

LEMMA CloseLeaves ==
  ASSUME IInv, At("close", "run")
  PROVE  /\ CloseTop(M, L, Top, Depth) /\ M.th = th /\ M.cs = cstack /\ M.mode = mode
         /\ Depth \in Nat /\ L \in Threads /\ th[L] \in LuaState
         /\ M.cs[Len(M.cs) - 1] = Below /\ F = Last(M.th[L].ci)
<1>1. cstack # <<>> /\ mode = "run" /\ Top.k = "close"
  BY DEF At
<1>2. /\ IsM(M) /\ InvM(M) /\ M.th = th /\ M.cs = cstack /\ M.mode = mode
      /\ TopIs(M, L, Top, Depth) /\ Depth \in Nat /\ L \in Threads /\ th[L] \in LuaState
  BY <1>1, Leaves
<1> QED BY <1>1, <1>2 DEF CloseTop, Below, F

LEMMA CloseNextKeeps1 ==
  ASSUME IInv, CloseNext
  PROVE  IInv'
<1> DEFINE tbc == Front(th[L].tbclist)
           inc == IF Top.yy THEN "yieldable" ELSE "nyci"
           of  == Last(th[L].tbclist)
           m1  == SetT(M, L, [M.th[L] EXCEPT !.tbclist = tbc])
<1>1. /\ At("close", "run") /\ Level(L) > Top.level
      /\ Go(Ccall([M EXCEPT !.th[L].tbclist = Front(@)], L, inc, of))
  BY DEF CloseNext
<1>2. /\ CloseTop(M, L, Top, Depth) /\ M.th = th /\ L \in Threads /\ th[L] \in LuaState /\ IsM(M)
  BY <1>1, CloseLeaves DEF CloseTop
<1>3. tbc \in Seq(Variables) /\ of \in Variables
  <2> DEFINE s == th[L].tbclist
  <2>1. s \in Seq(Variables) /\ Len(s) = Level(L)
    BY <1>2 DEF LuaState, Level
  <2>2. Len(s) > 0
    <3>1. Top.level \in Nat
      BY <1>1, Leaves, ActivationFields DEF At
    <3>2. Len(s) \in Nat
      BY <2>1
    <3> QED BY <1>1, <2>1, <3>1, <3>2
  <2> HIDE DEF s
  <2>3. Front(s) \in Seq(Variables)
    BY <2>1, <2>2, FrontFacts
  <2>4. Last(s) \in Variables
    BY <2>1, <2>2 DEF Last
  <2> QED BY <2>3, <2>4 DEF s
<1>4. [M EXCEPT !.th[L].tbclist = Front(@)] = m1
  BY <1>2 DEF SetT
<1>5. InvM(Ccall(m1, L, inc, of))
  <2> DEFINE m == M
             t == L
             b == Top
             n == Depth
  <2>1. CloseTop(m, t, b, n)
    BY <1>2
  <2> HIDE DEF m, t, b, n, tbc, of
  <2>2. Begins(SetT(m, t, [m.th[t] EXCEPT !.tbclist = tbc]), t,
               IF b.yy THEN "yieldable" ELSE "nyci")
    BY <1>3, <2>1, CloseBegun DEF CloseTop
  <2>3. InvM(Ccall(SetT(m, t, [m.th[t] EXCEPT !.tbclist = tbc]), t,
                   IF b.yy THEN "yieldable" ELSE "nyci", of))
    BY <1>3, <2>2, BegunCall
  <2> QED BY <2>3 DEF m, t, b
<1> HIDE DEF m1, inc, of
<1> QED BY <1>1, <1>4, <1>5, Arrives

LEMMA EndOpCloseKeeps ==
  ASSUME IInv, EndOpClose
  PROVE  IInv'
<1>1. At("close", "run") /\ Below.k # "prot" /\ F.func = "lua" /\ Go(PopC(M))
  BY DEF EndOpClose, CloseEnds
<1>2. /\ CloseTop(M, L, Top, Depth) /\ M.cs[Len(M.cs) - 1] = Below /\ F = Last(M.th[L].ci)
  BY <1>1, CloseLeaves
<1>3. InvM(PopC(M))
  <2>1. M.cs[Len(M.cs) - 1].k # "prot" /\ Last(M.th[L].ci).func = "lua"
    BY <1>1, <1>2
  <2> DEFINE m == M
             t == L
             b == Top
             n == Depth
  <2>2. CloseTop(m, t, b, n) /\ m.cs[Len(m.cs) - 1].k # "prot" /\ Last(m.th[t].ci).func = "lua"
    BY <1>2, <2>1
  <2> HIDE DEF m, t, b, n
  <2>3. InvM(PopC(m))
    BY <2>2, OpCloseDone DEF CloseTop
  <2> QED BY <2>3 DEF m
<1> QED BY <1>1, <1>3, Arrives

LEMMA EndFinishpcallkKeeps ==
  ASSUME IInv, EndFinishpcallk
  PROVE  IInv'
<1>1. /\ At("close", "run") /\ Below.k # "prot" /\ F.func = "pcall"
      /\ Go(In(EndPcallk(PopC(M), L), "return"))
  BY DEF EndFinishpcallk, CloseEnds
<1>2. /\ CloseTop(M, L, Top, Depth) /\ M.cs[Len(M.cs) - 1] = Below /\ F = Last(M.th[L].ci)
  BY <1>1, CloseLeaves
<1>3. InvM(In(EndPcallk(PopC(M), L), "return"))
  <2>1. M.cs[Len(M.cs) - 1].k # "prot" /\ Last(M.th[L].ci).func = "pcall"
    BY <1>1, <1>2
  <2> DEFINE m == M
             t == L
             b == Top
             n == Depth
  <2>2. CloseTop(m, t, b, n) /\ m.cs[Len(m.cs) - 1].k # "prot" /\ Last(m.th[t].ci).func = "pcall"
    BY <1>2, <2>1
  <2> HIDE DEF m, t, b, n
  <2>3. InvM(In(EndPcallk(PopC(m), t), "return"))
    BY <2>2, FinishpcallkDone DEF CloseTop
  <2> QED BY <2>3 DEF m, t
<1> QED BY <1>1, <1>3, Arrives

LEMMA EndCloseProtectedKeeps ==
  ASSUME IInv, EndCloseProtected
  PROVE  IInv'
<1> DEFINE q  == M.cs[Len(M.cs) - 1]
           m2 == PopC(Restore(PopC(M), q))
           r  == IF q.then = "pcall" THEN EndPcall(m2, q) ELSE EndReset(m2, q)
<1>1. At("close", "run") /\ Below.k = "prot"
  BY DEF EndCloseProtected
<1>2. CloseTop(M, L, Top, Depth) /\ M.cs[Len(M.cs) - 1] = Below
  BY <1>1, CloseLeaves
<1>3. Go(r)
  BY <1>2 DEF EndCloseProtected
<1>4. InvM(r)
  <2> DEFINE m == M
             t == L
             b == Top
             n == Depth
             p == q
  <2>1. CloseTop(m, t, b, n) /\ p = m.cs[Len(m.cs) - 1] /\ p.k = "prot"
    BY <1>1, <1>2
  <2>2. r = IF p.then = "pcall" THEN EndPcall(PopC(Restore(PopC(m), p)), p)
                                ELSE EndReset(PopC(Restore(PopC(m), p)), p)
    OBVIOUS
  <2> HIDE DEF m, t, b, n, p, r
  <2>3. InvM(IF p.then = "pcall" THEN EndPcall(PopC(Restore(PopC(m), p)), p)
                                 ELSE EndReset(PopC(Restore(PopC(m), p)), p))
    BY <2>1, CloseProtectedEnds DEF CloseTop
  <2> QED BY <2>2, <2>3
<1> HIDE DEF r
<1> QED BY <1>3, <1>4, Arrives

CallTop(m, t, b, n) == IsM(m) /\ InvM(m) /\ TopIs(m, t, b, n) /\ b.k = "call" /\ m.mode = "return"

LEMMA CallLeaves ==
  ASSUME IInv, At("call", "return")
  PROVE  /\ CallTop(M, L, Top, Depth) /\ M.cs[Len(M.cs) - 1] = Below /\ F = Last(M.th[L].ci)
         /\ Called(M) = EndCcall(M, L, Top.inc)
<1>1. cstack # <<>> /\ mode = "return" /\ Top.k = "call"
  BY DEF At
<1>2. /\ IsM(M) /\ InvM(M) /\ M.th = th /\ M.cs = cstack /\ M.mode = mode
      /\ TopIs(M, L, Top, Depth)
  BY <1>1, Leaves
<1> QED BY <1>1, <1>2 DEF CallTop, Below, F, Called

LEMMA ReturnToCloseKeeps ==
  ASSUME IInv, ReturnToClose
  PROVE  IInv'
<1>1. At("call", "return") /\ Below.k = "close" /\ Go(In(EndCcall(M, L, Top.inc), "run"))
  BY DEF ReturnToClose, Called
<1>2. CallTop(M, L, Top, Depth) /\ M.cs[Len(M.cs) - 1] = Below
  BY <1>1, CallLeaves
<1>3. InvM(In(EndCcall(M, L, Top.inc), "run"))
  <2> DEFINE m == M
             t == L
             b == Top
             n == Depth
  <2>1. CallTop(m, t, b, n) /\ m.cs[Len(m.cs) - 1].k = "close"
    BY <1>1, <1>2
  <2> HIDE DEF m, t, b, n
  <2>2. InvM(In(EndCcall(m, t, b.inc), "run"))
    BY <2>1, MethodReturns DEF CallTop
  <2> QED BY <2>2 DEF m, t, b
<1> QED BY <1>1, <1>3, Arrives

LEMMA ReturnToProtKeeps ==
  ASSUME IInv, ReturnToProt
  PROVE  IInv'
<1>1. At("call", "return") /\ Below.k = "prot" /\ Go(EndCcall(M, L, Top.inc))
  BY DEF ReturnToProt, Called
<1>2. CallTop(M, L, Top, Depth) /\ M.cs[Len(M.cs) - 1] = Below
  BY <1>1, CallLeaves
<1>3. InvM(EndCcall(M, L, Top.inc))
  <2> DEFINE m == M
             t == L
             b == Top
             n == Depth
  <2>1. CallTop(m, t, b, n) /\ m.cs[Len(m.cs) - 1].k = "prot"
    BY <1>1, <1>2
  <2> HIDE DEF m, t, b, n
  <2>2. InvM(EndCcall(m, t, b.inc))
    BY <2>1, BodyReturns DEF CallTop
  <2> QED BY <2>2 DEF m, t, b
<1> QED BY <1>1, <1>3, Arrives

LEMMA ReturnToLuaKeeps ==
  ASSUME IInv, ReturnToLua
  PROVE  IInv'
<1>1. /\ At("call", "return") /\ Runs(Below) /\ F.func = "lua"
      /\ Go(In(EndCcall(M, L, Top.inc), "run"))
  BY DEF ReturnToLua, Called, Runs
<1>2. CallTop(M, L, Top, Depth) /\ M.cs[Len(M.cs) - 1] = Below /\ F = Last(M.th[L].ci)
  BY <1>1, CallLeaves
<1>3. InvM(In(EndCcall(M, L, Top.inc), "run"))
  <2> DEFINE m == M
             t == L
             b == Top
             n == Depth
  <2>1. CallTop(m, t, b, n) /\ Runs(m.cs[Len(m.cs) - 1]) /\ Last(m.th[t].ci).func = "lua"
    BY <1>1, <1>2
  <2> HIDE DEF m, t, b, n
  <2>2. InvM(In(EndCcall(m, t, b.inc), "run"))
    BY <2>1, LuaReturned DEF CallTop
  <2> QED BY <2>2 DEF m, t, b
<1> QED BY <1>1, <1>3, Arrives

LEMMA ReturnToCKeeps ==
  ASSUME IInv, ReturnToC
  PROVE  IInv'
<1> DEFINE m2 == EndCcall(M, L, Top.inc)
           r  == In(IF Last(M.th[L].ci).func = "pcall" THEN EndPcallk(m2, L) ELSE PopCI(m2, L),
                    "run")
<1>1. At("call", "return") /\ Runs(Below) /\ F.func # "lua"
  BY DEF ReturnToC, Runs
<1>2. CallTop(M, L, Top, Depth) /\ M.cs[Len(M.cs) - 1] = Below /\ F = Last(M.th[L].ci)
  BY <1>1, CallLeaves
<1>3. Go(r)
  BY <1>2 DEF ReturnToC, Called
<1>4. InvM(r)
  <2> DEFINE m == M
             t == L
             b == Top
             n == Depth
             m3 == EndCcall(m, t, b.inc)
  <2>1. CallTop(m, t, b, n) /\ Runs(m.cs[Len(m.cs) - 1]) /\ Last(m.th[t].ci).func # "lua"
    BY <1>1, <1>2
  <2>2. r = In(IF Last(m.th[t].ci).func = "pcall" THEN EndPcallk(m3, t) ELSE PopCI(m3, t), "run")
    OBVIOUS
  <2>3. m3 = EndCcall(m, t, b.inc)
    OBVIOUS
  <2> HIDE DEF m, t, b, n, m3, r
  <2>4. InvM(In(IF Last(m.th[t].ci).func = "pcall" THEN EndPcallk(m3, t) ELSE PopCI(m3, t), "run"))
    BY <2>1, <2>3, CReturned DEF CallTop
  <2> QED BY <2>2, <2>4
<1> HIDE DEF r
<1> QED BY <1>3, <1>4, Arrives

UnrollTop(m, t, b, n) ==
  IsM(m) /\ InvM(m) /\ TopIs(m, t, b, n) /\ b.k = "unroll" /\ m.mode = "return"

LEMMA UnrollLeaves ==
  ASSUME IInv, At("unroll", "return")
  PROVE  /\ UnrollTop(M, L, Top, Depth) /\ F = Last(M.th[L].ci) /\ Depth \in Nat
         /\ th[L].ci = <<>> => Depth = 0
         /\ th[L].ci # <<>> => Depth > 0
<1>1. cstack # <<>> /\ mode = "return" /\ Top.k = "unroll"
  BY DEF At
<1>2. /\ IsM(M) /\ InvM(M) /\ M.th = th /\ M.cs = cstack /\ M.mode = mode
      /\ TopIs(M, L, Top, Depth) /\ th[L].ci \in Seq(CallInfo) /\ Depth \in Nat
  BY <1>1, Leaves
<1>3. /\ th[L].ci = <<>> => Depth = 0
      /\ th[L].ci # <<>> => Depth > 0
  BY <1>2 DEF Depth
<1> QED BY <1>1, <1>2, <1>3 DEF UnrollTop, F

LEMMA UnrollEndKeeps ==
  ASSUME IInv, UnrollEnd
  PROVE  IInv'
<1>1. At("unroll", "return") /\ th[L].ci = <<>> /\ Go(PopC(M))
  BY DEF UnrollEnd
<1>2. UnrollTop(M, L, Top, Depth) /\ Depth = 0
  BY <1>1, UnrollLeaves
<1>3. InvM(PopC(M))
  <2> DEFINE m == M
             t == L
             b == Top
             n == Depth
  <2>1. UnrollTop(m, t, b, n) /\ n = 0
    BY <1>2
  <2> HIDE DEF m, t, b, n
  <2>2. InvM(PopC(m))
    BY <2>1, UnrollEnds DEF UnrollTop
  <2> QED BY <2>2 DEF m
<1> QED BY <1>1, <1>3, Arrives

LEMMA UnrollLuaKeeps ==
  ASSUME IInv, UnrollLua
  PROVE  IInv'
<1>1. At("unroll", "return") /\ th[L].ci # <<>> /\ F.func = "lua" /\ Go(In(M, "run"))
  BY DEF UnrollLua
<1>2. UnrollTop(M, L, Top, Depth) /\ Depth > 0 /\ F = Last(M.th[L].ci)
  BY <1>1, UnrollLeaves
<1>3. InvM(In(M, "run"))
  <2> DEFINE m == M
             t == L
             b == Top
             n == Depth
  <2>1. UnrollTop(m, t, b, n) /\ n > 0 /\ Last(m.th[t].ci).func = "lua"
    BY <1>1, <1>2
  <2> HIDE DEF m, t, b, n
  <2>2. InvM(In(m, "run"))
    BY <2>1, UnrollRuns DEF UnrollTop
  <2> QED BY <2>2 DEF m
<1> QED BY <1>1, <1>3, Arrives

LEMMA UnrollCKeeps ==
  ASSUME IInv, UnrollC
  PROVE  IInv'
<1> DEFINE r == IF F.recst # "OK" THEN Close(M, L, F.level, F.recst, TRUE) ELSE EndPcallk(M, L)
<1>1. At("unroll", "return") /\ th[L].ci # <<>> /\ F.func # "lua" /\ Go(r)
  BY DEF UnrollC
<1>2. UnrollTop(M, L, Top, Depth) /\ Depth > 0 /\ F = Last(M.th[L].ci)
  BY <1>1, UnrollLeaves
<1>3. InvM(r)
  <2> DEFINE m == M
             t == L
             b == Top
             n == Depth
             f == F
  <2>1. UnrollTop(m, t, b, n) /\ n > 0 /\ Last(m.th[t].ci).func # "lua" /\ f = Last(m.th[t].ci)
    BY <1>1, <1>2
  <2>2. r = IF f.recst # "OK" THEN Close(m, t, f.level, f.recst, TRUE) ELSE EndPcallk(m, t)
    OBVIOUS
  <2> HIDE DEF m, t, b, n, f, r
  <2>3. InvM(IF f.recst # "OK" THEN Close(m, t, f.level, f.recst, TRUE) ELSE EndPcallk(m, t))
    BY <2>1, FinishesPcallk DEF UnrollTop
  <2> QED BY <2>2, <2>3
<1> HIDE DEF r
<1> QED BY <1>1, <1>3, Arrives

LEMMA ProtReturnsKeeps ==
  ASSUME IInv, ProtReturns
  PROVE  IInv'
<1> DEFINE r == IF Top.use = "resume" THEN Resumed(PopC(Restore(M, Top)), Top.t, "OK")
                                      ELSE EndPcall(PopC(Restore(M, Top)), Top)
<1>1. cstack # <<>> /\ mode = "return" /\ Top.k = "prot" /\ Go(r)
  BY DEF ProtReturns, At
<1>2. IsM(M) /\ InvM(M) /\ M.mode = mode /\ TopIs(M, L, Top, Depth)
  BY <1>1, Leaves
<1>3. InvM(r)
  <2> DEFINE m == M
             t == L
             b == Top
             n == Depth
  <2>1. IsM(m) /\ InvM(m) /\ TopIs(m, t, b, n) /\ b.k = "prot" /\ m.mode = "return"
    BY <1>1, <1>2
  <2>2. r = IF b.use = "resume" THEN Resumed(PopC(Restore(m, b)), b.t, "OK")
                                ELSE EndPcall(PopC(Restore(m, b)), b)
    OBVIOUS
  <2> HIDE DEF m, t, b, n, r
  <2>3. InvM(IF b.use = "resume" THEN Resumed(PopC(Restore(m, b)), b.t, "OK")
                                 ELSE EndPcall(PopC(Restore(m, b)), b))
    BY <2>1, ProtReturned
  <2> QED BY <2>2, <2>3
<1> HIDE DEF r
<1> QED BY <1>1, <1>3, Arrives

-----------------------------------------------------------------------------
(* Throws, and the embedder *)

LEMMA HandlerIs ==
  ASSUME IInv, cstack # <<>>
  PROVE  /\ Handler \in 1 .. Len(cstack) /\ cstack[Handler].k = "prot" /\ cstack[Handler].t = L
         /\ \A j \in Handler + 1 .. Len(cstack) : cstack[j].k # "prot" /\ cstack[j].t = L
<1> DEFINE N == Len(cstack)
           Is(i) == /\ cstack[i].k = "prot" /\ cstack[i].t = L
                    /\ \A j \in i+1 .. N : ~(cstack[j].k = "prot" /\ cstack[j].t = L)
<1>1. /\ Core(th, cstack) /\ Len(cstack) > 0 /\ Top = cstack[Len(cstack)]
      /\ cstack \in Seq(Activation)
  BY Leaves DEF Core, Types
<1>2. N \in Nat /\ DOMAIN cstack = 1 .. N /\ cstack[N].t = L
  BY <1>1 DEF L
<1>3. PICK h \in 1 .. N : /\ cstack[h].k = "prot" /\ cstack[h].t = L
                          /\ \A j \in h + 1 .. N : cstack[j].k # "prot" /\ cstack[j].t = L
  <2>1. \E h \in 1 .. Len(cstack) :
           /\ cstack[h].k = "prot" /\ cstack[h].t = cstack[Len(cstack)].t
           /\ \A j \in h + 1 .. Len(cstack) : cstack[j].k # "prot" /\ cstack[j].t = cstack[Len(cstack)].t
    BY <1>1, HandlerExists
  <2> QED BY <1>2, <2>1
<1>4. Handler = CHOOSE i \in 1 .. N : Is(i)
  BY <1>2 DEF Handler
<1>5. Is(h)
  BY <1>3
<1>6. Handler \in 1 .. N /\ Is(Handler)
  <2> HIDE DEF Is, N
  <2> QED BY <1>3, <1>4, <1>5
<1>7. Handler = h
  <2> DEFINE x == Handler
  <2>1. x \in 1 .. N /\ Is(x)
    BY <1>6
  <2> HIDE DEF x, N
  <2>2. ~(x > h)
    <3>1. x > h => x \in h + 1 .. N
      BY <1>2, <1>3, <2>1
    <3> QED BY <1>3, <2>1, <3>1
  <2>3. ~(h > x)
    <3>1. h > x => h \in x + 1 .. N
      BY <1>2, <1>3, <2>1
    <3> QED BY <1>3, <2>1, <3>1
  <2>4. x = h
    BY <1>2, <1>3, <2>1, <2>2, <2>3
  <2> QED BY <2>4 DEF x
<1> QED BY <1>3, <1>7

ThrowTop(m, t, h) ==
  IsM(m) /\ Throws(m.th, m.cs, h, t) /\ OnTop(m.th[t].ci, m.cs[Len(m.cs)], Acts(m.cs, t), m.mode)

LEMMA ThrowLeaves ==
  ASSUME IInv, mode \in {"ERR", "YIELD"}
  PROVE  /\ ThrowTop(M, L, Handler) /\ M.th = th /\ M.cs = cstack /\ M.mode = mode
         /\ L \in Threads /\ cstack # <<>>
         /\ mode = "ERR" => M.th[L].status = "OK"
         /\ mode = "YIELD" => M.th[L].status = "YIELD"
<1>1. cstack # <<>>
  BY DEF IInv, Inv, TopOf
<1>2. /\ IsM(M) /\ InvM(M) /\ M.th = th /\ M.cs = cstack /\ M.mode = mode
      /\ TopIs(M, L, Top, Depth) /\ L \in Threads /\ Core(th, cstack)
      /\ Top = cstack[Len(cstack)]
  BY <1>1, Leaves
<1>3. /\ OnTop(M.th[L].ci, Top, Acts(M.cs, L), M.mode)
      /\ M.mode # "YIELD" => M.th[L].status = "OK"
      /\ M.mode = "YIELD" => M.th[L].status = "YIELD"
      /\ ~M.th[L].body
  <2> DEFINE m == M
             t == L
             b == Top
             n == Depth
  <2>1. IsM(m) /\ InvM(m) /\ TopIs(m, t, b, n)
    BY <1>2
  <2> HIDE DEF m, t, b, n
  <2>2. /\ OnTop(m.th[t].ci, b, Acts(m.cs, t), m.mode)
        /\ m.mode # "YIELD" => m.th[t].status = "OK"
        /\ m.mode = "YIELD" => m.th[t].status = "YIELD"
        /\ ~m.th[t].body
    BY <2>1, TopReady
  <2> QED BY <2>2 DEF m, t, b
<1>4. /\ Handler \in 1 .. Len(cstack) /\ cstack[Handler].k = "prot" /\ cstack[Handler].t = L
      /\ \A j \in Handler + 1 .. Len(cstack) : cstack[j].k # "prot" /\ cstack[j].t = L
  BY <1>1, HandlerIs
<1>5. L = cstack[Len(cstack)].t
  BY <1>2 DEF L
<1>6. M.th[L].status \in {"OK", "YIELD"}
  BY <1>2, <1>3
<1> HIDE DEF L, Handler
<1>7. Throws(M.th, M.cs, Handler, L)
  BY <1>2, <1>3, <1>4, <1>5, <1>6 DEF Throws
<1> QED BY <1>1, <1>2, <1>3, <1>7 DEF ThrowTop

LEMMA CatchYieldKeeps ==
  ASSUME IInv, CatchYield
  PROVE  IInv'
<1> DEFINE r == Resumed(CaughtAt(M, Handler, M.cs[Handler]), L, "YIELD")
<1>1. mode = "YIELD"
  BY DEF CatchYield
<1>2. /\ ThrowTop(M, L, Handler) /\ M.cs = cstack /\ M.mode = mode /\ M.th[L].status = "YIELD"
  BY <1>1, ThrowLeaves
<1>3. Go(r) /\ cstack[Handler].use = "resume"
  BY <1>2 DEF CatchYield, Caught, CaughtAt
<1>4. InvM(r)
  <2> DEFINE m == M
             t == L
             h == Handler
  <2>1. /\ IsM(m) /\ Throws(m.th, m.cs, h, t) /\ m.th[t].status = "YIELD"
        /\ m.cs[h].use = "resume"
    BY <1>2, <1>3 DEF ThrowTop
  <2>2. r = Resumed(CaughtAt(m, h, m.cs[h]), t, "YIELD")
    OBVIOUS
  <2> HIDE DEF m, t, h, r
  <2>3. Resumes(m.cs[h])
    BY <2>1 DEF Throws, Resumes
  <2>4. InvM(Resumed(CaughtAt(m, h, m.cs[h]), t, "YIELD"))
    BY <2>1, <2>3, YieldCaught
  <2> QED BY <2>2, <2>4
<1> HIDE DEF r
<1> QED BY <1>3, <1>4, Arrives

MarkSet(m, t, i) == [m EXCEPT !.th[t].ci = SubSeq(@, 1, i), !.th[t].ci[i].recst = "ERR"]
LEMMA MarkIs ==
  ASSUME NEW m, IsM(m), NEW t \in Threads, NEW i \in 1 .. Len(m.th[t].ci)
  PROVE  MarkSet(m, t, i) = SetT(m, t, MarkErr(m.th[t], i))
<1> DEFINE s  == m.th[t]
           c1 == SubSeq(s.ci, 1, i)
           c2 == [c1 EXCEPT ![i] = [c1[i] EXCEPT !.recst = "ERR"]]
           m1 == SetT(m, t, WithCI(s, c1))
<1>1. m.th \in [Threads -> LuaState] /\ s \in LuaState
  BY DEF IsM
<1>2. [m EXCEPT !.th[t].ci = SubSeq(@, 1, i)] = m1
  BY DEF SetT, WithCI
<1>3. m1.th[t] = WithCI(s, c1) /\ m1.th[t].ci = c1
  <2>1. m1.th = [m.th EXCEPT ![t] = WithCI(s, c1)]
    BY DEF SetT, IsM
  <2>2. m1.th[t] = WithCI(s, c1)
    BY <1>1, <2>1
  <2>3. WithCI(s, c1).ci = c1
    BY <1>1 DEF WithCI, LuaState
  <2> QED BY <2>2, <2>3
<1>4. [m1 EXCEPT !.th[t].ci[i].recst = "ERR"]
        = SetT(m1, t, WithCI(m1.th[t], [m1.th[t].ci EXCEPT ![i] = [m1.th[t].ci[i] EXCEPT !.recst = "ERR"]]))
  BY DEF SetT, WithCI
<1>5. [m1 EXCEPT !.th[t].ci[i].recst = "ERR"] = SetT(m1, t, WithCI(WithCI(s, c1), c2))
  <2> HIDE DEF m1, c1
  <2> QED BY <1>3, <1>4
<1>6. WithCI(WithCI(s, c1), c2) = WithCI(s, c2)
  BY <1>1 DEF WithCI, LuaState
<1>7. SetT(m1, t, WithCI(s, c2)) = SetT(m, t, WithCI(s, c2))
  <2> DEFINE x == WithCI(s, c1)
             y == WithCI(s, c2)
  <2>1. m1 = SetT(m, t, x)
    OBVIOUS
  <2> HIDE DEF x, y, m1
  <2>2. SetT(SetT(m, t, x), t, y) = SetT(m, t, y)
    BY <1>1 DEF SetT, IsM
  <2> QED BY <2>1, <2>2 DEF y
<1>8. WithCI(s, c2) = MarkErr(s, i)
  BY DEF MarkErr, WithCI
<1>9. MarkSet(m, t, i)
        = [[m EXCEPT !.th[t].ci = SubSeq(@, 1, i)] EXCEPT !.th[t].ci[i].recst = "ERR"]
  BY DEF MarkSet
<1> HIDE DEF c2, c1, m1
<1> QED BY <1>2, <1>5, <1>6, <1>7, <1>8, <1>9

LEMMA PrecoverIs ==
  ASSUME IInv, Precover, NEW i, i = FindPcall(th[L].ci)
  PROVE  /\ ThrowTop(M, L, Handler) /\ M.th = th /\ M.th[L].status = "OK" /\ L \in Threads
         /\ Resumes(M.cs[Handler]) /\ th[L].ci \in Seq(CallInfo) /\ M.mode = "ERR"
         /\ IF i # 0 THEN Go(Recovered(M, Handler, L, i))
                     ELSE Go(Resumed(SetStatus(CaughtAt(M, Handler, M.cs[Handler]), L, "ERR"),
                                     L, "ERR"))
<1> DEFINE p == cstack[Handler]
           m == CaughtAt(M, Handler, M.cs[Handler])
           j == FindPcall(th[L].ci)
           r == In(PushC(PushC(MarkSet(m, L, j), p), Blank(L)), "return")
           q == Resumed(SetStatus(m, L, "ERR"), L, "ERR")
<1>1. mode = "ERR"
  BY DEF Precover
<1>2. /\ ThrowTop(M, L, Handler) /\ M.th = th /\ M.cs = cstack /\ M.mode = mode
      /\ M.th[L].status = "OK" /\ L \in Threads
  BY SMTT(20), <1>1, ThrowLeaves
<1>3. p.use = "resume" /\ IF j # 0 THEN Go(r) ELSE Go(q)
  BY <1>2 DEF Precover, Caught, CaughtAt, SetStatus, MarkSet
<1>4. IsM(M) /\ Throws(M.th, M.cs, Handler, L) /\ Resumes(M.cs[Handler])
  BY <1>1, <1>2, <1>3 DEF ThrowTop, Throws, Resumes
<1>5. th[L].ci \in Seq(CallInfo)
  BY <1>2 DEF ThrowTop, IsM, LuaState
<1>6. ASSUME i # 0
      PROVE  r = Recovered(M, Handler, L, i)
  <2>1. IsM(m) /\ m.th[L].ci = th[L].ci /\ i \in 1 .. Len(th[L].ci)
    <3> DEFINE m0 == M
               t == L
               h == Handler
               ci == th[L].ci
               a == m0.cs[h]
    <3>1. /\ IsM(m0) /\ Throws(m0.th, m0.cs, h, t) /\ m0.th[t].ci = ci
      BY <1>2, <1>4
    <3>2. ci \in Seq(CallInfo) /\ i = FindPcall(ci)
      BY <1>5
    <3>3. i \in 1 .. Len(ci)
      <4> HIDE DEF ci
      <4> QED BY <1>6, <3>2, FindPcallFacts
    <3>4. m = CaughtAt(m0, h, a)
      OBVIOUS
    <3> HIDE DEF m0, t, h, ci, m
    <3>5. a \in Activation /\ h \in 1 .. Len(m0.cs) /\ t = a.t
      BY <3>1, ThrowTypes DEF Throws
    <3> HIDE DEF a
    <3>6. IsCaught(m0, CaughtAt(m0, h, a), h, a, t)
      BY <3>1, <3>5, CaughtFacts
    <3>7. IsM(m) /\ m.th[t].ci = ci
      BY <3>1, <3>4, <3>6 DEF IsCaught, Restored
    <3> QED BY <3>3, <3>7 DEF t, ci
  <2>2. MarkSet(m, L, i) = SetT(m, L, MarkErr(m.th[L], i))
    <3> DEFINE t == L
    <3>1. IsM(m) /\ t \in Threads /\ i \in 1 .. Len(m.th[t].ci)
      BY <1>2, <2>1
    <3> HIDE DEF m, t
    <3>2. MarkSet(m, t, i) = SetT(m, t, MarkErr(m.th[t], i))
      BY <3>1, MarkIs
    <3> QED BY <3>2 DEF t
  <2>3. Recovered(M, Handler, L, i)
          = In(PushC(PushC(SetT(m, L, MarkErr(m.th[L], i)), M.cs[Handler]), Blank(L)), "return")
    BY DEF Recovered
  <2>4. i = j
    OBVIOUS
  <2> HIDE DEF m, j
  <2> QED BY <1>2, <2>2, <2>3, <2>4
<1>7. i = j
  OBVIOUS
<1> HIDE DEF r, j
<1> QED BY <1>1, <1>2, <1>3, <1>4, <1>5, <1>6, <1>7

LEMMA PrecoverKeeps ==
  ASSUME IInv, Precover
  PROVE  IInv'
<1> DEFINE i == FindPcall(th[L].ci)
           r == Recovered(M, Handler, L, i)
           q == Resumed(SetStatus(CaughtAt(M, Handler, M.cs[Handler]), L, "ERR"), L, "ERR")
<1>1. /\ ThrowTop(M, L, Handler) /\ M.th = th /\ M.th[L].status = "OK"
      /\ Resumes(M.cs[Handler]) /\ M.mode = "ERR"
  BY PrecoverIs
<1>2. IF i # 0 THEN Go(r) ELSE Go(q)
  BY PrecoverIs
<1> DEFINE m0 == M
           t == L
           h == Handler
<1>3. /\ IsM(m0) /\ Throws(m0.th, m0.cs, h, t) /\ Resumes(m0.cs[h])
      /\ OnTop(m0.th[t].ci, m0.cs[Len(m0.cs)], Acts(m0.cs, t), "ERR")
      /\ m0.th[t].status = "OK" /\ i = FindPcall(m0.th[t].ci)
  BY <1>1 DEF ThrowTop
<1>4. /\ r = Recovered(m0, h, t, i)
      /\ q = Resumed(SetStatus(CaughtAt(m0, h, m0.cs[h]), t, "ERR"), t, "ERR")
  OBVIOUS
<1> HIDE DEF m0, t, h, i, q, r
<1>5. CASE i # 0
  <2>1. InvM(Recovered(m0, h, t, i))
    BY <1>3, <1>5, ErrorRecovered
  <2> QED BY <1>2, <1>4, <1>5, <2>1, Arrives
<1>6. CASE i = 0
  <2>1. InvM(Resumed(SetStatus(CaughtAt(m0, h, m0.cs[h]), t, "ERR"), t, "ERR"))
    BY <1>3, ErrorKills
  <2> QED BY <1>2, <1>4, <1>6, <2>1, Arrives
<1> QED BY <1>5, <1>6

LEMMA CatchErrorIs ==
  ASSUME IInv, CatchError
  PROVE  /\ ThrowTop(M, L, Handler) /\ M.th = th /\ M.th[L].status = "OK" /\ M.mode = "ERR"
         /\ ~Resumes(M.cs[Handler])
         /\ Go(CloseProtected(ErrorAt(M, Handler, L), L, M.cs[Handler].level, "ERR",
                              Caught2(M.cs[Handler]), M.cs[Handler].errfunc))
<1> DEFINE p == cstack[Handler]
<1>1. mode = "ERR" /\ p.use \in {"pcall", "closep"}
  BY DEF CatchError
<1>2. /\ ThrowTop(M, L, Handler) /\ M.th = th /\ M.cs = cstack /\ M.mode = mode
      /\ M.th[L].status = "OK" /\ L \in Threads
  BY <1>1, ThrowLeaves
<1>3. Go(CloseProtected(ErrorAt(M, Handler, L), L, M.cs[Handler].level, "ERR",
                        Caught2(M.cs[Handler]), M.cs[Handler].errfunc))
  BY <1>2 DEF CatchError, Caught, CaughtAt, ErrorAt, SetCI, Caught2
<1>4. ~Resumes(M.cs[Handler])
  BY <1>1, <1>2 DEF Resumes
<1> QED BY <1>1, <1>2, <1>3, <1>4

LEMMA CatchErrorKeeps ==
  ASSUME IInv, CatchError
  PROVE  IInv'
<1> DEFINE r == CloseProtected(ErrorAt(M, Handler, L), L, M.cs[Handler].level, "ERR",
                               Caught2(M.cs[Handler]), M.cs[Handler].errfunc)
           m0 == M
           t == L
           h == Handler
<1>1. /\ ThrowTop(M, L, Handler) /\ M.th = th /\ M.th[L].status = "OK" /\ M.mode = "ERR"
      /\ ~Resumes(M.cs[Handler]) /\ Go(r)
  BY CatchErrorIs
<1>2. /\ IsM(m0) /\ Throws(m0.th, m0.cs, h, t) /\ ~Resumes(m0.cs[h])
      /\ OnTop(m0.th[t].ci, m0.cs[Len(m0.cs)], Acts(m0.cs, t), "ERR")
      /\ m0.th[t].status = "OK"
  BY <1>1 DEF ThrowTop
<1>3. r = CloseProtected(ErrorAt(m0, h, t), t, m0.cs[h].level, "ERR", Caught2(m0.cs[h]),
                         m0.cs[h].errfunc)
  OBVIOUS
<1> HIDE DEF m0, t, h, r
<1>4. InvM(CloseProtected(ErrorAt(m0, h, t), t, m0.cs[h].level, "ERR", Caught2(m0.cs[h]),
                          m0.cs[h].errfunc))
  BY <1>2, ErrorCaught
<1> QED BY <1>1, <1>3, <1>4, Arrives

\* between two calls of the embedder no thread runs
LEMMA HostFacts ==
  ASSUME IInv, cstack = <<>>
  PROVE  /\ IsM(M) /\ M.th = th /\ M.cs = <<>> /\ Len(M.cs) = 0 /\ ChainOf(<<>>) = {}
         /\ Core(M.th, M.cs) /\ Live(M.th, M.cs) /\ Cnt(M.cs, 0) = 0
         /\ LET s == th[MainThread]
            IN  /\ s.nny = 1 /\ s.nCcalls = 0 /\ Len(s.ci) = 0 /\ ~s.body /\ s.status = "OK"
         /\ MainThread \in Threads
<1>1. IsM(M) /\ M.th = th /\ M.cs = <<>>
  BY MFacts
<1>2. Core(th, cstack) /\ Len(M.cs) = 0
  BY <1>1 DEF IInv, Inv
<1>3. ChainOf(<<>>) = {} /\ Live(M.th, M.cs)
  BY <1>2 DEF ChainOf, Live
<1>4. Cnt(M.cs, 0) = 0
  BY NoneYet
<1>5. MainThread \in Threads
  BY Zenon, CallsAssumption
<1>6. th[MainThread].nny = 1 /\ th[MainThread].nCcalls = 0
  BY <1>2, <1>3 DEF Core, Waiting
<1>7. StatusOf(th, cstack, MainThread)
  BY <1>2, <1>5 DEF Core, States
<1>8. ~th[MainThread].body /\ th[MainThread].status = "OK" /\ Len(th[MainThread].ci) = 0
  BY <1>3, <1>7 DEF StatusOf
<1> QED BY <1>1, <1>2, <1>3, <1>4, <1>5, <1>6, <1>8

LEMMA HostBegins ==
  ASSUME IInv, cstack = <<>>
  PROVE  Begins(PushC(M, Protect(M, MainThread, "pcall")), MainThread, "nyci")
<1> DEFINE a  == Protect(M, MainThread, "pcall")
           m1 == PushC(M, a)
           T  == M.th
           C  == Append(<<>>, a)
<1>1. cstack = <<>>
  OBVIOUS
<1>2. /\ IsM(M) /\ M.th = th /\ M.cs = <<>> /\ ChainOf(<<>>) = {}
      /\ Core(T, <<>>) /\ Live(T, <<>>) /\ Cnt(<<>>, 0) = 0 /\ MainThread \in Threads
      /\ T[MainThread].nny = 1 /\ T[MainThread].nCcalls = 0 /\ Len(T[MainThread].ci) = 0
      /\ ~T[MainThread].body /\ T[MainThread].status = "OK"
  BY <1>1, HostFacts
<1>3. /\ a \in Activation /\ a.k = "prot" /\ a.t = MainThread /\ a.use = "pcall" /\ a.depth = 0
      /\ a.inc = "none" /\ a.nny = 1 /\ a.nCcalls = 0 /\ a.errfunc = 0
  <2> DEFINE m == M
  <2>1. IsM(m) /\ "pcall" \in {"resume", "pcall", "closep"}
    BY <1>2
  <2> HIDE DEF m
  <2>2. /\ Protect(m, MainThread, "pcall") \in Activation
        /\ Protect(m, MainThread, "pcall").k = "prot"
        /\ Protect(m, MainThread, "pcall").t = MainThread
        /\ Protect(m, MainThread, "pcall").use = "pcall"
        /\ Protect(m, MainThread, "pcall").depth = Len(m.th[MainThread].ci)
        /\ Protect(m, MainThread, "pcall").inc = "none"
        /\ Protect(m, MainThread, "pcall").nny = m.th[MainThread].nny
        /\ Protect(m, MainThread, "pcall").nCcalls = m.th[MainThread].nCcalls
        /\ Protect(m, MainThread, "pcall").errfunc = 0
    BY <1>2, <2>1, ProtectFacts
  <2> QED BY <1>2, <2>2 DEF m
<1> HIDE DEF a
<1>4. Len(C) = 1 /\ C[1] = a /\ Len(<<>>) = 0 /\ C \in Seq(Activation)
  BY <1>3
<1>5. BlockStarts(T, C, 1)
  BY <1>3, <1>4 DEF BlockStarts, IsPcall
<1>6. Core(T, C) /\ Live(T, C)
  <2> DEFINE e == <<>>
  <2>1. /\ Core(T, e) /\ Live(T, e) /\ a.t \notin ChainOf(e) /\ ~T[a.t].body
        /\ T[a.t].status \in {"OK", "YIELD"} /\ Len(e) = 0
        /\ a.nny = (IF a.t = MainThread THEN 1 ELSE 0) /\ a.nny = T[a.t].nny
        /\ a.nCcalls = T[a.t].nCcalls /\ ~Resumes(a)
    BY <1>2, <1>3 DEF Resumes
  <2>2. a.nCcalls = Cnt(e, Len(e)) + (IF Resumes(a) THEN 1 ELSE 0)
    BY <1>2, <1>3, <2>1
  <2>3. BlockStarts(T, Append(e, a), Len(e) + 1)
    BY <1>5, <2>1
  <2>4. ~(Len(e) > 0)
    BY <2>1
  <2> HIDE DEF e, T
  <2>5. Core(T, Append(e, a)) /\ Live(T, Append(e, a))
    BY <1>3, <2>1, <2>2, <2>3, <2>4, BlockBegins
  <2> QED BY <2>5 DEF e
<1>7. IsM(m1) /\ m1.th = T /\ m1.cs = C
  BY <1>2, <1>3, PushCFacts
<1>8. CallReady(m1.th, m1.cs, "nyci")
  BY <1>2, <1>3, <1>4, <1>7 DEF CallReady, Runs
<1>9. Begins(m1, MainThread, "nyci")
  <2>1. MainThread = m1.cs[Len(m1.cs)].t
    BY <1>3, <1>4, <1>7
  <2> DEFINE t == MainThread
  <2>2. Core(m1.th, m1.cs) /\ Live(m1.th, m1.cs) /\ t = m1.cs[Len(m1.cs)].t
    BY <1>6, <1>7, <2>1
  <2> HIDE DEF m1, t, T, C
  <2>3. Begins(m1, t, "nyci")
    BY <1>7, <1>8, <2>2 DEF Begins
  <2> QED BY <2>3 DEF t
<1> QED BY <1>9 DEF m1, a

LEMMA HostCallKeeps ==
  ASSUME IInv, HostCall
  PROVE  IInv'
<1> DEFINE m == PushC(M, Protect(M, MainThread, "pcall"))
           t == MainThread
<1>1. cstack = <<>> /\ Go(Ccall(m, t, "nyci", None))
  BY DEF HostCall
<1>2. Begins(m, t, "nyci")
  BY <1>1, HostBegins
<1> HIDE DEF m, t
<1>3. InvM(Ccall(m, t, "nyci", None))
  BY <1>2, BegunCall
<1> QED BY <1>1, <1>3, Arrives

LEMMA HostResumeKeeps ==
  ASSUME IInv, NEW t \in Threads, HostResume(t)
  PROVE  IInv'
<1>1. /\ cstack = <<>> /\ t # MainThread /\ (th[t].status = "YIELD" \/ th[t].body)
      /\ Go(ResumeThread(M, t, th[MainThread].nCcalls))
  BY DEF HostResume
<1>2. /\ IsM(M) /\ M.th = th /\ M.cs = <<>> /\ Len(M.cs) = 0 /\ ChainOf(<<>>) = {}
      /\ Core(M.th, M.cs) /\ Live(M.th, M.cs) /\ Cnt(M.cs, 0) = 0 /\ th[MainThread].nCcalls = 0
  BY <1>1, HostFacts
<1>3. Caller(M)
  BY <1>2 DEF Caller
<1>4. InvM(ResumeThread(M, t, th[MainThread].nCcalls))
  <2> DEFINE m == M
             c == th[MainThread].nCcalls
  <2>1. /\ IsM(m) /\ Core(m.th, m.cs) /\ Live(m.th, m.cs) /\ Caller(m) /\ t \notin ChainOf(m.cs)
        /\ m.th[t].status = "YIELD" \/ m.th[t].body
    BY <1>1, <1>2, <1>3
  <2>2. th[t].status = m.th[t].status /\ c \in Nat /\ c = Cnt(m.cs, Len(m.cs))
    BY <1>2
  <2> HIDE DEF m, c
  <2>3. InvM(ResumeThread(m, t, c))
    BY <1>1, <2>1, <2>2, ThreadResumed
  <2> QED BY <2>3 DEF m, c
<1> QED BY <1>1, <1>4, Arrives

-----------------------------------------------------------------------------
(* The invariant is one *)

LEMMA InvInit ==
  ASSUME Init
  PROVE  IInv
<1>1. /\ cstack = <<>> /\ mode = "run" /\ Len(cstack) = 0 /\ cstack \in Seq(Activation)
      /\ MainThread \in Threads
  <2>1. cstack = <<>> /\ mode = "run"
    BY DEF Init
  <2>2. Len(<<>>) = 0 /\ <<>> \in Seq(Activation)
    OBVIOUS
  <2> QED BY Zenon, <2>1, <2>2, CallsAssumption
<1>2. ASSUME NEW t \in Threads
      PROVE  /\ th[t] \in LuaState /\ th[t].ci = <<>> /\ th[t].status = "OK" /\ ~th[t].body
             /\ th[t].errfunc = 0 /\ th[t].nCcalls = 0
             /\ t = MainThread => th[t].nny = 1
  <2> DEFINE s == [NewThread EXCEPT !.nny = 1]
  <2>1. th[t] = IF t = MainThread THEN s ELSE NewThread
    BY DEF Init
  <2>2. s \in LuaState /\ s.nny = 1 /\ s.ci = <<>> /\ s.errfunc = 0 /\ s.status = "OK" /\ ~s.body
        /\ s.nCcalls = 0
    <3> DEFINE z == NewThread
    <3>1. /\ z \in LuaState /\ z.ci = <<>> /\ z.errfunc = 0 /\ z.status = "OK" /\ ~z.body
          /\ z.nCcalls = 0
      BY NewThreadFields
    <3> HIDE DEF z
    <3>2. LET y == [z EXCEPT !.nny = 1]
          IN  /\ y \in LuaState /\ y.nny = 1 /\ y.ci = z.ci /\ y.errfunc = z.errfunc
              /\ y.status = z.status /\ y.body = z.body /\ y.nCcalls = z.nCcalls
      BY <3>1 DEF LuaState
    <3> QED BY <3>1, <3>2 DEF z
  <2> HIDE DEF s
  <2> QED BY <2>1, <2>2, NewThreadFields
<1>3. th \in [Threads -> LuaState]
  <2>1. \A t \in Threads : th[t] \in LuaState
    BY <1>2
  <2>2. th = [t \in Threads |-> th[t]]
    BY DEF Init
  <2> QED BY <2>1, <2>2
<1>4. Stack(th, cstack)
  BY <1>1 DEF Stack
<1>5. ASSUME NEW t \in Threads
      PROVE  FramesOK(th[t].ci, Acts(cstack, t)) /\ IsInner(th[t].ci, Len(th[t].ci), th[t].errfunc)
  <2>1. th[t].ci = <<>> /\ th[t].errfunc = 0 /\ Acts(cstack, t) = {} /\ Len(<<>>) = 0
    BY <1>1, <1>2 DEF Acts
  <2>2. FramesOK(<<>>, {})
    BY DEF FramesOK, FreshOnes, LuaBelow, Owned, NoYpcall, OldHandlers
  <2>3. IsInner(<<>>, 0, 0)
    BY DEF IsInner
  <2> QED BY <2>1, <2>2, <2>3
<1>6. ASSUME NEW t \in Threads
      PROVE  StatusOf(th, cstack, t)
  <2>1. ChainOf(cstack) = {} /\ Len(th[t].ci) = 0
    BY <1>1, <1>2 DEF ChainOf
  <2> QED BY <1>2, <2>1 DEF StatusOf
<1>7. Waiting(th, cstack)
  BY <1>1, <1>2 DEF Waiting
<1>8. Core(th, cstack)
  BY <1>1, <1>3, <1>4, <1>5, <1>6, <1>7 DEF Core, Types, Frames, States
<1> QED BY <1>1, <1>8 DEF IInv, Inv, TopOf, Live

LEMMA InvNext ==
  ASSUME "close main" \notin Functions, IInv, [Next]_vars
  PROVE  IInv'
<1>1. CASE Program
  BY Zenon, <1>1, CallLuaKeeps, CallMetamethodKeeps, CallBackKeeps, PCallKeeps, ErrorKeeps,
     EndBlockKeeps, ReturnKeeps, YieldKeeps, NewTbcKeeps, CreateKeeps, CloseCoroutineKeeps,
     ResumeKeeps DEF Program
<1>2. CASE Machine
  BY Zenon, <1>2, CloseVariablesKeeps, FinishOpKeeps, CloseNextKeeps1, EndOpCloseKeeps,
     EndFinishpcallkKeeps, EndCloseProtectedKeeps, ReturnToCloseKeeps, ReturnToProtKeeps,
     ReturnToLuaKeeps, ReturnToCKeeps, UnrollEndKeeps, UnrollLuaKeeps, UnrollCKeeps,
     ProtReturnsKeeps, CatchYieldKeeps, PrecoverKeeps, CatchErrorKeeps DEF Machine
<1>3. CASE Host
  BY Zenon, <1>3, HostCallKeeps, HostResumeKeeps DEF Host
<1>4. CASE UNCHANGED vars
  BY Zenon, <1>4 DEF vars, IInv
<1> QED BY Zenon, <1>1, <1>2, <1>3, <1>4 DEF Next

\* The lua_States and the C stack fit together in every reachable state, of
\* every program: see the head of the module.
THEOREM CallStructure ==
  ASSUME "close main" \notin Functions
  PROVE  Spec => []IInv
<1>1. Init => IInv
  BY Zenon, InvInit
<1>2. IInv /\ [Next]_vars => IInv'
  BY Zenon, InvNext
<1> QED BY <1>1, <1>2, PTL DEF Spec

-----------------------------------------------------------------------------
(* What it says *)

LEMMA ChainIs == ASSUME IInv PROVE Chain = ChainOf(cstack) /\ DOMAIN cstack = 1 .. Len(cstack)
<1>1. cstack \in Seq(Activation)
  BY DEF IInv, Inv, Core, Types
<1> QED BY <1>1 DEF Chain, ChainOf

LEMMA ThreadsAre == ASSUME IInv PROVE DOMAIN th = Threads
  BY DEF IInv, Inv, Core, Types

LEMMA InvTypeOK == IInv => TypeOK
  BY DEF IInv, Inv, Core, Types, TypeOK

\* The last of the CallInfos of pcall.
InnerOf(ci) ==
  LET I == {i \in DOMAIN ci : ci[i].func = "pcall"}
  IN  IF I = {} THEN 0 ELSE CHOOSE i \in I : \A j \in I : j <= i
LEMMA InnerIs ==
  ASSUME NEW ci \in Seq(CallInfo), NEW x, IsInner(ci, Len(ci), x)
  PROVE  InnerOf(ci) = x
<1> DEFINE I == {i \in DOMAIN ci : ci[i].func = "pcall"}
           n == Len(ci)
<1>1. DOMAIN ci = 1 .. n /\ n \in Nat
  OBVIOUS
<1>2. /\ x \in 0 .. n /\ (x # 0 => ci[x].func = "pcall")
      /\ \A j \in 1 .. n : ci[j].func = "pcall" => j <= x
  BY DEF IsInner
<1>3. \A j \in I : j \in 1 .. n /\ j <= x
  BY <1>1, <1>2
<1>4. x # 0 => x \in I
  BY <1>1, <1>2
<1>5. InnerOf(ci) = IF I = {} THEN 0 ELSE CHOOSE i \in I : \A j \in I : j <= i
  BY DEF InnerOf
<1> HIDE DEF I, n
<1>6. CASE I = {}
  BY <1>4, <1>5, <1>6
<1>7. CASE I # {}
  <2>1. x # 0
    BY <1>1, <1>2, <1>3, <1>7
  <2>2. x \in I /\ \A j \in I : j <= x
    BY <1>3, <1>4, <2>1
  <2>3. \A y \in I : (\A j \in I : j <= y) => y = x
    BY <1>1, <1>2, <1>3, <2>2
  <2> QED BY <1>5, <1>7, <2>2, <2>3
<1> QED BY <1>6, <1>7

LEMMA InvHandlerInForce == IInv => HandlerInForce
<1> SUFFICES ASSUME IInv, LuaRuns
             PROVE  th[L].errfunc = Innermost(L)
  BY DEF HandlerInForce
<1>1. LuaTop(M, L, Top, Depth) /\ M.th = th /\ th[L].ci \in Seq(CallInfo)
  BY LuaLeaves
<1>2. IsInner(th[L].ci, Depth, th[L].errfunc)
  <2> DEFINE m == M
             t == L
             b == Top
             n == Depth
  <2>1. IsM(m) /\ InvM(m) /\ TopIs(m, t, b, n)
    BY <1>1 DEF LuaTop
  <2> HIDE DEF m, t, b, n
  <2>2. IsInner(m.th[t].ci, n, m.th[t].errfunc)
    BY <2>1, TopReady
  <2> QED BY <1>1, <2>2 DEF m, t, n
<1>3. InnerOf(th[L].ci) = th[L].errfunc
  BY <1>1, <1>2, InnerIs DEF Depth
<1> QED BY <1>3 DEF Innermost, InnerOf

LEMMA InvSameHandler == IInv => SameHandler
<1> SUFFICES ASSUME IInv, mode \in {"ERR", "YIELD"}
             PROVE  \E i \in DOMAIN cstack :
                      /\ cstack[i].k = "prot" /\ cstack[i].t = L
                      /\ \A j \in i+1 .. Len(cstack) : cstack[j].k # "prot"
  BY DEF SameHandler
<1>1. cstack # <<>>
  BY ThrowLeaves
<1>2. /\ Handler \in 1 .. Len(cstack) /\ cstack[Handler].k = "prot" /\ cstack[Handler].t = L
      /\ \A j \in Handler + 1 .. Len(cstack) : cstack[j].k # "prot"
  BY <1>1, HandlerIs
<1>3. DOMAIN cstack = 1 .. Len(cstack)
  BY ChainIs
<1> HIDE DEF Handler, L
<1> QED BY <1>2, <1>3

LEMMA InvYieldSafe == IInv => YieldSafe
<1> SUFFICES ASSUME IInv
             PROVE  YieldSafe
  OBVIOUS
<1>1. ASSUME LuaRuns, Yieldable(L)
      PROVE  /\ cstack[Handler].use = "resume"
             /\ \A i \in DOMAIN th[L].ci : Continues(th[L].ci[i])
  <2>1. /\ LuaTop(M, L, Top, Depth) /\ M.th = th /\ M.cs = cstack /\ th[L].ci \in Seq(CallInfo)
        /\ cstack # <<>>
    BY <1>1, LuaLeaves DEF LuaRuns
  <2>2. M.th[L].nny = 0
    BY <1>1, <2>1 DEF Yieldable
  <2>3. /\ Handler \in 1 .. Len(cstack) /\ cstack[Handler].k = "prot" /\ cstack[Handler].t = L
        /\ \A j \in Handler + 1 .. Len(cstack) : cstack[j].k # "prot" /\ cstack[j].t = L
    BY <2>1, HandlerIs
  <2> DEFINE m == M
             t == L
             b == Top
             n == Depth
             h == Handler
  <2>4. /\ LuaTop(m, t, b, n) /\ m.th[t].nny = 0 /\ h \in 1 .. Len(m.cs) /\ m.cs[h].k = "prot"
        /\ m.cs[h].t = t /\ \A j \in h + 1 .. Len(m.cs) : m.cs[j].k # "prot" /\ m.cs[j].t = t
    BY <2>1, <2>2, <2>3
  <2> HIDE DEF m, t, b, n, h
  <2>5. /\ \A a \in Acts(m.cs, t) : a.inc # "nyci"
        /\ \A j \in 1 .. n : Continues(m.th[t].ci[j])
    BY <2>4, YieldFacts
  <2>6. Resumes(m.cs[h])
    BY <2>4, <2>5, YieldHandler
  <2>7. cstack[Handler].use = "resume"
    BY <2>1, <2>6 DEF Resumes, m, h
  <2>8. DOMAIN th[L].ci = 1 .. Depth
    BY <2>1 DEF Depth
  <2> QED BY <2>1, <2>5, <2>7, <2>8 DEF m, t, n
<1>2. ASSUME NEW t \in Threads, th[t].status = "YIELD", mode # "YIELD"
      PROVE  /\ t \notin Chain /\ Last(th[t].ci).func = "yield"
             /\ \A i \in 1 .. Len(th[t].ci) - 1 : Continues(th[t].ci[i])
  <2>1. StatusOf(th, cstack, t)
    BY DEF IInv, Inv, Core, States
  <2>2. Suspended(th[t])
    BY <1>2, <2>1 DEF StatusOf
  <2>3. t \notin ChainOf(cstack)
    <3>1. SUFFICES ASSUME t \in ChainOf(cstack)
                   PROVE  FALSE
      OBVIOUS
    <3>2. cstack \in Seq(Activation)
      BY DEF IInv, Inv, Core, Types
    <3>3. Len(cstack) > 0
      BY <3>1, <3>2 DEF ChainOf
    <3>4. t = cstack[Len(cstack)].t
      BY <1>2, <2>1, <3>1 DEF StatusOf, Last
    <3>5. mode = "YIELD" <=> th[t].status = "YIELD"
      BY <3>3, <3>4 DEF IInv, Inv, TopOf
    <3> QED BY <1>2, <3>5
  <2> QED BY <2>2, <2>3, ChainIs DEF Suspended, Last
<1>3. DOMAIN th = Threads
  BY ThreadsAre
<1> QED BY <1>1, <1>2, <1>3 DEF YieldSafe

LEMMA InvCallsCounted == IInv => CallsCounted
<1> SUFFICES ASSUME IInv, mode \in {"run", "return"}, NEW t \in Chain \cup {MainThread}
             PROVE  LET n == IF t \in Chain THEN Deepest(t) ELSE 0
                    IN  th[t].nCcalls = Cnt(cstack, n) /\ th[t].nny = Nyci(cstack, t, n)
  BY DEF CallsCounted, Cnt, Nyci
<1>1. /\ Waiting(th, cstack) /\ Live(th, cstack) /\ cstack \in Seq(Activation)
      /\ Chain = ChainOf(cstack) /\ DOMAIN cstack = 1 .. Len(cstack) /\ Len(cstack) \in Nat
  BY ChainIs DEF IInv, Inv, Core, Types
<1>2. CASE t \in Chain
  <2> DEFINE N == Len(cstack)
             I == {i \in 1 .. N : cstack[i].t = t}
             n == Deepest(t)
  <2>1. I \in SUBSET (1 .. N) /\ I # {}
    BY <1>1, <1>2 DEF ChainOf
  <2>2. PICK x \in I : \A j \in I : j <= x
    <3> HIDE DEF I, N
    <3>1. N \in Nat
      BY <1>1 DEF N
    <3> QED BY <2>1, <3>1, LastPosition
  <2>3. x \in DOMAIN cstack /\ cstack[x].t = t /\ \A j \in x + 1 .. Len(cstack) : cstack[j].t # t
    BY <1>1, <2>2
  <2>4. n \in DOMAIN cstack /\ cstack[n].t = t /\ \A j \in n + 1 .. Len(cstack) : cstack[j].t # t
    <3>1. n = CHOOSE i \in DOMAIN cstack :
                cstack[i].t = t /\ \A j \in i+1 .. Len(cstack) : cstack[j].t # t
      BY DEF Deepest
    <3> HIDE DEF n
    <3> QED BY <2>3, <3>1
  <2> HIDE DEF n, I
  <2>5. CountedTo(th, cstack, n)
    <3>1. CASE n = N
      BY <1>1, <2>4, <3>1 DEF Live
    <3>2. CASE n # N
      <4>1. n \in 1 .. N - 1 /\ n + 1 \in n + 1 .. N
        BY <1>1, <2>4, <3>2
      <4>2. cstack[n + 1].t # cstack[n].t
        BY <2>4, <4>1
      <4> QED BY <1>1, <4>1, <4>2 DEF Waiting
    <3> QED BY <3>1, <3>2
  <2>6. th[t].nCcalls = Cnt(cstack, n) /\ th[t].nny = Nyci(cstack, t, n)
    BY <2>4, <2>5 DEF CountedTo
  <2> QED BY <1>2, <2>6 DEF n
<1>3. CASE t \notin Chain
  <2>1. t = MainThread /\ MainThread \notin ChainOf(cstack)
    BY <1>1, <1>3
  <2>2. th[t].nny = 1 /\ th[t].nCcalls = 0
    BY <1>1, <2>1 DEF Waiting
  <2>3. Cnt(cstack, 0) = 0 /\ Nyci(cstack, t, 0) = 1
    BY <2>1, NoneYet
  <2> QED BY <1>3, <2>2, <2>3
<1> QED BY <1>2, <1>3

-----------------------------------------------------------------------------
(* Where an error ends *)

LEMMA RecoveredLen ==
  ASSUME NEW m, IsM(m), NEW h, NEW u, Throws(m.th, m.cs, h, u),
         NEW i \in 1 .. Len(m.th[u].ci)
  PROVE  Len(Recovered(m, h, u, i).th[u].ci) = i
<1> DEFINE p  == m.cs[h]
           m1 == CaughtAt(m, h, p)
           s0 == m1.th[u]
           m2 == SetT(m1, u, MarkErr(s0, i))
           m3 == PushC(m2, p)
           m4 == PushC(m3, Blank(u))
           r  == In(m4, "return")
<1>1. h \in 1 .. Len(m.cs) /\ u = p.t /\ p \in Activation /\ u \in Threads
  BY ThrowTypes DEF Throws
<1>2. IsCaught(m, m1, h, p, u)
  <2> HIDE DEF p
  <2> QED BY <1>1, CaughtFacts
<1> HIDE DEF m1
<1>3. IsM(m1) /\ s0.ci = m.th[u].ci
  BY <1>2 DEF IsCaught, Restored
<1>4. s0 \in LuaState /\ i \in 1 .. Len(s0.ci)
  <2>1. s0 \in LuaState
    BY <1>1, <1>3, MachineParts, ThreadFields DEF IsTh
  <2> QED BY <1>3, <2>1
<1> HIDE DEF s0
<1>5. MarkErr(s0, i) \in LuaState /\ Len(MarkErr(s0, i).ci) = i
  BY <1>4, MarkErrFields
<1>6. IsM(m2) /\ m2.th[u] = MarkErr(s0, i)
  BY <1>1, <1>3, <1>5, SetTFacts
<1> HIDE DEF m2, p
<1>7. IsM(m3) /\ m3.th = m2.th
  BY <1>1, <1>6, PushCFacts
<1> HIDE DEF m3
<1>8. IsM(m4) /\ m4.th = m3.th
  <2>1. Blank(u) \in Activation
    BY <1>1, BlankFields
  <2> QED BY <1>7, <2>1, PushCFacts
<1> HIDE DEF m4
<1>9. r.th = m4.th
  BY <1>8, InFacts
<1> HIDE DEF r
<1>10. Len(r.th[u].ci) = i
  BY <1>5, <1>6, <1>7, <1>8, <1>9
<1> QED BY <1>10 DEF Recovered, r, m4, m3, m2, m1, p, s0

LEMMA CaughtLen ==
  ASSUME NEW m, IsM(m), NEW h, NEW u, Throws(m.th, m.cs, h, u),
         NEW d, d = m.cs[h].depth, d \in 0 .. Len(m.th[u].ci), NEW lv, NEW then, NEW e
  PROVE  Len(CloseProtected(ErrorAt(m, h, u), u, lv, "ERR", then, e).th[u].ci) = d
<1> DEFINE p  == m.cs[h]
           m1 == CaughtAt(m, h, p)
           c3 == SubSeq(m1.th[u].ci, 1, d)
           m3 == SetCI(m1, u, c3)
<1>1. h \in 1 .. Len(m.cs) /\ u = p.t /\ p \in Activation /\ u \in Threads
      /\ m.th[u].ci \in Seq(CallInfo)
  BY ThrowTypes DEF Throws
<1>2. IsCaught(m, m1, h, p, u)
  <2> HIDE DEF p
  <2> QED BY <1>1, CaughtFacts
<1> HIDE DEF m1
<1>3. IsM(m1) /\ m1.th[u].ci = m.th[u].ci
  BY <1>2 DEF IsCaught, Restored
<1>4. c3 \in Seq(CallInfo) /\ Len(c3) = d
  <2> DEFINE ci == m.th[u].ci
  <2>1. c3 = SubSeq(ci, 1, d) /\ ci \in Seq(CallInfo) /\ d \in 0 .. Len(ci)
    BY SMTT(20), <1>1, <1>3
  <2> HIDE DEF ci, c3
  <2> QED BY <2>1, PrefixFacts
<1> HIDE DEF c3
<1>5. IsM(m3) /\ m3.th[u].ci = c3
  BY <1>1, <1>3, <1>4, SetCIFacts DEF OnlyCI
<1>6. ErrorAt(m, h, u) = m3
  BY DEF ErrorAt, m3, c3, m1
<1> HIDE DEF m3
<1>7. CloseProtected(m3, u, lv, "ERR", then, e).th = m3.th
  BY <1>5 DEF CloseProtected, Close, PushC, In, IsM
<1> QED BY <1>4, <1>5, <1>6, <1>7

\* While an error is thrown only its handler can go on.
LEMMA ErrorStep ==
  ASSUME IInv, Next, mode = "ERR"
  PROVE  Precover \/ CatchError
<1>1. ~LuaRuns /\ ~MayAct /\ (\A f : ~Uses(f)) /\ (\A k : ~At(k, "run") /\ ~At(k, "return"))
  BY DEF LuaRuns, MayAct, Uses, At
<1>2. cstack # <<>>
  BY ThrowLeaves
<1>3. ~Program
  BY <1>1, Zenon DEF Program, CallLua, CallMetamethod, CallBack, PCall, Error, EndBlock, Return, Yield,
     NewTbc, Create, CloseCoroutine, Resume
<1>4. ~Host
  BY <1>2 DEF Host, HostCall, HostResume
<1>5. Machine => Precover \/ CatchError
  BY <1>1 DEF Machine, CloseVariables, FinishOp, CloseNext, EndOpClose, EndFinishpcallk, CloseEnds,
     EndCloseProtected, ReturnToClose, ReturnToProt, ReturnToLua, ReturnToC, UnrollEnd, UnrollLua,
     UnrollC, ProtReturns, CatchYield
<1> QED BY <1>3, <1>4, <1>5 DEF Next

LEMMA PrecoverCaught ==
  ASSUME IInv, Precover, Innermost(L) # 0
  PROVE  Len(th'[L].ci) = Innermost(L)
<1> DEFINE i == FindPcall(th[L].ci)
           r == Recovered(M, Handler, L, i)
           m == M
           u == L
           h == Handler
           C == m.cs
           ci == m.th[u].ci
           n == Len(ci)
           x == m.th[u].errfunc
           A == Acts(C, u)
<1>1. /\ ThrowTop(M, L, Handler) /\ M.th = th /\ M.th[L].status = "OK" /\ L \in Threads
      /\ Resumes(M.cs[Handler]) /\ th[L].ci \in Seq(CallInfo) /\ M.mode = "ERR"
  BY PrecoverIs
<1>2. i # 0 => Go(r)
  BY PrecoverIs
<1>3. /\ IsM(m) /\ Throws(m.th, C, h, u) /\ Resumes(C[h])
      /\ OnTop(ci, C[Len(C)], A, "ERR") /\ m.th[u].status = "OK"
  BY <1>1 DEF ThrowTop
<1>4. ci = th[L].ci /\ i = FindPcall(ci) /\ ci \in Seq(CallInfo)
  BY <1>1
<1>5. r = Recovered(m, h, u, i)
  OBVIOUS
<1>6. Innermost(L) = InnerOf(ci)
  BY <1>4 DEF Innermost, InnerOf
<1> HIDE DEF m, u, h, i, r
<1>7. IsInner(ci, n, x) /\ FramesOK(ci, A) /\ n \in Nat
  BY <1>3, ThrowTypes
<1>8. Innermost(L) = x
  <2> HIDE DEF ci, x
  <2> QED BY <1>4, <1>6, <1>7, InnerIs
<1>9. /\ x \in 1 .. n /\ ci[x].func = "pcall" /\ \A j \in 1 .. n : ci[j].func = "pcall" => j <= x
  <2> HIDE DEF ci, x
  <2> QED BY <1>7, <1>8 DEF IsInner
<1>10. i # 0
  <2> SUFFICES ASSUME i = 0
               PROVE  FALSE
    OBVIOUS
  <2>1. ~ci[x].ypcall
    <3> HIDE DEF ci, x
    <3>1. \A j \in 1 .. Len(ci) : ~ci[j].ypcall
      BY <1>4, FindPcallFacts
    <3> QED BY <1>9, <3>1
  <2>2. \A a \in A : ~IsPcall(a)
    <3>1. /\ Core(m.th, C) /\ h \in 1 .. Len(C) /\ u = C[h].t /\ C[h].t = C[Len(C)].t
          /\ \A j \in h + 1 .. Len(C) : C[j].k # "prot" /\ C[j].t = C[Len(C)].t
      BY <1>3 DEF Throws
    <3>2. \A a \in Acts(C, C[h].t) : ~IsPcall(a)
      <4> HIDE DEF C
      <4> QED BY <1>3, <3>1, AboveResume
    <3> QED BY <3>1, <3>2
  <2>3. ~Continues(ci[x]) /\ ~Owns(A, ci, x)
    BY <1>9, <2>1, <2>2 DEF Continues, Owns
  <2>4. x = n
    BY <1>7, <1>9, <2>3 DEF FramesOK, Owned
  <2>5. ci[n].ypcall \/ Owns(A, ci, n)
    <3>1. n > 0
      BY <1>7, <1>9
    <3> QED BY <1>3, <1>9, <2>4, <3>1 DEF OnTop
  <2> QED BY <2>1, <2>3, <2>4, <2>5
<1>11. i \in 1 .. n /\ ci[i].ypcall
  <2> HIDE DEF ci
  <2> QED BY <1>4, <1>10, FindPcallFacts
<1>12. ci[i].func = "pcall"
  BY <1>7, <1>11 DEF FramesOK, OldHandlers
<1>13. IsInner(ci, i, x)
  <2> HIDE DEF C
  <2> QED BY <1>3, <1>4, <1>10, AbovePcallk
<1>14. i = x
  <2> HIDE DEF ci, x, n
  <2>1. i <= x
    BY <1>9, <1>11, <1>12
  <2>2. x <= i
    BY <1>7, <1>11, <1>13 DEF IsInner
  <2> QED BY <1>7, <1>9, <1>11, <2>1, <2>2
<1>15. Len(r.th[u].ci) = i
  <2>1. Throws(m.th, m.cs, h, u) /\ i \in 1 .. Len(m.th[u].ci)
    BY <1>3, <1>11
  <2> QED BY <1>3, <1>5, <2>1, RecoveredLen
<1>16. th' = r.th
  BY <1>2, <1>10 DEF Go
<1> QED BY <1>8, <1>14, <1>15, <1>16 DEF u

LEMMA CatchErrorCaught ==
  ASSUME IInv, CatchError, Innermost(L) # 0
  PROVE  Len(th'[L].ci) = Innermost(L)
<1> DEFINE m == M
           u == L
           h == Handler
           C == m.cs
           T == m.th
           ci == T[u].ci
           n == Len(ci)
           x == T[u].errfunc
           d == C[h].depth
           r == CloseProtected(ErrorAt(m, h, u), u, C[h].level, "ERR", Caught2(C[h]), C[h].errfunc)
<1>1. /\ ThrowTop(M, L, Handler) /\ M.th = th /\ M.th[L].status = "OK" /\ M.mode = "ERR"
      /\ ~Resumes(M.cs[Handler])
  BY CatchErrorIs
<1>2. Go(r)
  BY CatchErrorIs
<1>3. /\ IsM(m) /\ Throws(T, C, h, u) /\ ~Resumes(C[h])
      /\ OnTop(ci, C[Len(C)], Acts(C, u), "ERR") /\ T[u].status = "OK"
  BY <1>1 DEF ThrowTop
<1>4. Innermost(L) = InnerOf(ci)
  BY <1>1 DEF Innermost, InnerOf
<1> HIDE DEF m, u, h
<1>5. IsInner(ci, n, x) /\ n \in Nat /\ ci \in Seq(CallInfo) /\ d \in Nat
  BY <1>3, ThrowTypes
<1>6. Innermost(L) = x
  <2> HIDE DEF ci, x
  <2> QED BY <1>4, <1>5, InnerIs
<1>7. /\ x \in 1 .. n /\ ci[x].func = "pcall" /\ \A j \in 1 .. n : ci[j].func = "pcall" => j <= x
  <2> HIDE DEF ci, x
  <2> QED BY <1>5, <1>6 DEF IsInner
<1>8. d \in 0 .. n /\ IsInner(ci, d, x)
  <2> HIDE DEF T, C
  <2> QED BY <1>3, CaughtError
<1>9. x <= d
  <2> HIDE DEF ci, x, n, d
  <2> QED BY SMTT(20), <1>5, <1>7, <1>8 DEF IsInner
<1>10. d \in 1 .. n /\ ci[d].func = "pcall"
  <2>1. Core(T, C) /\ h \in 1 .. Len(C) /\ C[h].k = "prot" /\ u = C[h].t
    BY <1>3 DEF Throws
  <2>2. C[h].depth > 0
    <3> HIDE DEF x, n
    <3>1. x > 0
      BY <1>5, <1>7
    <3> QED BY <1>5, <1>7, <1>9, <3>1
  <2>3. C[h].depth \in 1 .. Len(T[C[h].t].ci) /\ T[C[h].t].ci[C[h].depth].func = "pcall"
    <3> HIDE DEF T, C
    <3> QED BY <1>3, <2>1, <2>2, ProtCall
  <2> QED BY <2>1, <2>3
<1>11. d = x
  <2> HIDE DEF ci, x, n, d
  <2> QED BY <1>5, <1>7, <1>9, <1>10
<1>12. Len(r.th[u].ci) = d
  <2> DEFINE lv == C[h].level
             tn == Caught2(C[h])
             e  == C[h].errfunc
  <2>1. /\ IsM(m) /\ Throws(m.th, m.cs, h, u) /\ d = m.cs[h].depth
        /\ d \in 0 .. Len(m.th[u].ci)
    BY <1>3, <1>8
  <2>2. r = CloseProtected(ErrorAt(m, h, u), u, lv, "ERR", tn, e)
    OBVIOUS
  <2> HIDE DEF d, lv, tn, e, r
  <2>3. Len(CloseProtected(ErrorAt(m, h, u), u, lv, "ERR", tn, e).th[u].ci) = d
    BY <2>1, CaughtLen
  <2> QED BY <2>2, <2>3
<1> HIDE DEF r
<1>13. th' = r.th
  BY <1>2 DEF Go
<1> QED BY <1>6, <1>11, <1>12, <1>13 DEF u

-----------------------------------------------------------------------------
(* The theorems.  The hypothesis leaves out the programs that close the     *)
(* main thread from a coroutine of the host: of them CallsCounted is false. *)

\* Every lua_State and every activation of the C stack stays well formed.
THEOREM TypeCorrect ==
  ASSUME "close main" \notin Functions
  PROVE  Spec => []TypeOK
<1>1. Spec => []IInv
  BY Zenon, CallStructure
<1>2. IInv => TypeOK
  BY Zenon, InvTypeOK
<1> QED BY <1>1, <1>2, PTL

\* luaE_checkcstack counts the truth: whatever errors and yields cut through
\* the C stack, nCcalls is the number of C calls that are really nested, and a
\* thread is non-yieldable just as long as such a call lasts.
THEOREM CountsBalance ==
  ASSUME "close main" \notin Functions
  PROVE  Spec => []CallsCounted
<1>1. Spec => []IInv
  BY Zenon, CallStructure
<1>2. IInv => CallsCounted
  BY Zenon, InvCallsCounted
<1> QED BY <1>1, <1>2, PTL

\* lua_yieldk lets no coroutine yield across a C function that has no
\* continuation: what a yield discards can be redone by unroll.
THEOREM YieldsAreSafe ==
  ASSUME "close main" \notin Functions
  PROVE  Spec => []YieldSafe
<1>1. Spec => []IInv
  BY Zenon, CallStructure
<1>2. IInv => YieldSafe
  BY Zenon, InvYieldSafe
<1> QED BY <1>1, <1>2, PTL

\* The errfunc that lua_pcallk and finishpcallk save and restore is always the
\* handler of the innermost protected call, also after a yield or an error has
\* skipped the restoring in C.
THEOREM HandlersRestored ==
  ASSUME "close main" \notin Functions
  PROVE  Spec => []HandlerInForce
<1>1. Spec => []IInv
  BY Zenon, CallStructure
<1>2. IInv => HandlerInForce
  BY Zenon, InvHandlerInForce
<1> QED BY <1>1, <1>2, PTL

\* The innermost try block of the C stack is the one that L->errorJmp means: an
\* error or a yield never unwinds the C frames of another thread.
THEOREM HandlersAgree ==
  ASSUME "close main" \notin Functions
  PROVE  Spec => []SameHandler
<1>1. Spec => []IInv
  BY Zenon, CallStructure
<1>2. IInv => SameHandler
  BY Zenon, InvSameHandler
<1> QED BY <1>1, <1>2, PTL

\* luaD_throw, luaD_pcall and precover between them find the innermost
\* protected call of the thread, in the C stack or in the CallInfo list.
THEOREM ErrorsAreCaught ==
  ASSUME "close main" \notin Functions
  PROVE  Spec => ErrorsCaught
<1>1. Spec => []IInv
  BY Zenon, CallStructure
<1>2. ASSUME IInv, [Next]_vars
      PROVE  [mode = "ERR" /\ Innermost(L) # 0 => Len(th'[L].ci) = Innermost(L)]_vars
  <2>1. CASE UNCHANGED vars
    BY Zenon, <2>1
  <2>2. CASE Next
    <3>1. SUFFICES ASSUME mode = "ERR", Innermost(L) # 0
                   PROVE  Len(th'[L].ci) = Innermost(L)
      BY Zenon
    <3>2. Precover \/ CatchError
      BY Zenon, <1>2, <2>2, <3>1, ErrorStep
    <3> QED BY Zenon, <1>2, <3>1, <3>2, PrecoverCaught, CatchErrorCaught
  <2> QED BY Zenon, <1>2, <2>1, <2>2
<1> QED BY <1>1, <1>2, PTL DEF Spec, ErrorsCaught

-----------------------------------------------------------------------------
(* A second invariant, on levels of the stack and pending variables. What  *)
(* follows keeps it when little changes; Calls_closing has the rest.       *)

\* no variable is pending twice, or pending while its method runs
Once(T) ==
  \A t, u \in Threads : \A j \in 1 .. Len(T[u].tbclist) :
    /\ \A i \in 1 .. Len(T[t].tbclist) : T[t].tbclist[i] = T[u].tbclist[j] => t = u /\ i = j
    /\ \A i \in 1 .. Len(T[t].ci) : T[t].ci[i].of # T[u].tbclist[j]
\* only a suspended coroutine is in a call of yield
Awake(T) ==
  \A t \in Threads : T[t].status # "YIELD" =>
    \A i \in 1 .. Len(T[t].ci) : T[t].ci[i].func # "yield"
Tidy(T) == Once(T) /\ Awake(T)

\* the level down to which what the protected call a runs leaves nothing pending
BaseLevel(a) == IF Resumes(a) THEN 0 ELSE a.level
\* the same for what the C function, or the protected call b, that has begun the
\* activation a expects of it
Expected(ci, a, b, x) ==
  /\ b.k = "prot" => x <= BaseLevel(b)
  /\ Runs(b) /\ ci[a.depth].func # "lua" => x <= ci[a.depth].level

CallLevel(ci, a, b) ==
  a.k = "call" /\ Len(ci) > a.depth => Expected(ci, a, b, ci[a.depth + 1].level)
ProtLevel(ci, a) ==
  a.k = "prot" => IF Resumes(a) THEN Len(ci) > 0 => ci[1].level = 0
                                ELSE a.level = IF a.depth = 0 THEN 0 ELSE ci[a.depth].level
CloseLevel(ci, a, b) ==
  a.k = "close" =>
    /\ ~a.yy => a.level = b.level
    /\ a.yy /\ ci[a.depth].func = "pcall" => a.level = ci[a.depth].level /\ ci[a.depth].recst = "ERR"
ActLevel(ci, a, b) == CallLevel(ci, a, b) /\ ProtLevel(ci, a) /\ CloseLevel(ci, a, b)
ActLevels(T, C) == \A i \in 1 .. Len(C) : ActLevel(T[C[i].t].ci, C[i], C[i - 1])

\* a function returns to where its own variables began; what pcall calls begins
\* no higher than pcall
CILevels(ci) ==
  /\ \A j \in 1 .. Len(ci) : ci[j].op = "return" => ci[j].upto = ci[j].level
  /\ \A j \in 1 .. Len(ci) : j > 1 /\ ci[j - 1].ypcall /\ ci[j - 1].recst = "OK" =>
                               ci[j].level <= ci[j - 1].level

\* what a thread outside of the C stack has left
Left(s) ==
  /\ s.status = "OK" => Len(s.tbclist) = 0
  /\ s.status = "YIELD" => s.ci[1].level = 0

\* what is still pending when the topmost activation returns: x variables
OnReturn(ci, a, b, x) ==
  /\ a.k = "call" => Expected(ci, a, b, x)
  /\ a.k = "prot" => x <= BaseLevel(a)
  /\ a.k = "unroll" => LET n == Len(ci)
                       IN  /\ n = 0 => x = 0
                           /\ n > 0 /\ ci[n].func # "lua" /\ ci[n].recst = "OK" => x <= ci[n].level
Returns(T, C, md) ==
  Len(C) > 0 /\ md = "return" =>
    LET s == T[C[Len(C)].t] IN OnReturn(s.ci, C[Len(C)], C[Len(C) - 1], Len(s.tbclist))

\* the lists, and what has left the C stack
Levels(T) == \A t \in Threads : CILevels(T[t].ci)
Leftovers(T, C) == \A t \in Threads \ ChainOf(C) : Left(T[t])

Calm(T, C)    == Tidy(T) /\ Levels(T) /\ ActLevels(T, C) /\ Leftovers(T, C)
Inv2(T, C, md) == Calm(T, C) /\ Returns(T, C, md)

-----------------------------------------------------------------------------
(* Each part, when one thread changes *)

Moves(T, T2, u) == IsTh(T2) /\ Others(T, T2, u) /\ T2[u].tbclist = T[u].tbclist

\* f, of the thread that was s and is s2 now, closes no variable that it did not close before
Kept(s, s2, f) ==
  \/ f.of = None /\ (f.func # "yield" \/ s2.status = "YIELD")
  \/ \E i \in 1 .. Len(s.ci) : s.ci[i].of = f.of /\ s.ci[i].func = f.func
AllKept(s, s2) == \A j \in 1 .. Len(s2.ci) : Kept(s, s2, s2.ci[j])

LEMMA NoneIsNone ==
  ASSUME NEW T, IsTh(T), NEW u \in Threads, NEW j \in 1 .. Len(T[u].tbclist)
  PROVE  T[u].tbclist[j] # None /\ T[u].tbclist[j] \in Variables
<1>1. T[u].tbclist \in Seq(Variables)
  BY ThreadFields DEF IsTh
<1>2. T[u].tbclist[j] \in Variables
  <2> DEFINE q == T[u].tbclist
  <2>1. q \in Seq(Variables) /\ j \in 1 .. Len(q)
    BY <1>1
  <2> HIDE DEF q
  <2>2. q[j] \in Variables
    BY <2>1
  <2> QED BY <2>2 DEF q
<1> QED BY Zenon, <1>2, CallsAssumption

LEMMA OnceKept ==
  ASSUME NEW T, IsTh(T), NEW T2, NEW u \in Threads, Once(T), Moves(T, T2, u),
         AllKept(T[u], T2[u])
  PROVE  Once(T2)
<1> SUFFICES ASSUME NEW t \in Threads, NEW w \in Threads, NEW j \in 1 .. Len(T2[w].tbclist)
             PROVE  /\ \A i \in 1 .. Len(T2[t].tbclist) :
                          T2[t].tbclist[i] = T2[w].tbclist[j] => t = w /\ i = j
                    /\ \A i \in 1 .. Len(T2[t].ci) : T2[t].ci[i].of # T2[w].tbclist[j]
  BY Zenon DEF Once
<1>1. \A x \in Threads : T2[x].tbclist = T[x].tbclist
  BY DEF Moves, Others
<1>2. j \in 1 .. Len(T[w].tbclist)
  BY <1>1
<1>3. /\ \A i \in 1 .. Len(T[t].tbclist) : T[t].tbclist[i] = T[w].tbclist[j] => t = w /\ i = j
      /\ \A i \in 1 .. Len(T[t].ci) : T[t].ci[i].of # T[w].tbclist[j]
  BY <1>2, Zenon DEF Once
<1>4. T[w].tbclist[j] # None
  BY <1>2, NoneIsNone
<1>5. ASSUME NEW i \in 1 .. Len(T2[t].ci)
      PROVE  T2[t].ci[i].of # T2[w].tbclist[j]
  <2>1. CASE t = u
    <3>1. Kept(T[u], T2[u], T2[u].ci[i])
      BY <1>5, <2>1 DEF AllKept
    <3> QED BY <1>1, <1>3, <1>4, <2>1, <3>1 DEF Kept
  <2>2. CASE t # u
    <3>1. T2[t] = T[t]
      BY <2>2 DEF Moves, Others
    <3> QED BY <1>1, <1>3, <1>5, <3>1
  <2> QED BY <2>1, <2>2
<1> QED BY <1>1, <1>3, <1>5

LEMMA AwakeKept ==
  ASSUME NEW T, NEW T2, NEW u \in Threads, Awake(T), Others(T, T2, u),
         AllKept(T[u], T2[u]), T2[u].status = "YIELD" \/ T[u].status # "YIELD"
  PROVE  Awake(T2)
<1> SUFFICES ASSUME NEW t \in Threads, T2[t].status # "YIELD", NEW i \in 1 .. Len(T2[t].ci)
             PROVE  T2[t].ci[i].func # "yield"
  BY DEF Awake
<1>1. CASE t = u
  <2>1. Kept(T[u], T2[u], T2[u].ci[i])
    BY <1>1 DEF AllKept
  <2>2. \A k \in 1 .. Len(T[u].ci) : T[u].ci[k].func # "yield"
    BY <1>1 DEF Awake
  <2> QED BY <1>1, <2>1, <2>2 DEF Kept
<1>2. CASE t # u
  BY <1>2 DEF Awake, Others
<1> QED BY <1>1, <1>2

LEMMA TidyKept ==
  ASSUME NEW T, IsTh(T), NEW T2, NEW u \in Threads, Tidy(T), Moves(T, T2, u),
         AllKept(T[u], T2[u]), T2[u].status = "YIELD" \/ T[u].status # "YIELD"
  PROVE  Tidy(T2)
<1>1. Others(T, T2, u) /\ Once(T) /\ Awake(T)
  BY DEF Moves, Tidy
<1>2. Once(T2)
  BY <1>1, OnceKept
<1>3. Awake(T2)
  BY <1>1, AwakeKept
<1> QED BY <1>2, <1>3 DEF Tidy

\* the first d CallInfos of a thread stay what they are
Same(f, f2) ==
  f2.func = f.func /\ f2.level = f.level /\ f2.ypcall = f.ypcall /\ f2.recst = f.recst
SameUpTo(ci, ci2, d) ==
  d \in Nat /\ d <= Len(ci) /\ d <= Len(ci2) /\ \A j \in 1 .. d : Same(ci[j], ci2[j])

LEMMA LevelsCut ==
  ASSUME NEW ci \in Seq(CallInfo), NEW ci2 \in Seq(CallInfo), CILevels(ci),
         SameUpTo(ci, ci2, Len(ci2)),
         \A j \in 1 .. Len(ci2) : ci2[j].op = ci[j].op /\ ci2[j].upto = ci[j].upto
  PROVE  CILevels(ci2)
<1>1. /\ Len(ci2) \in Nat /\ Len(ci) \in Nat /\ Len(ci2) <= Len(ci)
      /\ \A j \in 1 .. Len(ci2) : Same(ci[j], ci2[j])
  BY DEF SameUpTo
<1>2. ASSUME NEW j \in 1 .. Len(ci2), ci2[j].op = "return"
      PROVE  ci2[j].upto = ci2[j].level
  <2>1. j \in 1 .. Len(ci) /\ Same(ci[j], ci2[j]) /\ ci[j].op = "return" /\ ci2[j].upto = ci[j].upto
    BY <1>1, <1>2
  <2>2. ci[j].upto = ci[j].level
    BY <2>1 DEF CILevels
  <2> QED BY <2>1, <2>2 DEF Same
<1>3. ASSUME NEW j \in 1 .. Len(ci2), j > 1, ci2[j - 1].ypcall, ci2[j - 1].recst = "OK"
      PROVE  ci2[j].level <= ci2[j - 1].level
  <2>1. j \in 1 .. Len(ci) /\ j - 1 \in 1 .. Len(ci2)
    BY <1>1, <1>3
  <2>2. Same(ci[j], ci2[j]) /\ Same(ci[j - 1], ci2[j - 1])
    BY <1>1, <2>1
  <2>3. ci[j].level <= ci[j - 1].level
    BY <1>3, <2>1, <2>2 DEF CILevels, Same
  <2> QED BY <2>2, <2>3 DEF Same
<1> QED BY <1>2, <1>3 DEF CILevels

LEMMA LevelsPush ==
  ASSUME NEW ci \in Seq(CallInfo), NEW f \in CallInfo, CILevels(ci), f.op = None,
         Len(ci) > 0 /\ ci[Len(ci)].ypcall /\ ci[Len(ci)].recst = "OK" =>
           f.level <= ci[Len(ci)].level
  PROVE  CILevels(Append(ci, f))
<1> DEFINE c2 == Append(ci, f)
           n  == Len(ci)
<1>1. n \in Nat /\ Len(c2) = n + 1 /\ c2[n + 1] = f /\ \A j \in 1 .. n : c2[j] = ci[j]
  OBVIOUS
<1> HIDE DEF c2
<1>2. ASSUME NEW j \in 1 .. Len(c2), c2[j].op = "return"
      PROVE  c2[j].upto = c2[j].level
  BY <1>1, <1>2 DEF CILevels, None
<1>3. ASSUME NEW j \in 1 .. Len(c2), j > 1, c2[j - 1].ypcall, c2[j - 1].recst = "OK"
      PROVE  c2[j].level <= c2[j - 1].level
  <2>1. CASE j = n + 1
    BY <1>1, <1>3, <2>1
  <2>2. CASE j \in 1 .. n
    <3>1. c2[j] = ci[j] /\ c2[j - 1] = ci[j - 1]
      BY <1>1, <1>3, <2>2
    <3> QED BY <1>3, <2>2, <3>1 DEF CILevels
  <2> QED BY <1>1, <2>1, <2>2
<1>4. CILevels(c2)
  BY <1>2, <1>3 DEF CILevels
<1> QED BY <1>4 DEF c2

LEMMA LevelsKept ==
  ASSUME NEW T, NEW T2, NEW u \in Threads, Levels(T), Others(T, T2, u), CILevels(T2[u].ci)
  PROVE  Levels(T2)
  BY DEF Levels, Others

LEMMA LeftKept ==
  ASSUME NEW T, NEW C, NEW T2, NEW C2, NEW u \in Threads, Leftovers(T, C), Others(T, T2, u),
         \A t \in ChainOf(C) : t = u \/ t \in ChainOf(C2), u \in ChainOf(C2) \/ Left(T2[u])
  PROVE  Leftovers(T2, C2)
  BY DEF Leftovers, Others

-----------------------------------------------------------------------------
(* Activations that stay *)

\* the activation a does not speak of more than the first d CallInfos
Reach(a, d, ci2) ==
  IF Resumes(a) THEN d > 0 \/ Len(ci2) = 0 \/ ci2[1].level = 0
  ELSE a.depth <= d /\ (a.k = "call" => a.depth < d \/ Len(ci2) = a.depth)

LEMMA ActKept ==
  ASSUME NEW ci \in Seq(CallInfo), NEW ci2 \in Seq(CallInfo), NEW d, SameUpTo(ci, ci2, d),
         NEW a \in Activation, NEW b, ActLevel(ci, a, b), a.k = "prot" \/ Linked(ci, a, b),
         Reach(a, d, ci2)
  PROVE  ActLevel(ci2, a, b)
<1>1. a.depth \in Nat /\ d \in Nat /\ d <= Len(ci) /\ d <= Len(ci2)
  BY ActivationFields DEF SameUpTo
<1>2. \A j \in 1 .. d : Same(ci[j], ci2[j])
  BY DEF SameUpTo
<1>3. CallLevel(ci, a, b) /\ ProtLevel(ci, a) /\ CloseLevel(ci, a, b)
  BY DEF ActLevel
<1>4. CallLevel(ci2, a, b)
  <2> SUFFICES ASSUME a.k = "call", Len(ci2) > a.depth
               PROVE  Expected(ci2, a, b, ci2[a.depth + 1].level)
    BY DEF CallLevel
  <2>1. a.depth < d /\ ~Resumes(a)
    BY <1>1 DEF Reach, Resumes
  <2>2. ci2[a.depth + 1].level = ci[a.depth + 1].level
    BY <1>1, <1>2, <2>1 DEF Same
  <2>3. Expected(ci, a, b, ci[a.depth + 1].level)
    BY <1>1, <1>3, <2>1 DEF CallLevel
  <2>4. Runs(b) => a.depth \in 1 .. d
    BY <1>1, <2>1 DEF Linked, LinkedCall
  <2>5. Runs(b) => ci2[a.depth].func = ci[a.depth].func /\ ci2[a.depth].level = ci[a.depth].level
    BY <1>2, <2>4 DEF Same
  <2> QED BY <2>2, <2>3, <2>5 DEF Expected
<1>5. ProtLevel(ci2, a)
  <2> SUFFICES ASSUME a.k = "prot"
               PROVE  IF Resumes(a) THEN Len(ci2) > 0 => ci2[1].level = 0
                      ELSE a.level = IF a.depth = 0 THEN 0 ELSE ci2[a.depth].level
    BY DEF ProtLevel
  <2>1. CASE Resumes(a)
    <3>1. Len(ci) > 0 => ci[1].level = 0
      BY <1>3, <2>1 DEF ProtLevel
    <3>2. d > 0 => Len(ci) > 0 /\ ci2[1].level = ci[1].level
      BY <1>1, <1>2 DEF Same
    <3> QED BY <2>1, <3>1, <3>2 DEF Reach
  <2>2. CASE ~Resumes(a)
    <3>1. a.depth <= d
      BY <2>2 DEF Reach
    <3>2. a.depth # 0 => ci2[a.depth].level = ci[a.depth].level
      BY <1>1, <1>2, <3>1 DEF Same
    <3> QED BY <1>3, <2>2, <3>2 DEF ProtLevel
  <2> QED BY <2>1, <2>2
<1>6. CloseLevel(ci2, a, b)
  <2> SUFFICES ASSUME a.k = "close"
               PROVE  /\ ~a.yy => a.level = b.level
                      /\ a.yy /\ ci2[a.depth].func = "pcall" =>
                           a.level = ci2[a.depth].level /\ ci2[a.depth].recst = "ERR"
    BY DEF CloseLevel
  <2>1. a.depth <= d
    BY DEF Reach, Resumes
  <2>2. a.yy => a.depth \in 1 .. d
    BY <1>1, <2>1 DEF Linked, LinkedClose
  <2>3. a.yy => Same(ci[a.depth], ci2[a.depth])
    BY <1>2, <2>2
  <2> QED BY <1>3, <2>3 DEF CloseLevel, Same
<1> QED BY <1>4, <1>5, <1>6 DEF ActLevel

\* the activations C2 that are left of C, when the CallInfos of u change
ReachAll(C2, u, d, ci2) == \A i \in 1 .. Len(C2) : C2[i].t = u => Reach(C2[i], d, ci2)
PrefixOf(C2, C) ==
  /\ C2 \in Seq(Activation) /\ Len(C2) <= Len(C) /\ \A i \in 1 .. Len(C2) : C2[i] = C[i]

LEMMA ActsKept ==
  ASSUME NEW T, NEW C, Core(T, C), ActLevels(T, C), NEW T2, IsTh(T2), NEW C2, PrefixOf(C2, C),
         NEW u \in Threads, Others(T, T2, u), NEW d, u \in ChainOf(C2) =>
           SameUpTo(T[u].ci, T2[u].ci, d) /\ ReachAll(C2, u, d, T2[u].ci)
  PROVE  ActLevels(T2, C2)
<1> SUFFICES ASSUME NEW i \in 1 .. Len(C2)
             PROVE  ActLevel(T2[C2[i].t].ci, C2[i], C2[i - 1])
  BY DEF ActLevels
<1>1. IsTh(T) /\ C \in Seq(Activation) /\ Stack(T, C)
  BY DEF Core, Types, IsTh
<1>2. i \in 1 .. Len(C) /\ C2[i] = C[i] /\ C[i] \in Activation /\ C[i].t \in Threads
  BY <1>1, ActivationsFields DEF PrefixOf
<1>3. ActLevel(T[C[i].t].ci, C[i], C[i - 1]) /\ Good(T, C, i)
  BY <1>1, <1>2 DEF ActLevels, Stack
<1>4. C[i].k = "prot" \/ Linked(T[C[i].t].ci, C[i], C[i - 1])
  BY <1>3 DEF Good, BlockStarts
<1>5. ActLevel(T2[C[i].t].ci, C[i], C[i - 1])
  <2>1. CASE C[i].t # u
    <3>1. T2[C[i].t] = T[C[i].t]
      BY <1>2, <2>1 DEF Others
    <3> QED BY <1>3, <3>1
  <2>2. CASE C[i].t = u
    <3> DEFINE ci  == T[u].ci
               ci2 == T2[u].ci
               a   == C[i]
               b   == C[i - 1]
    <3>1. ci \in Seq(CallInfo) /\ ci2 \in Seq(CallInfo) /\ a \in Activation
      BY <1>1, <1>2, ThreadFields DEF IsTh
    <3>2. u \in ChainOf(C2)
      BY <1>2, <2>2 DEF ChainOf
    <3>3. SameUpTo(ci, ci2, d) /\ Reach(a, d, ci2)
      BY <1>2, <2>2, <3>2 DEF ReachAll
    <3>4. ActLevel(ci, a, b) /\ (a.k = "prot" \/ Linked(ci, a, b))
      BY <1>3, <1>4, <2>2
    <3> HIDE DEF ci, ci2, a, b
    <3>5. ActLevel(ci2, a, b)
      BY <3>1, <3>3, <3>4, ActKept
    <3> QED BY <2>2, <3>5 DEF ci2, a, b
  <2> QED BY <2>1, <2>2
<1>6. CASE i > 1
  <2>1. C2[i - 1] = C[i - 1]
    BY <1>2, <1>6 DEF PrefixOf
  <2> QED BY <1>2, <1>5, <2>1
<1>7. CASE i = 1
  <2>1. C[i].k = "prot"
    BY <1>3, <1>7 DEF Good, First, BlockStarts
  <2> QED BY <1>2, <1>5, <2>1 DEF ActLevel, CallLevel, ProtLevel, CloseLevel
<1> QED BY <1>6, <1>7

LEMMA ReachBelow ==
  ASSUME NEW T, NEW C, Core(T, C), NEW C2, PrefixOf(C2, C), Len(C2) > 0, NEW b,
         b = C2[Len(C2)], NEW u, u = b.t, NEW d \in Nat, NEW ci2, Reach(b, d, ci2),
         d > 0 \/ Len(ci2) = 0 \/ ci2[1].level = 0 \/ \A a \in Acts(C2, u) : Resumes(a) => a = b
  PROVE  ReachAll(C2, u, d, ci2)
<1> SUFFICES ASSUME NEW i \in 1 .. Len(C2), C2[i].t = u
             PROVE  Reach(C2[i], d, ci2)
  BY DEF ReachAll
<1> DEFINE n == Len(C2)
<1>1. C \in Seq(Activation) /\ Stack(T, C) /\ C2 \in Seq(Activation) /\ n \in Nat
  BY DEF Core, Types, PrefixOf
<1>2. n \in 1 .. Len(C) /\ C2[n] = C[n] /\ C2[i] = C[i] /\ i \in 1 .. Len(C)
  BY <1>1 DEF PrefixOf
<1>3. C2[i] \in Acts(C2, u)
  BY DEF Acts
<1>4. CASE i = n
  BY <1>4
<1>5. CASE i # n
  <2>1. i \in 1 .. n - 1
    BY <1>1, <1>5
  <2>2. C[i].depth \in Nat /\ b.depth \in Nat
    BY <1>1, <1>2, ActivationsFields
  <2>3. ~Resumes(b)
    <3>1. Resumes(C[n]) => First(C, n)
      BY <1>1, <1>2, ResumeFirst
    <3>2. First(C, n) => \A e \in 1 .. n - 1 : C[e].t # C[n].t
      BY <1>1, <1>2, FirstIsProt
    <3> QED BY <1>2, <2>1, <3>1, <3>2
  <2>4. CASE Resumes(C2[i])
    BY <1>3, <2>3, <2>4 DEF Reach
  <2>5. CASE ~Resumes(C2[i])
    <3>1. Deeper(C, n)
      BY <1>1, <1>2 DEF Stack, Good
    <3>2. C[i].depth <= b.depth /\ (C[i].k = "call" => C[i].depth < b.depth)
      BY <1>2, <2>1, <2>5, <3>1 DEF Deeper
    <3>3. b.depth <= d
      BY <2>3 DEF Reach
    <3> QED BY <1>2, <2>2, <2>5, <3>2, <3>3 DEF Reach
  <2> QED BY <2>4, <2>5
<1> QED BY <1>4, <1>5

LEMMA FirstProt ==
  ASSUME NEW T, NEW C, Core(T, C), Len(C) > 0
  PROVE  C[1].k = "prot"
<1>1. C \in Seq(Activation) /\ Stack(T, C)
  BY DEF Core, Types
<1>2. 1 \in 1 .. Len(C)
  BY <1>1
<1> QED BY <1>1, <1>2 DEF Stack, Good, First, BlockStarts

LEMMA ActLevelsPush ==
  ASSUME NEW T, NEW C \in Seq(Activation), ActLevels(T, C), NEW a \in Activation, NEW b,
         Len(C) > 0 => b = C[Len(C)] /\ C[1].k = "prot", Len(C) = 0 => a.k = "prot",
         ActLevel(T[a.t].ci, a, b)
  PROVE  ActLevels(T, Append(C, a))
<1> DEFINE C2 == Append(C, a)
           n  == Len(C)
<1>1. n \in Nat /\ Len(C2) = n + 1 /\ C2[n + 1] = a /\ \A j \in 1 .. n : C2[j] = C[j]
  OBVIOUS
<1> HIDE DEF C2
<1> SUFFICES ASSUME NEW i \in 1 .. n + 1
             PROVE  ActLevel(T[C2[i].t].ci, C2[i], C2[i - 1])
  BY <1>1 DEF ActLevels, C2
<1>2. \A k \in 1 .. n : C[k].k = "prot" \/ k > 1 => ActLevel(T[C[k].t].ci, C[k], C[k - 1])
  BY DEF ActLevels
<1>3. \A x, y, y2, ci : x.k = "prot" /\ ActLevel(ci, x, y) => ActLevel(ci, x, y2)
  BY DEF ActLevel, CallLevel, ProtLevel, CloseLevel
<1>4. CASE i = 1 /\ n > 0
  <2>1. 1 \in 1 .. n /\ C2[1] = C[1] /\ C[1].k = "prot"
    BY <1>1, <1>4
  <2>2. ActLevel(T[C[1].t].ci, C[1], C[0])
    <3>1. ActLevel(T[C[1].t].ci, C[1], C[1 - 1])
      BY <1>2, <2>1
    <3> QED BY <3>1
  <2> QED BY <1>3, <1>4, <2>1, <2>2
<1>5. CASE i = 1 /\ n = 0
  <2>1. C2[i] = a /\ a.k = "prot"
    BY <1>1, <1>5
  <2> QED BY <1>3, <2>1
<1>6. CASE i > 1 /\ i <= n
  <2>1. C2[i] = C[i] /\ C2[i - 1] = C[i - 1] /\ i \in 1 .. n
    BY <1>1, <1>6
  <2> QED BY <1>2, <1>6, <2>1
<1>7. CASE i > 1 /\ i = n + 1
  <2>1. C2[i] = a /\ C2[i - 1] = C[n] /\ n > 0
    BY <1>1, <1>7
  <2> QED BY <2>1
<1> QED BY <1>1, <1>4, <1>5, <1>6, <1>7

-----------------------------------------------------------------------------
(* A Lua function is called by ccall *)

LEMMA CallFrameLevel ==
  ASSUME NEW s \in LuaState, NEW of \in Variables \cup {None}
  PROVE  LET f == CallFrame(s, of)
         IN  /\ f \in CallInfo /\ f.func = "lua" /\ f.of = of /\ f.op = None
             /\ f.level = Len(s.tbclist) /\ f.recst = "OK" /\ ~f.ypcall
<1>1. Len(s.tbclist) \in Nat
  BY DEF LuaState
<1> QED BY <1>1 DEF CallFrame, Frame, CallInfo, CFunctions

\* m2: ccall, called for t in m, has begun the call, or has failed
CallGives(m, m2, t, inc, of) ==
  /\ Moves(m.th, m2.th, t) /\ m2.th[t].status = m.th[t].status
  /\ \/ /\ m2.mode = "ERR" /\ m2.cs = m.cs /\ m2.th[t].ci = m.th[t].ci
     \/ /\ m2.mode = "run" /\ m2.cs = Append(m.cs, CallAct(m.th[t], t, inc))
        /\ m2.th[t].ci = Append(m.th[t].ci, CallFrame(m.th[t], of))

LEMMA UpdMoves ==
  ASSUME NEW T, IsTh(T), NEW t \in Threads, NEW s \in LuaState, s.tbclist = T[t].tbclist
  PROVE  Moves(T, Upd(T, t, s), t) /\ Upd(T, t, s)[t] = s
<1>1. IsTh(Upd(T, t, s)) /\ Upd(T, t, s)[t] = s
      /\ \A x \in Threads \ {t} : Upd(T, t, s)[x] = T[x]
  BY OneThread
<1> QED BY <1>1 DEF Moves, Others

LEMMA CallGivesIt ==
  ASSUME NEW m, IsM(m), NEW t \in Threads, NEW inc \in {"none", "yieldable", "nyci"},
         NEW of \in Variables \cup {None}
  PROVE  CallGives(m, Ccall(m, t, inc, of), t, inc, of)
<1> DEFINE T  == m.th
           C  == m.cs
           md == m.mode
           r  == Ccall(m, t, inc, of)
           s  == CallCounters(T[t], inc)
           f  == CallFrame(T[t], of)
           a  == CallAct(T[t], t, inc)
           q  == Append(T[t].ci, f)
           s2 == WithCI(s, q)
<1>1. m = MS(T, C, md) /\ IsTh(T) /\ T[t] \in LuaState /\ T[t].ci \in Seq(CallInfo)
  BY MachineParts, ThreadFields DEF IsTh
<1>2. s \in LuaState /\ s.tbclist = T[t].tbclist /\ s.status = T[t].status /\ s.ci = T[t].ci
  BY <1>1, CountersFields
<1>3. f \in CallInfo
  BY <1>1, CallFrameLevel
<1>4. q \in Seq(CallInfo)
  <2> HIDE DEF f
  <2> QED BY <1>1, <1>3
<1>5. s2 \in LuaState /\ s2.ci = q /\ s2.status = s.status /\ s2.tbclist = s.tbclist
  <2> HIDE DEF q, s
  <2> QED BY <1>2, <1>4, OneList
<1>m. r = Ccall(MS(T, C, md), t, inc, of)
  BY <1>1
<1> HIDE DEF T, C, md, s, s2, f, a, q, r
<1>i. IsTh(T)
  BY <1>1
<1>6. r = MS(Upd(T, t, s), C, "ERR") \/ r = MS(Upd(T, t, s2), Append(C, a), "run")
  BY <1>m, <1>i, CcallIs DEF s, f, a, q, s2
<1>7. CASE r = MS(Upd(T, t, s), C, "ERR")
  <2>1. Moves(T, Upd(T, t, s), t) /\ Upd(T, t, s)[t] = s
    BY <1>1, <1>2, UpdMoves
  <2>2. r.th = Upd(T, t, s) /\ r.cs = C /\ r.mode = "ERR"
    BY <1>7 DEF MS
  <2> QED BY <1>2, <2>1, <2>2 DEF CallGives, r, T, C
<1>8. CASE r = MS(Upd(T, t, s2), Append(C, a), "run")
  <2>1. s2.tbclist = T[t].tbclist
    BY <1>2, <1>5
  <2>2. Moves(T, Upd(T, t, s2), t) /\ Upd(T, t, s2)[t] = s2
    BY <1>1, <1>5, <2>1, UpdMoves
  <2>3. r.th = Upd(T, t, s2) /\ r.cs = Append(C, a) /\ r.mode = "run"
    BY <1>8 DEF MS
  <2>4. r.th[t].ci = q /\ r.th[t].status = T[t].status
    BY <1>2, <1>5, <2>2, <2>3
  <2> QED BY <2>2, <2>3, <2>4 DEF CallGives, r, T, C, q, a, f
<1> QED BY <1>6, <1>7, <1>8

\* the variable v, or None, is not pending
NotPending(T, v) == \A w \in Threads : \A j \in 1 .. Len(T[w].tbclist) : T[w].tbclist[j] # v

\* a CallInfo is added in t
LEMMA TidyPush ==
  ASSUME NEW T, IsTh(T), NEW T2, NEW u \in Threads, Tidy(T), Moves(T, T2, u), NEW f,
         T2[u].ci = Append(T[u].ci, f), f.func # "yield" /\ T2[u].status = T[u].status,
         NotPending(T, f.of)
  PROVE  Tidy(T2)
<1> DEFINE ci == T[u].ci
           n  == Len(ci)
<1>1. ci \in Seq(CallInfo)
  BY ThreadFields DEF IsTh
<1>2. n \in Nat /\ Len(T2[u].ci) = n + 1 /\ T2[u].ci[n + 1] = f
      /\ \A j \in 1 .. n : T2[u].ci[j] = ci[j]
  BY <1>1
<1> HIDE DEF ci
<1>3. \A x \in Threads : T2[x].tbclist = T[x].tbclist
  BY DEF Moves, Others
<1>4. \A x \in Threads \ {u} : T2[x] = T[x]
  BY DEF Moves, Others
<1>o. Once(T)
  BY DEF Tidy
<1>5. ASSUME NEW t \in Threads, NEW w \in Threads, NEW j \in 1 .. Len(T2[w].tbclist)
      PROVE  /\ \A i \in 1 .. Len(T2[t].tbclist) :
                   T2[t].tbclist[i] = T2[w].tbclist[j] => t = w /\ i = j
             /\ \A i \in 1 .. Len(T2[t].ci) : T2[t].ci[i].of # T2[w].tbclist[j]
  <2>1. j \in 1 .. Len(T[w].tbclist)
    BY <1>3, <1>5
  <2>2. /\ \A i \in 1 .. Len(T[t].tbclist) : T[t].tbclist[i] = T[w].tbclist[j] => t = w /\ i = j
        /\ \A i \in 1 .. Len(T[t].ci) : T[t].ci[i].of # T[w].tbclist[j]
    BY <1>5, <1>o, <2>1 DEF Once
  <2>3. T[w].tbclist[j] # f.of
    BY <1>5, <2>1 DEF NotPending
  <2>4. ASSUME NEW i \in 1 .. Len(T2[t].ci)
        PROVE  T2[t].ci[i].of # T2[w].tbclist[j]
    <3>1. CASE t # u
      BY <1>3, <1>4, <1>5, <2>2, <2>4, <3>1
    <3>2. CASE t = u /\ i = n + 1
      BY <1>2, <1>3, <1>5, <2>3, <3>2
    <3>3. CASE t = u /\ i # n + 1
      <4>1. i \in 1 .. n
        BY <1>2, <2>4, <3>3
      <4>2. T2[t].ci[i] = T[t].ci[i] /\ i \in 1 .. Len(T[t].ci)
        BY <1>2, <3>3, <4>1 DEF ci
      <4> QED BY <1>3, <1>5, <2>2, <4>2
    <3> QED BY <3>1, <3>2, <3>3
  <2> QED BY <1>3, <1>5, <2>2, <2>4
<1>6. Once(T2)
  BY <1>5, Zenon DEF Once
<1>7. ASSUME NEW t \in Threads, T2[t].status # "YIELD", NEW i \in 1 .. Len(T2[t].ci)
      PROVE  T2[t].ci[i].func # "yield"
  <2>1. CASE t # u
    BY <1>4, <1>7, <2>1 DEF Tidy, Awake
  <2>2. CASE t = u /\ i = n + 1
    BY <1>2, <2>2
  <2>3. CASE t = u /\ i # n + 1
    <3>1. i \in 1 .. n /\ T2[u].ci[i] = ci[i]
      BY <1>2, <1>7, <2>3
    <3> QED BY <1>7, <2>3, <3>1 DEF Tidy, Awake, ci
  <2> QED BY <2>1, <2>2, <2>3
<1> QED BY <1>6, <1>7 DEF Tidy, Awake

LEMMA NoResumes ==
  ASSUME NEW m, IsM(m), Core(m.th, m.cs), NEW t, NEW b, NEW n, TopIs(m, t, b, n),
         b.depth = 0, b.k \in {"prot", "close"}, ~Resumes(b)
  PROVE  \A a \in Acts(m.cs, t) : ~Resumes(a)
<1> DEFINE C == m.cs
           p == Len(C)
<1>1. /\ C \in Seq(Activation) /\ p \in 1 .. p /\ p \in Nat /\ C[p] = b /\ b.t = t
      /\ Stack(m.th, C) /\ Core(m.th, C) /\ b \in Activation
  <2>1. p \in Nat /\ p \in 1 .. p /\ b \in Activation
    BY TopFacts
  <2> QED BY <2>1 DEF TopIs, Core, Types
<1> HIDE DEF C, p
<1>2. \A i \in 1 .. p : C[i].k = "prot" /\ C[i].depth = 0 /\ ~Resumes(C[i]) =>
        First(C, i) /\ \A e \in 1 .. i - 1 : C[e].t # C[i].t
  <2> SUFFICES ASSUME NEW i \in 1 .. p, C[i].k = "prot", C[i].depth = 0, ~Resumes(C[i])
               PROVE  First(C, i) /\ \A e \in 1 .. i - 1 : C[e].t # C[i].t
    OBVIOUS
  <2>1. i \in 1 .. Len(C)
    BY DEF p
  <2>2. First(C, i)
    <3>1. ~First(C, i) => C[i].depth \in 1 .. Len(m.th[C[i].t].ci)
      BY <1>1, <2>1, ProtCall
    <3> QED BY <3>1
  <2> QED BY <1>1, <2>1, <2>2, FirstIsProt
<1>3. SUFFICES ASSUME NEW i \in 1 .. p, C[i].t = t
               PROVE  ~Resumes(C[i])
  BY DEF Acts, p, C
<1>4. CASE b.k = "prot"
  <2>1. \A e \in 1 .. p - 1 : C[e].t # t
    BY <1>1, <1>2, <1>4
  <2> QED BY <1>1, <1>3, <2>1
<1>5. CASE b.k = "close"
  <2>1. ~First(C, p) /\ Linked(m.th[t].ci, b, C[p - 1])
    <3>1. Good(m.th, C, p)
      BY <1>1 DEF Stack, p
    <3> QED BY <1>1, <1>5, <3>1 DEF Good, BlockStarts
  <2>2. p - 1 \in 1 .. p /\ C[p - 1].t = t
    BY <1>1, <2>1 DEF First
  <2>3. C[p - 1].k = "prot" /\ C[p - 1].depth = 0 /\ ~Resumes(C[p - 1])
    <3>1. b.yy \in BOOLEAN
      BY <1>1, ActivationFields
    <3>2. ~b.yy
      BY <1>5, <2>1 DEF Linked, LinkedClose
    <3> QED BY <1>5, <2>1, <3>2 DEF Linked, LinkedClose, Resumes
  <2>4. \A e \in 1 .. (p - 1) - 1 : C[e].t # t
    BY <1>2, <2>2, <2>3
  <2>5. i = p \/ i = p - 1
    BY <1>1, <1>3, <2>4
  <2> QED BY <1>1, <2>3, <2>5
<1> QED BY <1>4, <1>5

Inv2M(m) == Inv2(m.th, m.cs, m.mode)
\* what is pending when ccall is called: x variables
CallLow(ci, b, n, x) ==
  /\ n > 0 /\ ci[n].ypcall /\ ci[n].recst = "OK" => x <= ci[n].level
  /\ b.k = "prot" => x <= BaseLevel(b)
  /\ Runs(b) /\ ci[n].func # "lua" => x <= ci[n].level

LEMMA PushedUpTo ==
  ASSUME NEW ci \in Seq(CallInfo), NEW f
  PROVE  /\ SameUpTo(ci, Append(ci, f), Len(ci)) /\ Len(Append(ci, f)) = Len(ci) + 1
         /\ Append(ci, f)[Len(ci) + 1] = f
         /\ Len(ci) > 0 => Append(ci, f)[Len(ci)] = ci[Len(ci)]
  BY DEF SameUpTo, Same

LEMMA SelfUpTo ==
  ASSUME NEW ci \in Seq(CallInfo)
  PROVE  SameUpTo(ci, ci, Len(ci))
  BY DEF SameUpTo, Same

LEMMA ReachCall ==
  ASSUME NEW m, IsM(m), Core(m.th, m.cs), NEW t, NEW b, NEW n, TopIs(m, t, b, n), NEW inc,
         CallReady(m.th, m.cs, inc), NEW ci2, Len(ci2) = n + 1, Resumes(b) => ci2[1].level = 0
  PROVE  ReachAll(m.cs, t, n, ci2)
<1> DEFINE C == m.cs
<1>1. /\ C \in Seq(Activation) /\ Len(C) > 0 /\ b = C[Len(C)] /\ t = b.t /\ n \in Nat
      /\ b \in Activation /\ n = Len(m.th[t].ci) /\ Core(m.th, C)
  <2>1. n \in Nat /\ b \in Activation
    BY TopFacts
  <2> QED BY <2>1 DEF TopIs, Core, Types
<1>2. /\ b.k = "prot" => b.use = "resume" \/ (b.use = "pcall" /\ n = b.depth)
      /\ b.k = "close" => n = b.depth
      /\ Runs(b) => n > b.depth
  BY ZenonT(40), <1>1 DEF CallReady
<1>3. b.k \in {"prot", "close"} \/ Runs(b)
  BY SMTT(20), <1>1, ActivationFields DEF Runs
<1>4. b.depth \in Nat
  BY <1>1, ActivationFields
<1>n. n \in Nat /\ (n = 0 \/ n > 0)
  <2>1. n \in Nat
    BY <1>1
  <2> QED BY SMTT(20), <2>1
<1>5. Reach(b, n, ci2)
  <2>1. CASE Resumes(b)
    <3>1. ci2[1].level = 0
      BY <2>1
    <3> QED BY <2>1, <3>1 DEF Reach
  <2>2. CASE ~Resumes(b)
    <3>1. n = b.depth \/ n > b.depth
      BY <1>2, <1>3, <2>2 DEF Resumes
    <3>2. b.k = "call" => n > b.depth
      BY <1>2 DEF Runs
    <3>3. b.depth <= n /\ (b.k = "call" => b.depth < n)
      BY SMTT(20), <1>4, <1>n, <3>1, <3>2
    <3> QED BY <2>2, <3>3 DEF Reach
  <2> QED BY <2>1, <2>2
<1>6. PrefixOf(C, C)
  BY <1>1 DEF PrefixOf
<1>7. n > 0 \/ Len(ci2) = 0 \/ ci2[1].level = 0 \/ \A a \in Acts(C, t) : Resumes(a) => a = b
  <2>1. CASE n > 0
    BY <2>1
  <2>3. CASE Resumes(b)
    <3>1. ci2[1].level = 0
      BY <2>3
    <3> QED BY <3>1
  <2>2. CASE n = 0 /\ ~Resumes(b)
    <3>1. b.depth = 0 /\ b.k \in {"prot", "close"}
      BY <1>2, <1>3, <1>4, <2>2 DEF Resumes
    <3>2. \A a \in Acts(m.cs, t) : ~Resumes(a)
      BY <2>2, <3>1, NoResumes
    <3>3. \A a \in Acts(C, t) : Resumes(a) => a = b
      BY <3>2
    <3> QED BY <3>3
  <2> QED BY <1>n, <2>1, <2>2, <2>3
<1> HIDE DEF C
<1>8. ReachAll(C, t, n, ci2)
  BY <1>1, <1>5, <1>6, <1>7, ReachBelow
<1> QED BY <1>8 DEF C

-----------------------------------------------------------------------------
(* Calm, when one thread changes and activations are left or begin *)

Shortens(T, C, T2, C2, u) ==
  /\ IsTh(T2) /\ Others(T, T2, u) /\ PrefixOf(C2, C)
  /\ \A t \in ChainOf(C) : t = u \/ t \in ChainOf(C2)

LEMMA SameActs ==
  ASSUME NEW T, NEW C, Core(T, C), ActLevels(T, C), NEW T2, NEW C2, PrefixOf(C2, C),
         \A t \in Threads : T2[t].ci = T[t].ci
  PROVE  ActLevels(T2, C2)
<1> SUFFICES ASSUME NEW i \in 1 .. Len(C2)
             PROVE  ActLevel(T2[C2[i].t].ci, C2[i], C2[i - 1])
  BY DEF ActLevels
<1>1. C \in Seq(Activation) /\ Stack(T, C) /\ C2 \in Seq(Activation)
  BY DEF Core, Types, PrefixOf
<1>2. i \in 1 .. Len(C) /\ C2[i] = C[i] /\ C[i].t \in Threads
  BY <1>1, ActivationsFields DEF PrefixOf
<1>3. ActLevel(T2[C[i].t].ci, C[i], C[i - 1]) /\ Good(T, C, i)
  <2>1. ActLevel(T[C[i].t].ci, C[i], C[i - 1]) /\ Good(T, C, i)
    BY <1>1, <1>2 DEF ActLevels, Stack
  <2> QED BY <1>2, <2>1
<1>4. CASE i > 1
  <2>1. C2[i - 1] = C[i - 1]
    BY <1>2, <1>4 DEF PrefixOf
  <2> QED BY <1>2, <1>3, <2>1
<1>5. CASE i = 1
  <2>1. C[i].k = "prot"
    BY <1>3, <1>5 DEF Good, First, BlockStarts
  <2> QED BY <1>2, <1>3, <2>1 DEF ActLevel, CallLevel, ProtLevel, CloseLevel
<1> QED BY <1>4, <1>5

LEMMA CalmSame ==
  ASSUME NEW T, NEW C, Core(T, C), Calm(T, C), NEW T2, NEW C2, NEW u \in Threads,
         Shortens(T, C, T2, C2, u), T2[u].ci = T[u].ci, Tidy(T2),
         u \in ChainOf(C2) \/ Left(T2[u])
  PROVE  Calm(T2, C2)
<1>1. Tidy(T) /\ Levels(T) /\ ActLevels(T, C) /\ Leftovers(T, C)
  BY DEF Calm
<1>2. Others(T, T2, u) /\ PrefixOf(C2, C)
      /\ \A t \in ChainOf(C) : t = u \/ t \in ChainOf(C2)
  BY DEF Shortens
<1>3. \A t \in Threads : T2[t].ci = T[t].ci
  BY <1>2 DEF Others
<1>4. Levels(T2)
  BY <1>1, <1>3 DEF Levels
<1>5. ActLevels(T2, C2)
  BY <1>1, <1>2, <1>3, SameActs
<1>6. Leftovers(T2, C2)
  BY <1>1, <1>2, LeftKept
<1> QED BY <1>4, <1>5, <1>6 DEF Calm

LEMMA CalmKept ==
  ASSUME NEW T, NEW C, Core(T, C), Calm(T, C), NEW T2, NEW C2, NEW u \in Threads,
         Shortens(T, C, T2, C2, u), Tidy(T2), CILevels(T2[u].ci),
         u \in ChainOf(C2) \/ Left(T2[u]),
         NEW d, u \in ChainOf(C2) => SameUpTo(T[u].ci, T2[u].ci, d)
                                     /\ ReachAll(C2, u, d, T2[u].ci)
  PROVE  Calm(T2, C2)
<1>1. Tidy(T) /\ Levels(T) /\ ActLevels(T, C) /\ Leftovers(T, C)
  BY DEF Calm
<1>2. IsTh(T2) /\ Others(T, T2, u) /\ PrefixOf(C2, C)
      /\ \A t \in ChainOf(C) : t = u \/ t \in ChainOf(C2)
  BY DEF Shortens
<1>4. Levels(T2)
  BY <1>1, <1>2, LevelsKept
<1>5. ActLevels(T2, C2)
  BY <1>1, <1>2, ActsKept
<1>6. Leftovers(T2, C2)
  BY <1>1, <1>2, LeftKept
<1> QED BY <1>4, <1>5, <1>6 DEF Calm

\* an activation begins
LEMMA ChainPush ==
  ASSUME NEW C \in Seq(Activation), NEW a
  PROVE  ChainOf(Append(C, a)) = ChainOf(C) \cup {a.t}
<1> DEFINE C2 == Append(C, a)
           n  == Len(C)
<1>1. n \in Nat /\ Len(C2) = n + 1 /\ C2[n + 1] = a /\ \A j \in 1 .. n : C2[j] = C[j]
  OBVIOUS
<1> HIDE DEF C2
<1>2. 1 .. n + 1 = (1 .. n) \cup {n + 1}
  BY <1>1
<1>3. ChainOf(C2) = ChainOf(C) \cup {a.t}
  BY <1>1, <1>2 DEF ChainOf
<1> QED BY <1>3 DEF C2

LEMMA CalmPush ==
  ASSUME NEW T, NEW C \in Seq(Activation), Calm(T, C), NEW a \in Activation, NEW b,
         Len(C) > 0 => b = C[Len(C)] /\ C[1].k = "prot", Len(C) = 0 => a.k = "prot",
         ActLevel(T[a.t].ci, a, b)
  PROVE  Calm(T, Append(C, a))
<1>1. Tidy(T) /\ Levels(T) /\ ActLevels(T, C) /\ Leftovers(T, C)
  BY DEF Calm
<1>4. ActLevels(T, Append(C, a))
  BY <1>1, ActLevelsPush
<1>5. ChainOf(Append(C, a)) = ChainOf(C) \cup {a.t}
  BY ChainPush
<1>6. Leftovers(T, Append(C, a))
  BY <1>1, <1>5 DEF Leftovers
<1> QED BY <1>1, <1>4, <1>6 DEF Calm

LEMMA NoReturn ==
  ASSUME NEW T, NEW C, Calm(T, C), NEW md, md # "return"
  PROVE  Inv2(T, C, md)
  BY DEF Inv2, Returns

LEMMA WholePrefix ==
  ASSUME NEW T, NEW C, Core(T, C), NEW T2, IsTh(T2), NEW u, Others(T, T2, u)
  PROVE  Shortens(T, C, T2, C, u)
<1>1. C \in Seq(Activation)
  BY DEF Core, Types
<1>2. PrefixOf(C, C)
  BY <1>1 DEF PrefixOf
<1> QED BY <1>2 DEF Shortens

\* nothing that matters to the lists changes
LEMMA TidySame ==
  ASSUME NEW T, IsTh(T), Tidy(T), NEW T2, NEW u \in Threads, Moves(T, T2, u),
         T2[u].ci = T[u].ci, T2[u].status = T[u].status
  PROVE  Tidy(T2)
<1>1. AllKept(T[u], T2[u])
  BY DEF AllKept, Kept
<1>2. T2[u].status = "YIELD" \/ T[u].status # "YIELD"
  BY SMTT(20)
<1> QED BY <1>1, <1>2, TidyKept

LEMMA CcallCalm ==
  ASSUME NEW m, NEW t, NEW inc, Begins(m, t, inc), Calm(m.th, m.cs), NEW b, NEW n,
         TopIs(m, t, b, n), NEW of \in Variables \cup {None}, NotPending(m.th, of),
         CallLow(m.th[t].ci, b, n, Len(m.th[t].tbclist))
  PROVE  Inv2M(Ccall(m, t, inc, of))
<1> DEFINE T  == m.th
           C  == m.cs
           ci == T[t].ci
           x  == Len(T[t].tbclist)
           m2 == Ccall(m, t, inc, of)
           T2 == m2.th
           f  == CallFrame(T[t], of)
           a  == CallAct(T[t], t, inc)
<1>b. /\ IsM(m) /\ Core(m.th, m.cs) /\ inc \in {"none", "yieldable", "nyci"}
      /\ CallReady(m.th, m.cs, inc)
  BY DEF Begins
<1>1. t \in Threads /\ n \in Nat /\ b \in Activation /\ t \in ChainOf(C) /\ Len(C) > 0
      /\ b = C[Len(C)] /\ b.t = t /\ ci \in Seq(CallInfo) /\ n = Len(ci)
  <2>1. Len(C) > 0 /\ b = C[Len(C)] /\ b.t = t /\ n = Len(ci)
    BY DEF TopIs
  <2> QED BY SMTT(20), <1>b, <2>1, TopFacts
<1>2. IsTh(T) /\ T[t] \in LuaState /\ C \in Seq(Activation)
  BY <1>1, <1>b, MachineParts, ThreadFields DEF IsTh
<1>3. CallGives(m, m2, t, inc, of)
  BY <1>1, <1>b, CallGivesIt
<1>4. /\ f \in CallInfo /\ f.func = "lua" /\ f.of = of /\ f.op = None /\ f.level = x
  BY <1>2, CallFrameLevel
<1>5. a \in Activation /\ a.t = t /\ a.k = "call" /\ a.depth = n
  BY <1>1, <1>2, <1>b, CallActFields
<1>6. Moves(T, T2, t) /\ T2[t].status = T[t].status /\ IsTh(T2) /\ Others(T, T2, t)
  BY <1>3 DEF CallGives, Moves
<1>7. Tidy(T) /\ Levels(T)
  BY DEF Calm
<1>8. CILevels(ci)
  BY <1>1, <1>7 DEF Levels
<1>9. Shortens(T, C, T2, C, t)
  BY <1>6, <1>b, WholePrefix
<1> HIDE DEF T, C, m2, T2, f, a, ci, x
<1>10. CASE m2.mode = "ERR" /\ m2.cs = C /\ T2[t].ci = ci
  <2>1. Tidy(T2)
    BY <1>1, <1>2, <1>6, <1>7, <1>10, TidySame DEF ci
  <2>2. Core(T, C) /\ Calm(T, C)
    BY <1>b DEF T, C
  <2>3. Calm(T2, C)
    BY <1>1, <1>9, <1>10, <2>1, <2>2, CalmSame DEF ci
  <2>4. Inv2(T2, C, "ERR")
    BY <2>3, NoReturn
  <2> QED BY <1>10, <2>4 DEF Inv2M, T2, m2
<1>11. CASE m2.mode = "run" /\ m2.cs = Append(C, a) /\ T2[t].ci = Append(ci, f)
  <2>1. NotPending(T, f.of)
    BY <1>4 DEF T
  <2>2. Tidy(T2)
    <3>1. T2[t].ci = Append(T[t].ci, f) /\ f.func # "yield" /\ Tidy(T)
      BY <1>4, <1>7, <1>11 DEF ci
    <3>2. f.func # "yield" /\ T2[t].status = T[t].status /\ Moves(T, T2, t)
      BY <1>6, <3>1
    <3>3. t \in Threads /\ IsTh(T)
      BY <1>1, <1>2
    <3> QED BY <2>1, <3>1, <3>2, <3>3, TidyPush, Zenon
  <2>3. n > 0 /\ ci[n].ypcall /\ ci[n].recst = "OK" => f.level <= ci[n].level
    BY <1>4 DEF CallLow, ci, x, T
  <2>4. CILevels(Append(ci, f))
    BY <1>1, <1>4, <1>8, <2>3, LevelsPush
  <2>5. /\ SameUpTo(ci, Append(ci, f), n) /\ Len(Append(ci, f)) = n + 1
        /\ Append(ci, f)[n + 1] = f
        /\ n > 0 => Append(ci, f)[n] = ci[n]
    BY <1>1, PushedUpTo
  <2>6. Resumes(b) => n = 0 /\ x = 0
    <3>1. Resumes(b) => n = 0
      BY <1>1, <1>b DEF CallReady, Resumes, T, C, ci
    <3>2. Resumes(b) => x <= 0
      BY DEF CallLow, BaseLevel, Resumes, x, T
    <3>3. x \in Nat
      BY <1>1, <1>2, ThreadFields DEF IsTh, x
    <3> QED BY <3>1, <3>2, <3>3
  <2>7. Resumes(b) => Append(ci, f)[1].level = 0
    <3>1. Resumes(b) => Append(ci, f)[n + 1] = Append(ci, f)[1]
      BY <2>6
    <3> QED BY <1>4, <2>5, <2>6, <3>1
  <2>8. ReachAll(C, t, n, Append(ci, f))
    <3> DEFINE c2 == Append(ci, f)
    <3>1. Len(c2) = n + 1 /\ (Resumes(b) => c2[1].level = 0)
      BY <2>5, <2>7
    <3> HIDE DEF c2
    <3>2. ReachAll(m.cs, t, n, c2)
      BY <1>b, <3>1, ReachCall
    <3> QED BY <3>2 DEF c2, C
  <2>9. Core(T, C) /\ Calm(T, C)
    BY <1>b DEF T, C
  <2>10. Calm(T2, C)
    BY <1>1, <1>9, <1>11, <2>2, <2>4, <2>5, <2>8, <2>9, CalmKept DEF ci
  <2>11. ActLevel(T2[a.t].ci, a, b)
    <3>1. CallLevel(Append(ci, f), a, b)
      <4>1. Expected(Append(ci, f), a, b, x)
        <5>1. b.k = "prot" => x <= BaseLevel(b)
          BY DEF CallLow, x, T
        <5>2. Runs(b) /\ ci[n].func # "lua" => x <= ci[n].level
          BY DEF CallLow, x, T, ci
        <5>3. Runs(b) => n > 0
          <6>1. Runs(b) => n > b.depth
            BY <1>1, <1>b DEF CallReady, T, C, ci
          <6>2. b.depth \in Nat
            BY <1>1, ActivationFields
          <6> QED BY <1>1, <6>1, <6>2
        <5> QED BY <1>5, <2>5, <5>1, <5>2, <5>3 DEF Expected
      <4> QED BY <1>4, <1>5, <2>5, <4>1 DEF CallLevel
    <3> QED BY <1>5, <1>11, <3>1 DEF ActLevel, ProtLevel, CloseLevel
  <2>12. C[1].k = "prot"
    BY <1>1, <2>9, FirstProt
  <2>13. Calm(T2, Append(C, a))
    BY <1>1, <1>2, <1>5, <2>10, <2>11, <2>12, CalmPush
  <2>14. Inv2(T2, Append(C, a), "run")
    BY <2>13, NoReturn
  <2> QED BY <1>11, <2>14 DEF Inv2M, T2, m2
<1> QED BY <1>3, <1>10, <1>11 DEF CallGives, T, C, m2, T2, f, a, ci

-----------------------------------------------------------------------------
(* The program *)

LEMMA NoneNotPending ==
  ASSUME NEW T, IsTh(T)
  PROVE  NotPending(T, None)
<1> SUFFICES ASSUME NEW w \in Threads, NEW j \in 1 .. Len(T[w].tbclist)
             PROVE  T[w].tbclist[j] # None
  BY DEF NotPending
<1> QED BY NoneIsNone

LEMMA LuaReach ==
  ASSUME NEW m, NEW t, NEW b, NEW n, LuaTop(m, t, b, n), NEW ci2
  PROVE  ReachAll(m.cs, t, n, ci2)
<1> DEFINE C == m.cs
           T == m.th
<1>1. TopIs(m, t, b, n) /\ Runs(b) /\ Core(T, C) /\ n \in Nat /\ n > 0 /\ n > b.depth
      /\ b.depth \in Nat /\ C \in Seq(Activation)
  BY SMTT(20), LuaReady
<1>2. Len(C) > 0 /\ b = C[Len(C)] /\ t = b.t
  BY <1>1 DEF TopIs
<1>3. Reach(b, n, ci2)
  <2>1. ~Resumes(b)
    BY <1>1 DEF Runs, Resumes
  <2>2. b.depth <= n /\ b.depth < n
    BY <1>1
  <2> QED BY <2>1, <2>2 DEF Reach
<1>4. PrefixOf(C, C)
  BY <1>1 DEF PrefixOf
<1> HIDE DEF C, T
<1>5. ReachAll(C, t, n, ci2)
  BY <1>1, <1>2, <1>3, <1>4, ReachBelow
<1> QED BY <1>5 DEF C

\* no call below the current Lua function is a pcall with a continuation
LEMMA LuaNoYpcall ==
  ASSUME NEW m, NEW t, NEW b, NEW n, LuaTop(m, t, b, n)
  PROVE  ~m.th[t].ci[n].ypcall
<1>1. IsM(m) /\ InvM(m) /\ TopIs(m, t, b, n) /\ n \in Nat /\ n > 0 /\ m.th[t].ci[n].func = "lua"
  BY LuaReady
<1>2. FramesOK(m.th[t].ci, Acts(m.cs, t)) /\ n = Len(m.th[t].ci)
  BY Zenon, <1>1, TopReady DEF TopIs
<1>3. OldHandlers(m.th[t].ci) /\ n \in 1 .. Len(m.th[t].ci)
  BY <1>1, <1>2 DEF FramesOK
<1>4. m.th[t].ci[n].ypcall => m.th[t].ci[n].func = "pcall"
  BY <1>3, Zenon DEF OldHandlers
<1> QED BY <1>1, <1>4

\* a function is called without ccall
LEMMA FrameCalm ==
  ASSUME NEW m, NEW t, NEW b, NEW n, LuaTop(m, t, b, n), Calm(m.th, m.cs),
         NEW f \in CallInfo, f.of = None, f.op = None, f.func # "yield",
         NEW m2, m2.cs = m.cs, Moves(m.th, m2.th, t),
         m2.th[t].ci = Append(m.th[t].ci, f), m2.th[t].status = m.th[t].status
  PROVE  Calm(m2.th, m2.cs)
<1> DEFINE T  == m.th
           C  == m.cs
           T2 == m2.th
           ci == T[t].ci
<1>1. /\ Core(T, C) /\ n \in Nat /\ t \in Threads /\ t \in ChainOf(C) /\ ci \in Seq(CallInfo)
      /\ IsTh(T) /\ TopIs(m, t, b, n)
  BY LuaReady
<1>2. n = Len(ci) /\ ~ci[n].ypcall
  BY Zenon, <1>1, LuaNoYpcall DEF TopIs
<1>3. ReachAll(C, t, n, Append(ci, f))
  <2> DEFINE c2 == Append(ci, f)
  <2> HIDE DEF c2
  <2>1. ReachAll(m.cs, t, n, c2)
    BY LuaReach
  <2> QED BY <2>1 DEF c2
<1>4. Tidy(T) /\ CILevels(ci)
  BY <1>1 DEF Calm, Levels
<1>5. NotPending(T, f.of) /\ f.func # "yield" /\ T2[t].status = T[t].status /\ Moves(T, T2, t)
      /\ T2[t].ci = Append(T[t].ci, f)
  <2>1. NotPending(T, None)
    BY <1>1, NoneNotPending
  <2> QED BY <2>1
<1>6. Calm(T, C)
  OBVIOUS
<1> HIDE DEF T, C, T2
<1>7. Tidy(T2)
  BY <1>1, <1>4, <1>5, TidyPush
<1>8. IsTh(T2) /\ Others(T, T2, t)
  BY <1>5 DEF Moves
<1>9. Shortens(T, C, T2, C, t)
  BY <1>1, <1>8, WholePrefix
<1>10. T2[t].ci = Append(ci, f)
  BY <1>5
<1> HIDE DEF ci
<1>11. CILevels(Append(ci, f))
  BY <1>1, <1>2, <1>4, LevelsPush
<1>12. SameUpTo(ci, Append(ci, f), n)
  BY <1>1, <1>2, PushedUpTo
<1>13. Calm(T2, C)
  BY <1>1, <1>3, <1>6, <1>7, <1>9, <1>10, <1>11, <1>12, CalmKept DEF ci
<1> QED BY <1>13 DEF T2, C

LEMMA FrameRest ==
  ASSUME NEW func, NEW level
  PROVE  Frame(func, level).of = None /\ Frame(func, level).op = None
  BY DEF Frame

LEMMA OnlyMoves ==
  ASSUME NEW m, NEW m2, NEW t, OnlyCI(m, m2, t) \/ OnlyCounters(m, m2, t)
  PROVE  /\ Moves(m.th, m2.th, t) /\ m2.th[t].status = m.th[t].status
         /\ m2.cs = m.cs /\ m2.mode = m.mode /\ IsM(m2)
<1>1. IsM(m2) /\ Others(m.th, m2.th, t) /\ m2.cs = m.cs /\ m2.mode = m.mode
      /\ m2.th[t].status = m.th[t].status /\ m2.th[t].tbclist = m.th[t].tbclist
  BY DEF OnlyCI, OnlyCounters
<1>2. IsTh(m2.th)
  BY <1>1, MachineParts
<1> QED BY <1>1, <1>2 DEF Moves

LEMMA PushCalm ==
  ASSUME NEW m, NEW t, NEW b, NEW n, LuaTop(m, t, b, n), Calm(m.th, m.cs),
         NEW f \in CallInfo, f.of = None, f.op = None, f.func # "yield"
  PROVE  Calm(PushCI(m, t, f).th, PushCI(m, t, f).cs)
<1> DEFINE m2 == PushCI(m, t, f)
<1>1. IsM(m) /\ t \in Threads
  BY LuaReady
<1>2. OnlyCI(m, m2, t) /\ m2.th[t].ci = Append(m.th[t].ci, f)
  BY <1>1, PushCIFacts
<1> HIDE DEF m2
<1>3. Moves(m.th, m2.th, t) /\ m2.th[t].status = m.th[t].status /\ m2.cs = m.cs
  BY <1>2, OnlyMoves
<1>4. Calm(m2.th, m2.cs)
  BY <1>2, <1>3, FrameCalm
<1> QED BY <1>4 DEF m2

LEMMA PushedFrame ==
  ASSUME NEW func \in {"lua"} \cup CFunctions, NEW level \in Nat, NEW f, f = Frame(func, level)
  PROVE  f \in CallInfo /\ f.func = func /\ f.func # "yield" /\ f.of = None /\ f.op = None
         /\ f.level = level
<1>1. func \in {"lua", "yield"} \cup CFunctions /\ func # "yield"
  BY DEF CFunctions
<1>2. f \in CallInfo /\ f.func = func /\ f.level = level
  BY <1>1, FrameFields
<1> QED BY <1>1, <1>2, FrameRest

LEMMA LuaCalledCalm ==
  ASSUME NEW m, NEW t, NEW b, NEW n, LuaTop(m, t, b, n), Calm(m.th, m.cs), NEW level \in Nat
  PROVE  Inv2M(PushCI(m, t, Frame("lua", level)))
<1> DEFINE f  == Frame("lua", level)
           m2 == PushCI(m, t, f)
<1>1. f \in CallInfo /\ f.of = None /\ f.op = None /\ f.func # "yield"
  BY PushedFrame
<1>2. IsM(m) /\ t \in Threads /\ m.mode = "run"
  BY LuaReady
<1> HIDE DEF f
<1>3. Calm(m2.th, m2.cs)
  BY <1>1, PushCalm
<1>4. m2.mode = "run"
  <2>1. OnlyCI(m, m2, t)
    BY <1>1, <1>2, PushCIFacts
  <2> QED BY <1>2, <2>1 DEF OnlyCI
<1>5. Inv2(m2.th, m2.cs, m2.mode)
  <2> HIDE DEF m2
  <2> QED BY <1>3, <1>4, NoReturn
<1> QED BY <1>5 DEF Inv2M, m2, f

\* a Lua function calls a metamethod
LEMMA LuaBegins ==
  ASSUME NEW m, NEW t, NEW b, NEW n, LuaTop(m, t, b, n)
  PROVE  /\ Begins(m, t, "yieldable") /\ TopIs(m, t, b, n)
         /\ NotPending(m.th, None) /\ CallLow(m.th[t].ci, b, n, Len(m.th[t].tbclist))
<1>1. /\ IsM(m) /\ Core(m.th, m.cs) /\ Live(m.th, m.cs) /\ TopIs(m, t, b, n) /\ Runs(b)
      /\ n > b.depth /\ m.th[t].status = "OK" /\ m.th[t].ci[n].func = "lua" /\ IsTh(m.th)
  BY LuaReady
<1>2. CallReady(m.th, m.cs, "yieldable")
  <2>1. Continues(m.th[t].ci[n])
    BY <1>1 DEF Continues
  <2> QED BY <1>1, <2>1, RunsReady
<1>3. t = m.cs[Len(m.cs)].t
  BY Zenon, <1>1 DEF TopIs
<1>4. ~m.th[t].ci[n].ypcall
  BY LuaNoYpcall
<1>5. CallLow(m.th[t].ci, b, n, Len(m.th[t].tbclist))
  BY <1>1, <1>4 DEF CallLow, Runs
<1> QED BY Zenon, <1>1, <1>2, <1>3, <1>5, NoneNotPending DEF Begins

LEMMA MetamethodCalm ==
  ASSUME NEW m, NEW t, NEW b, NEW n, LuaTop(m, t, b, n), Calm(m.th, m.cs)
  PROVE  Inv2M(Ccall(m, t, "yieldable", None))
<1>1. Begins(m, t, "yieldable") /\ TopIs(m, t, b, n) /\ NotPending(m.th, None)
      /\ CallLow(m.th[t].ci, b, n, Len(m.th[t].tbclist))
  BY LuaBegins
<1> QED BY <1>1, CcallCalm

\* a C function calls back
LEMMA BackCalm ==
  ASSUME NEW m, NEW t, NEW b, NEW n, NEW m2, NEW f, Called1(m, m2, t, b, n, f),
         Calm(m2.th, m2.cs), f.level = Len(m2.th[t].tbclist), f.level \in Nat, NEW inc,
         \/ inc = "nyci" /\ f.func = "call"
         \/ inc = "yieldable" /\ Continues(f)
  PROVE  Inv2M(Ccall(m2, t, inc, None))
<1>1. /\ IsM(m2) /\ Core(m2.th, m2.cs) /\ Live(m2.th, m2.cs) /\ TopIs(m2, t, b, n + 1) /\ Runs(b)
      /\ m2.th[t].ci[n + 1] = f /\ m2.th[t].status = "OK" /\ n + 1 > b.depth
  BY DEF Called1
<1>2. t = m2.cs[Len(m2.cs)].t /\ IsTh(m2.th)
  BY <1>1, MachineParts DEF TopIs
<1>3. CallReady(m2.th, m2.cs, inc)
  <2> DEFINE k == n + 1
  <2>1. TopIs(m2, t, b, k) /\ k > b.depth /\ m2.th[t].ci[k] = f
    BY <1>1
  <2> HIDE DEF k
  <2> QED BY <1>1, <2>1, RunsReady
<1>4. Begins(m2, t, inc)
  BY <1>1, <1>2, <1>3 DEF Begins
<1>5. CallLow(m2.th[t].ci, b, n + 1, Len(m2.th[t].tbclist))
  BY <1>1 DEF CallLow, Runs
<1>6. NotPending(m2.th, None)
  BY <1>2, NoneNotPending
<1> DEFINE k == n + 1
<1>7. TopIs(m2, t, b, k) /\ CallLow(m2.th[t].ci, b, k, Len(m2.th[t].tbclist))
  BY <1>1, <1>5
<1> HIDE DEF k
<1> QED BY <1>4, <1>6, <1>7, CcallCalm

LEMMA CallbackCalm ==
  ASSUME NEW m, NEW t, NEW b, NEW n, LuaTop(m, t, b, n), Calm(m.th, m.cs), NEW level \in Nat,
         level = Len(m.th[t].tbclist)
  PROVE  Inv2M(Ccall(PushCI(m, t, Frame("call", level)), t, "nyci", None))
<1> DEFINE f  == Frame("call", level)
           m2 == PushCI(m, t, f)
<1>1. f \in CallInfo /\ f.of = None /\ f.op = None /\ f.func # "yield" /\ f.func = "call"
      /\ f.level = level
  BY PushedFrame DEF CFunctions
<1>2. Called1(m, m2, t, b, n, f)
  BY CPushed DEF CFunctions
<1>3. IsM(m) /\ t \in Threads
  BY LuaReady
<1> HIDE DEF f
<1>4. Calm(m2.th, m2.cs)
  BY <1>1, PushCalm
<1>5. m2.th[t].tbclist = m.th[t].tbclist
  BY <1>1, <1>3, PushCIFacts DEF OnlyCI
<1> HIDE DEF m2
<1>6. Inv2M(Ccall(m2, t, "nyci", None))
  BY <1>1, <1>2, <1>4, <1>5, BackCalm
<1> QED BY <1>6 DEF m2, f

\* a pcall's CallInfo
LEMMA PcallFramed ==
  ASSUME NEW m, NEW t, NEW b, NEW n, LuaTop(m, t, b, n), Calm(m.th, m.cs),
         NEW f \in CallInfo, f.func = "pcall", f.of = None, f.op = None,
         NEW m2, m2 = SetErr(PushCI(m, t, f), t, n + 1)
  PROVE  /\ Calm(m2.th, m2.cs) /\ IsM(m2) /\ m2.mode = m.mode /\ m2.cs = m.cs
         /\ m2.th[t].tbclist = m.th[t].tbclist /\ m2.th[t].ci = Append(m.th[t].ci, f)
<1> DEFINE m1 == PushCI(m, t, f)
<1>1. IsM(m) /\ t \in Threads /\ n + 1 \in Nat
  BY LuaReady
<1>2. OnlyCI(m, m1, t) /\ m1.th[t].ci = Append(m.th[t].ci, f)
  BY <1>1, PushCIFacts
<1> HIDE DEF m1
<1>3. IsM(m1)
  BY <1>2 DEF OnlyCI
<1>4. OnlyCI(m1, m2, t) /\ m2.th[t].ci = m1.th[t].ci
  BY SMTT(20), <1>1, <1>3, SetErrFacts DEF m1
<1>5. /\ Others(m.th, m2.th, t) /\ m2.th[t].tbclist = m.th[t].tbclist /\ IsM(m2)
      /\ m2.cs = m.cs /\ m2.mode = m.mode /\ m2.th[t].status = m.th[t].status
      /\ m2.th[t].ci = Append(m.th[t].ci, f)
  BY <1>2, <1>4 DEF OnlyCI, Others
<1>6. Moves(m.th, m2.th, t)
  BY <1>5, MachineParts DEF Moves
<1>7. Calm(m2.th, m2.cs)
  BY <1>5, <1>6, FrameCalm
<1> QED BY <1>5, <1>7

LEMMA PcallFrameRest ==
  ASSUME NEW level \in Nat, NEW e
  PROVE  LET f == PcallFrame(level, e)
         IN  f.of = None /\ f.op = None /\ f.level = level
  BY DEF PcallFrame, Frame

LEMMA PcallkCalm ==
  ASSUME NEW m, NEW t, NEW b, NEW n, LuaTop(m, t, b, n), m.th[t].nny = 0, Calm(m.th, m.cs),
         NEW level \in Nat, level = Len(m.th[t].tbclist)
  PROVE  Inv2M(Ccall(SetErr(PushCI(m, t, PcallFrame(level, m.th[t].errfunc)), t, n + 1),
                     t, "yieldable", None))
<1> DEFINE e  == m.th[t].errfunc
           f  == PcallFrame(level, e)
           m2 == SetErr(PushCI(m, t, f), t, n + 1)
<1>1. e \in Nat
  BY LuaReady DEF LuaState
<1>2. /\ f \in CallInfo /\ f.func = "pcall" /\ ~f.fresh /\ f.ypcall /\ f.old_errfunc = e
      /\ f.of = None /\ f.op = None /\ f.level = level
  BY <1>1, PcallFrameFields, PcallFrameRest
<1>3. \A a \in Acts(m.cs, t) : a.inc # "nyci"
  BY YieldFacts
<1> HIDE DEF f
<1>4. Called1(m, m2, t, b, n, f)
  BY <1>2, <1>3, PcallPushed DEF e
<1>5. Calm(m2.th, m2.cs) /\ m2.th[t].tbclist = m.th[t].tbclist
  BY <1>2, PcallFramed
<1> HIDE DEF m2
<1>6. Continues(f)
  BY <1>2 DEF Continues
<1>7. Inv2M(Ccall(m2, t, "yieldable", None))
  BY <1>2, <1>4, <1>5, <1>6, BackCalm
<1> QED BY <1>7 DEF m2, f, e

LEMMA ProtectLevel ==
  /\ \A m, t, use : Protect(m, t, use).level = Len(m.th[t].tbclist)
  /\ \A m, t, e : PcallProt(m, t, e).level = Len(m.th[t].tbclist)
  /\ \A m, t, level, then, e : ProtectClose(m, t, level, then, e).level = level
  BY DEF Protect, PcallProt, ProtectClose, NewLevel, Blank

LEMMA PcallCalm ==
  ASSUME NEW m, NEW t, NEW b, NEW n, LuaTop(m, t, b, n), Calm(m.th, m.cs),
         NEW level \in Nat, level = Len(m.th[t].tbclist)
  PROVE  LET m1 == PushCI(m, t, Frame("pcall", level))
         IN  Inv2M(Ccall(PushC(SetErr(m1, t, n + 1), PcallProt(m1, t, m.th[t].errfunc)),
                         t, "nyci", None))
<1> DEFINE e  == m.th[t].errfunc
           f  == Frame("pcall", level)
           m1 == PushCI(m, t, f)
           m2 == SetErr(m1, t, n + 1)
           p  == PcallProt(m1, t, e)
           m3 == PushC(m2, p)
           C  == m2.cs
           T  == m2.th
           k  == n + 1
<1>1. f \in CallInfo /\ f.of = None /\ f.op = None /\ f.func = "pcall" /\ f.level = level
  BY PushedFrame DEF CFunctions
<1>2. Begins(m3, t, "nyci")
  BY PcallBegins
<1>3. IsM(m) /\ t \in Threads /\ n \in Nat /\ e \in Nat /\ TopIs(m, t, b, n) /\ n + 1 \in Nat
      /\ m.th[t].ci \in Seq(CallInfo)
  <2>1. IsM(m) /\ t \in Threads /\ n \in Nat /\ TopIs(m, t, b, n) /\ m.th[t].ci \in Seq(CallInfo)
        /\ m.th[t] \in LuaState
    BY LuaReady
  <2> QED BY <2>1 DEF LuaState
<1> HIDE DEF f, e
<1>4. /\ Calm(T, C) /\ IsM(m2) /\ C = m.cs
      /\ T[t].tbclist = m.th[t].tbclist /\ T[t].ci = Append(m.th[t].ci, f)
  BY <1>1, PcallFramed
<1>5. IsM(m1) /\ m1.th[t].ci = Append(m.th[t].ci, f) /\ m1.th[t].tbclist = m.th[t].tbclist
  BY <1>1, <1>3, PushCIFacts DEF OnlyCI
<1>k. k = n + 1 /\ k > 0 /\ k \in Nat /\ k # 0
  BY <1>3
<1> HIDE DEF m1, m2, k
<1>6. Len(T[t].ci) = k /\ Len(m1.th[t].ci) = k /\ T[t].ci[k] = f
  <2>1. n = Len(m.th[t].ci)
    BY <1>3 DEF TopIs
  <2> QED BY SMTT(20), <1>1, <1>3, <1>4, <1>5, <1>k, <2>1
<1>7. /\ p \in Activation /\ p.k = "prot" /\ p.t = t /\ p.use = "pcall" /\ p.depth = k
      /\ p.level = level
  <2>1. /\ p \in Activation /\ p.k = "prot" /\ p.t = t /\ p.use = "pcall"
        /\ p.depth = Len(m1.th[t].ci)
    <3>1. IsM(m1) /\ t \in Threads /\ e \in Nat
      BY <1>3, <1>5
    <3> QED BY <3>1, PcallProtFields
  <2>2. p.level = Len(m1.th[t].tbclist)
    BY ProtectLevel
  <2> QED BY <1>5, <1>6, <2>1, <2>2
<1> HIDE DEF p
<1>8. m3.th = T /\ m3.cs = Append(C, p)
  BY <1>4, <1>7, PushCFacts
<1> HIDE DEF T, C
<1>9. C \in Seq(Activation) /\ (Len(C) > 0 => C[1].k = "prot")
  <2>1. Core(m.th, m.cs) /\ m.cs \in Seq(Activation)
    BY LuaReady
  <2>2. Len(m.cs) > 0 => m.cs[1].k = "prot"
    BY <2>1, FirstProt
  <2> QED BY <1>4, <2>1, <2>2
<1>10. ActLevel(T[p.t].ci, p, C[Len(C)])
  <2>1. ~Resumes(p)
    BY <1>7 DEF Resumes
  <2>2. p.level = T[t].ci[p.depth].level /\ p.depth # 0
    BY <1>1, <1>6, <1>7, <1>k
  <2> QED BY <1>7, <2>1, <2>2 DEF ActLevel, CallLevel, ProtLevel, CloseLevel
<1>11. Calm(T, Append(C, p))
  BY <1>4, <1>7, <1>9, <1>10, CalmPush
<1>12. Calm(m3.th, m3.cs)
  BY <1>8, <1>11
<1>13. TopIs(m3, t, p, k)
  <2>1. Len(Append(C, p)) > 0 /\ Append(C, p)[Len(Append(C, p))] = p
    BY <1>7, <1>9
  <2> QED BY <1>6, <1>7, <1>8, <2>1 DEF TopIs
<1>14. NotPending(m3.th, None)
  BY <1>2, MachineParts, NoneNotPending DEF Begins
<1>15. CallLow(m3.th[t].ci, p, k, Len(m3.th[t].tbclist))
  <2>1. m3.th[t].ci[k] = f /\ Len(m3.th[t].tbclist) = level
    BY <1>4, <1>6, <1>8
  <2>2. BaseLevel(p) = level /\ ~Runs(p)
    BY <1>7 DEF BaseLevel, Resumes, Runs
  <2> QED BY <1>1, <2>1, <2>2 DEF CallLow
<1> HIDE DEF m3
<1>16. Inv2M(Ccall(m3, t, "nyci", None))
  BY <1>2, <1>12, <1>13, <1>14, <1>15, CcallCalm
<1> QED BY <1>16 DEF m3, m2, m1, p, e, f

\* an instruction begins or ends to close variables
OpChanged(s, s2, n, op, upto) ==
  /\ s2 \in LuaState /\ Len(s2.ci) = Len(s.ci) /\ s2.tbclist = s.tbclist
  /\ s2.status = s.status /\ s2.ci[n].op = op /\ s2.ci[n].upto = upto
  /\ \A j \in 1 .. Len(s.ci) : s2.ci[j].of = s.ci[j].of /\ Same(s.ci[j], s2.ci[j])
  /\ \A j \in 1 .. Len(s.ci) :
       j # n => s2.ci[j].op = s.ci[j].op /\ s2.ci[j].upto = s.ci[j].upto

LEMMA SetOpFields ==
  ASSUME NEW s \in LuaState, NEW n \in 1 .. Len(s.ci), NEW op \in {None, "close", "return"},
         NEW upto \in Nat
  PROVE  OpChanged(s, SetOp(s, n, op, upto), n, op, upto)
<1> DEFINE ci == s.ci
           f  == [ci[n] EXCEPT !.op = op, !.upto = upto]
           c2 == [ci EXCEPT ![n] = f]
           s2 == [s EXCEPT !.ci = c2]
<1>1. ci \in Seq(CallInfo)
  BY DEF LuaState
<1>2. ci[n] \in CallInfo
  BY <1>1
<1>3. f \in CallInfo /\ f.op = op /\ f.upto = upto /\ f.of = ci[n].of /\ Same(ci[n], f)
  BY <1>2 DEF CallInfo, Same
<1> HIDE DEF f
<1>4. c2 \in Seq(CallInfo) /\ Len(c2) = Len(ci) /\ c2[n] = f
      /\ \A j \in 1 .. Len(ci) : j # n => c2[j] = ci[j]
  BY <1>1, <1>3
<1> HIDE DEF c2
<1>5. s2 \in LuaState /\ s2.ci = c2 /\ s2.tbclist = s.tbclist /\ s2.status = s.status
  BY <1>4 DEF LuaState
<1>6. \A j \in 1 .. Len(ci) : Same(ci[j], ci[j])
  BY DEF Same
<1>7. s2 = SetOp(s, n, op, upto)
  BY DEF c2, f, SetOp
<1> HIDE DEF s2, ci
<1>8. \A j \in 1 .. Len(ci) : c2[j].of = ci[j].of /\ Same(ci[j], c2[j])
  BY <1>3, <1>4, <1>6
<1>9. /\ s2 \in LuaState /\ Len(s2.ci) = Len(ci) /\ s2.tbclist = s.tbclist
      /\ s2.status = s.status /\ s2.ci[n].op = op /\ s2.ci[n].upto = upto
      /\ \A j \in 1 .. Len(ci) : s2.ci[j].of = ci[j].of /\ Same(ci[j], s2.ci[j])
      /\ \A j \in 1 .. Len(ci) : j # n => s2.ci[j].op = ci[j].op /\ s2.ci[j].upto = ci[j].upto
  BY <1>3, <1>4, <1>5, <1>8
<1>10. OpChanged(s, s2, n, op, upto)
  BY <1>9 DEF OpChanged, ci
<1> QED BY <1>7, <1>10

LEMMA OpCalm ==
  ASSUME NEW m, NEW t, NEW b, NEW n, LuaTop(m, t, b, n), Calm(m.th, m.cs),
         NEW op \in {None, "close", "return"}, NEW upto \in Nat,
         op = "return" => upto = m.th[t].ci[n].level
  PROVE  Inv2M(SetT(m, t, SetOp(m.th[t], n, op, upto)))
<1> DEFINE T  == m.th
           C  == m.cs
           s  == T[t]
           ci == s.ci
           s2 == SetOp(s, n, op, upto)
           m2 == SetT(m, t, s2)
           T2 == m2.th
<1>1. /\ IsM(m) /\ t \in Threads /\ n \in Nat /\ n > 0 /\ ci \in Seq(CallInfo) /\ s \in LuaState
      /\ Core(T, C) /\ IsTh(T) /\ t \in ChainOf(C) /\ m.mode = "run" /\ TopIs(m, t, b, n)
  BY LuaReady
<1>2. n = Len(ci)
  BY Zenon, <1>1 DEF TopIs
<1>3. n \in 1 .. Len(ci)
  BY <1>1, <1>2
<1>s. Len(s.ci) = n
  BY <1>2
<1>4. /\ s2 \in LuaState /\ Len(s2.ci) = n /\ s2.tbclist = s.tbclist
      /\ s2.status = s.status /\ s2.ci[n].op = op /\ s2.ci[n].upto = upto
      /\ \A j \in 1 .. n : s2.ci[j].of = ci[j].of /\ Same(ci[j], s2.ci[j])
      /\ \A j \in 1 .. n : j # n => s2.ci[j].op = ci[j].op /\ s2.ci[j].upto = ci[j].upto
  <2>1. s \in LuaState /\ n \in 1 .. Len(s.ci)
    BY <1>1, <1>3
  <2> HIDE DEF s
  <2>2. OpChanged(s, s2, n, op, upto)
    BY <2>1, SetOpFields
  <2> HIDE DEF s2
  <2> QED BY <1>s, <2>2 DEF OpChanged
<1> HIDE DEF s2
<1>5. IsM(m2) /\ m2.cs = C /\ m2.mode = "run" /\ T2[t] = s2 /\ Others(T, T2, t)
  BY <1>1, <1>4, SetTFacts
<1>6. ReachAll(C, t, n, T2[t].ci)
  <2> DEFINE c2 == T2[t].ci
  <2> HIDE DEF c2
  <2>1. ReachAll(m.cs, t, n, c2)
    BY LuaReach
  <2> QED BY <2>1 DEF c2
<1>7. Calm(T, C)
  OBVIOUS
<1> HIDE DEF m2
<1>8. IsTh(T2) /\ Moves(T, T2, t)
  BY <1>4, <1>5, MachineParts DEF Moves
<1> HIDE DEF T, C, s, ci, T2
<1>9. Tidy(T) /\ CILevels(ci)
  BY <1>1, <1>7 DEF Calm, Levels, s, ci
<1>10. Tidy(T2)
  <2>1. AllKept(T[t], T2[t])
    <3>1. \A j \in 1 .. n : s2.ci[j].of = ci[j].of /\ s2.ci[j].func = ci[j].func
      BY <1>4 DEF Same
    <3> QED BY <1>2, <1>4, <1>5, <3>1 DEF AllKept, Kept, s, ci
  <2>2. T2[t].status = "YIELD" \/ T[t].status # "YIELD"
    BY <1>4, <1>5 DEF s
  <2> QED BY <1>1, <1>8, <1>9, <2>1, <2>2, TidyKept
<1>11. CILevels(s2.ci)
  <2> DEFINE c2 == s2.ci
  <2>1. Len(c2) = n /\ \A j \in 1 .. n : Same(ci[j], c2[j])
    BY <1>4
  <2>2. ASSUME NEW j \in 1 .. n, c2[j].op = "return"
        PROVE  c2[j].upto = c2[j].level
    <3>1. c2[j].level = ci[j].level
      BY <2>1 DEF Same
    <3>2. CASE j = n
      BY <1>4, <2>2, <3>1, <3>2 DEF ci, s, T
    <3>3. CASE j # n
      <4>1. c2[j].op = ci[j].op /\ c2[j].upto = ci[j].upto
        BY <1>4, <3>3
      <4> QED BY <1>2, <1>9, <2>2, <3>1, <4>1 DEF CILevels
    <3> QED BY <3>2, <3>3
  <2>3. ASSUME NEW j \in 1 .. n, j > 1, c2[j - 1].ypcall, c2[j - 1].recst = "OK"
        PROVE  c2[j].level <= c2[j - 1].level
    <3>1. j - 1 \in 1 .. n
      BY <1>1, <2>3
    <3>2. Same(ci[j], c2[j]) /\ Same(ci[j - 1], c2[j - 1])
      BY <2>1, <3>1
    <3> QED BY <1>2, <1>9, <2>3, <3>2 DEF CILevels, Same
  <2> HIDE DEF c2
  <2>4. CILevels(c2)
    BY <2>1, <2>2, <2>3 DEF CILevels
  <2> QED BY <2>4 DEF c2
<1>12. SameUpTo(ci, s2.ci, n)
  BY <1>1, <1>2, <1>4 DEF SameUpTo
<1>13. Shortens(T, C, T2, C, t)
  BY <1>1, <1>5, <1>8, WholePrefix
<1>14. Calm(T2, C)
  BY <1>1, <1>5, <1>6, <1>7, <1>10, <1>11, <1>12, <1>13, CalmKept DEF ci, s
<1>15. Inv2(T2, C, "run")
  BY <1>14, NoReturn
<1> QED BY <1>5, <1>15 DEF Inv2M, m2, s2, s, T, T2, C

-----------------------------------------------------------------------------
(* CallInfos and activations are left *)

\* ci2 is what is left of ci; recst of the last CallInfo may have changed
LeftOf(ci, ci2) ==
  /\ Len(ci2) <= Len(ci)
  /\ \A j \in 1 .. Len(ci2) :
       /\ ci2[j].func = ci[j].func /\ ci2[j].of = ci[j].of /\ ci2[j].level = ci[j].level
       /\ ci2[j].ypcall = ci[j].ypcall /\ ci2[j].op = ci[j].op /\ ci2[j].upto = ci[j].upto
       /\ j < Len(ci2) => ci2[j].recst = ci[j].recst
NoYield(ci) == \A j \in 1 .. Len(ci) : ci[j].func # "yield"
Cuts(T, T2, u) ==
  /\ Moves(T, T2, u) /\ LeftOf(T[u].ci, T2[u].ci)
  /\ T2[u].status = "YIELD" \/ T[u].status # "YIELD" \/ NoYield(T2[u].ci)

LEMMA TidyCut ==
  ASSUME NEW T, IsTh(T), NEW T2, NEW u \in Threads, Tidy(T), Cuts(T, T2, u)
  PROVE  Tidy(T2)
<1>1. /\ Moves(T, T2, u) /\ Once(T) /\ Awake(T) /\ Others(T, T2, u) /\ IsTh(T2)
      /\ LeftOf(T[u].ci, T2[u].ci)
  BY DEF Cuts, Tidy, Moves
<1>2. T[u].ci \in Seq(CallInfo) /\ T2[u].ci \in Seq(CallInfo)
  BY <1>1, ThreadFields DEF IsTh
<1>3. \A j \in 1 .. Len(T2[u].ci) : /\ j \in 1 .. Len(T[u].ci)
                                    /\ T2[u].ci[j].func = T[u].ci[j].func
                                    /\ T2[u].ci[j].of = T[u].ci[j].of
  <2>1. Len(T2[u].ci) <= Len(T[u].ci) /\ Len(T2[u].ci) \in Nat /\ Len(T[u].ci) \in Nat
    BY <1>1, <1>2 DEF LeftOf
  <2> QED BY <1>1, <2>1 DEF LeftOf
<1>4. AllKept(T[u], T2[u])
  BY <1>3 DEF AllKept, Kept
<1>5. Once(T2)
  BY <1>1, <1>4, OnceKept
<1>6. ASSUME NEW t \in Threads, T2[t].status # "YIELD", NEW i \in 1 .. Len(T2[t].ci)
      PROVE  T2[t].ci[i].func # "yield"
  <2>1. CASE t # u
    BY <1>1, <1>6, <2>1 DEF Awake, Others
  <2>2. CASE t = u /\ NoYield(T2[u].ci)
    BY <1>6, <2>2 DEF NoYield
  <2>3. CASE t = u /\ T[u].status # "YIELD"
    BY <1>1, <1>3, <1>6, <2>3 DEF Awake
  <2> QED BY <1>6, <2>1, <2>2, <2>3 DEF Cuts
<1>7. Awake(T2)
  BY <1>6 DEF Awake
<1> QED BY <1>5, <1>7 DEF Tidy

LEMMA LevelsLeft ==
  ASSUME NEW ci \in Seq(CallInfo), NEW ci2 \in Seq(CallInfo), CILevels(ci), LeftOf(ci, ci2)
  PROVE  CILevels(ci2)
<1>1. Len(ci2) \in Nat /\ Len(ci) \in Nat /\ Len(ci2) <= Len(ci)
  BY DEF LeftOf
<1>2. ASSUME NEW j \in 1 .. Len(ci2), ci2[j].op = "return"
      PROVE  ci2[j].upto = ci2[j].level
  <2>1. j \in 1 .. Len(ci) /\ ci2[j].op = ci[j].op /\ ci2[j].upto = ci[j].upto
        /\ ci2[j].level = ci[j].level
    BY <1>1 DEF LeftOf
  <2> QED BY <1>2, <2>1 DEF CILevels
<1>3. ASSUME NEW j \in 1 .. Len(ci2), j > 1, ci2[j - 1].ypcall, ci2[j - 1].recst = "OK"
      PROVE  ci2[j].level <= ci2[j - 1].level
  <2>1. j \in 1 .. Len(ci) /\ j - 1 \in 1 .. Len(ci2) /\ j - 1 < Len(ci2)
    BY <1>1, <1>3
  <2>2. /\ ci2[j].level = ci[j].level /\ ci2[j - 1].level = ci[j - 1].level
        /\ ci2[j - 1].ypcall = ci[j - 1].ypcall /\ ci2[j - 1].recst = ci[j - 1].recst
    BY <2>1 DEF LeftOf
  <2>3. ci[j].level <= ci[j - 1].level
    BY <1>3, <2>1, <2>2 DEF CILevels
  <2> QED BY <2>2, <2>3
<1> QED BY <1>2, <1>3 DEF CILevels

LEMMA CutCalm ==
  ASSUME NEW T, NEW C, Core(T, C), Calm(T, C), NEW T2, NEW C2, NEW u \in Threads,
         Cuts(T, T2, u), PrefixOf(C2, C), \A i \in Len(C2) + 1 .. Len(C) : C[i].t = u,
         u \in ChainOf(C2) \/ Left(T2[u]),
         NEW d, u \in ChainOf(C2) => SameUpTo(T[u].ci, T2[u].ci, d)
                                     /\ ReachAll(C2, u, d, T2[u].ci)
  PROVE  Calm(T2, C2)
<1>1. IsTh(T) /\ Tidy(T) /\ CILevels(T[u].ci) /\ IsTh(T2) /\ Others(T, T2, u)
      /\ LeftOf(T[u].ci, T2[u].ci)
  BY DEF Calm, Core, Types, IsTh, Levels, Cuts, Moves
<1>2. Tidy(T2)
  BY <1>1, TidyCut
<1>3. T[u].ci \in Seq(CallInfo) /\ T2[u].ci \in Seq(CallInfo)
  BY <1>1, ThreadFields DEF IsTh
<1>4. CILevels(T2[u].ci)
  <2> DEFINE ci == T[u].ci
             ci2 == T2[u].ci
  <2>1. ci \in Seq(CallInfo) /\ ci2 \in Seq(CallInfo) /\ CILevels(ci) /\ LeftOf(ci, ci2)
    BY <1>1, <1>3
  <2> HIDE DEF ci, ci2
  <2>2. CILevels(ci2)
    BY <2>1, LevelsLeft
  <2> QED BY <2>2 DEF ci2
<1>5. C \in Seq(Activation) /\ C2 \in Seq(Activation)
  BY DEF Core, Types, PrefixOf
<1>6. \A t \in ChainOf(C) : t = u \/ t \in ChainOf(C2)
  <2> SUFFICES ASSUME NEW i \in 1 .. Len(C)
               PROVE  C[i].t = u \/ C[i].t \in ChainOf(C2)
    BY DEF ChainOf
  <2>1. CASE i \in 1 .. Len(C2)
    BY <2>1 DEF ChainOf, PrefixOf
  <2>2. CASE i \notin 1 .. Len(C2)
    <3>1. i \in Len(C2) + 1 .. Len(C)
      BY <1>5, <2>2
    <3> QED BY <3>1
  <2> QED BY <2>1, <2>2
<1>7. Shortens(T, C, T2, C2, u)
  BY <1>1, <1>6 DEF Shortens
<1> QED BY <1>2, <1>4, <1>7, CalmKept

\* the activation on top of C2, in thread u, does not reach above n CallInfos
Stands(C2, u, n) ==
  u = C2[Len(C2)].t /\ (Resumes(C2[Len(C2)]) \/ C2[Len(C2)].depth <= n)

LEMMA ReachCut ==
  ASSUME NEW T, NEW C, Core(T, C), NEW C2, PrefixOf(C2, C), Len(C2) > 0, NEW u,
         NEW ci2 \in Seq(CallInfo), Stands(C2, u, Len(ci2))
  PROVE  ReachAll(C2, u, Len(ci2), ci2)
<1> DEFINE b == C2[Len(C2)]
           d == Len(ci2)
<1>1. d \in Nat /\ C2 \in Seq(Activation) /\ Len(C2) \in 1 .. Len(C2)
  BY DEF PrefixOf
<1>2. b \in Activation /\ b.depth \in Nat
  BY <1>1, ActivationsFields
<1>3. u = b.t /\ (Resumes(b) \/ b.depth <= d)
  BY DEF Stands
<1>4. d > 0 \/ Len(ci2) = 0
  BY <1>1
<1> HIDE DEF b
<1>5. Reach(b, d, ci2)
  BY <1>1, <1>2, <1>3, <1>4 DEF Reach
<1> HIDE DEF d
<1>6. ReachAll(C2, u, d, ci2)
  BY <1>1, <1>3, <1>4, <1>5, ReachBelow DEF b
<1> QED BY <1>6 DEF d

LEMMA LeaveCalm ==
  ASSUME NEW T, NEW C, Core(T, C), Calm(T, C), NEW T2, NEW C2, NEW u \in Threads,
         Cuts(T, T2, u), PrefixOf(C2, C), \A i \in Len(C2) + 1 .. Len(C) : C[i].t = u,
         u \in ChainOf(C2) \/ Left(T2[u]),
         SameUpTo(T[u].ci, T2[u].ci, Len(T2[u].ci)),
         u \in ChainOf(C2) => Stands(C2, u, Len(T2[u].ci))
  PROVE  Calm(T2, C2)
<1> DEFINE ci2 == T2[u].ci
           d   == Len(ci2)
<1>1. ci2 \in Seq(CallInfo)
  BY ThreadFields DEF Cuts, Moves, IsTh
<1>2. u \in ChainOf(C2) => Len(C2) > 0
  BY DEF ChainOf, PrefixOf
<1>3. SameUpTo(T[u].ci, ci2, d)
  OBVIOUS
<1>4. u \in ChainOf(C2) => ReachAll(C2, u, d, ci2)
  <2> HIDE DEF ci2
  <2> SUFFICES ASSUME u \in ChainOf(C2) PROVE ReachAll(C2, u, d, ci2)
    OBVIOUS
  <2>1. Stands(C2, u, Len(ci2))
    BY DEF ci2
  <2> QED BY <1>1, <1>2, <2>1, ReachCut
<1> HIDE DEF d
<1>5. u \in ChainOf(C2) => SameUpTo(T[u].ci, T2[u].ci, d) /\ ReachAll(C2, u, d, T2[u].ci)
  BY <1>3, <1>4
<1> QED BY <1>5, CutCalm

LEMMA TopStands ==
  ASSUME NEW m, IsM(m), InvM(m), NEW t, NEW b, NEW n, TopIs(m, t, b, n)
  PROVE  Stands(m.cs, t, n)
<1>1. /\ Core(m.th, m.cs) /\ OnTop(m.th[t].ci, b, Acts(m.cs, t), m.mode)
      /\ Good(m.th, m.cs, Len(m.cs))
  BY TopReady
<1>2. b \in Activation /\ b.depth \in Nat /\ n \in Nat /\ b = m.cs[Len(m.cs)] /\ b.t = t
      /\ n = Len(m.th[t].ci) /\ Len(m.cs) > 0
  <2>1. b \in Activation /\ b.depth \in Nat /\ n \in Nat
    BY TopFacts
  <2> QED BY <2>1 DEF TopIs
<1>3. Resumes(b) \/ b.depth <= n
  <2>1. CASE b.k \in {"close", "prot"}
    BY <1>1, <1>2, <2>1 DEF OnTop, Resumes
  <2>2. CASE b.k = "unroll"
    <3>1. b.depth = 0
      BY <1>1, <1>2, <2>2, UnrollAlone
    <3> QED BY <1>2, <3>1
  <2>3. CASE b.k = "call"
    <3>1. ~First(m.cs, Len(m.cs))
      BY <1>1, <1>2, <2>3 DEF Good, BlockStarts
    <3>2. Linked(m.th[t].ci, b, m.cs[Len(m.cs) - 1])
      BY <1>1, <3>1, BelowFacts
    <3> QED BY Zenon, <1>2, <2>3, <3>2 DEF Linked, LinkedCall
  <2>4. b.k \in {"call", "unroll", "close", "prot"}
    BY <1>2, ActivationFields
  <2> QED BY <2>1, <2>2, <2>3, <2>4
<1> QED BY <1>2, <1>3 DEF Stands

LEMMA StepCalm ==
  ASSUME NEW m, IsM(m), Core(m.th, m.cs), Calm(m.th, m.cs), NEW m2, IsM(m2), InvM(m2),
         NEW t \in Threads, Cuts(m.th, m2.th, t), PrefixOf(m2.cs, m.cs),
         \A i \in Len(m2.cs) + 1 .. Len(m.cs) : m.cs[i].t = t,
         SameUpTo(m.th[t].ci, m2.th[t].ci, Len(m2.th[t].ci)),
         NEW b, NEW n, TopIs(m2, t, b, n)
  PROVE  Calm(m2.th, m2.cs)
<1>1. Stands(m2.cs, t, n) /\ t \in ChainOf(m2.cs) /\ n = Len(m2.th[t].ci)
  <2>1. Stands(m2.cs, t, n)
    BY TopStands
  <2>2. t \in ChainOf(m2.cs)
    BY TopFacts
  <2> QED BY Zenon, <2>1, <2>2 DEF TopIs
<1> QED BY <1>1, LeaveCalm

LEMMA PrefixCuts ==
  ASSUME NEW T, IsTh(T), NEW T2, NEW u \in Threads, Moves(T, T2, u),
         Len(T2[u].ci) <= Len(T[u].ci), \A j \in 1 .. Len(T2[u].ci) : T2[u].ci[j] = T[u].ci[j],
         T2[u].status = T[u].status \/ T[u].status # "YIELD"
  PROVE  Cuts(T, T2, u) /\ SameUpTo(T[u].ci, T2[u].ci, Len(T2[u].ci))
<1>1. Len(T2[u].ci) \in Nat
  BY ThreadFields DEF Moves, IsTh
<1>2. LeftOf(T[u].ci, T2[u].ci)
  BY DEF LeftOf
<1>3. SameUpTo(T[u].ci, T2[u].ci, Len(T2[u].ci))
  BY <1>1 DEF SameUpTo, Same
<1> QED BY <1>2, <1>3 DEF Cuts

LEMMA FrontCuts ==
  ASSUME NEW T, IsTh(T), NEW T2, NEW u \in Threads, Moves(T, T2, u),
         \/ T2[u].ci = T[u].ci
         \/ Len(T[u].ci) > 0 /\ T2[u].ci = Front(T[u].ci),
         T2[u].status = T[u].status \/ T[u].status # "YIELD"
  PROVE  Cuts(T, T2, u) /\ SameUpTo(T[u].ci, T2[u].ci, Len(T2[u].ci))
<1> DEFINE ci == T[u].ci
<1>1. ci \in Seq(CallInfo) /\ Len(ci) \in Nat
  BY ThreadFields DEF IsTh
<1>2. T2[u].ci = ci \/ (Len(ci) > 0 /\ T2[u].ci = Front(ci))
  OBVIOUS
<1>3. Len(T2[u].ci) <= Len(ci) /\ \A j \in 1 .. Len(T2[u].ci) : T2[u].ci[j] = ci[j]
  <2> HIDE DEF ci
  <2>1. CASE T2[u].ci = ci
    BY <1>1, <2>1
  <2>2. CASE Len(ci) > 0 /\ T2[u].ci = Front(ci)
    BY <1>1, <2>2, FrontFacts
  <2> QED BY <1>2, <2>1, <2>2
<1> QED BY <1>3, PrefixCuts

\* the levels of the topmost activation and of the one below it
LEMMA TopLevels ==
  ASSUME NEW m, IsM(m), Calm(m.th, m.cs), NEW t, NEW b, NEW n, TopIs(m, t, b, n)
  PROVE  /\ ActLevel(m.th[t].ci, b, m.cs[Len(m.cs) - 1])
         /\ \A b2 : BelowIs(m, t, b, b2) => \E b3 : ActLevel(m.th[t].ci, b2, b3)
         /\ CILevels(m.th[t].ci)
<1>1. Len(m.cs) \in Nat /\ Len(m.cs) \in 1 .. Len(m.cs) /\ t \in Threads /\ b = m.cs[Len(m.cs)]
      /\ b.t = t
  <2>1. Len(m.cs) \in Nat /\ Len(m.cs) \in 1 .. Len(m.cs) /\ t \in Threads
    BY TopFacts
  <2> QED BY <2>1 DEF TopIs
<1>2. \A i \in 1 .. Len(m.cs) : ActLevel(m.th[m.cs[i].t].ci, m.cs[i], m.cs[i - 1])
  BY DEF Calm, ActLevels
<1>3. ActLevel(m.th[t].ci, b, m.cs[Len(m.cs) - 1])
  BY <1>1, <1>2
<1>4. ASSUME NEW b2, BelowIs(m, t, b, b2)
      PROVE  \E b3 : ActLevel(m.th[t].ci, b2, b3)
  <2>1. Len(m.cs) - 1 \in 1 .. Len(m.cs) /\ b2 = m.cs[Len(m.cs) - 1] /\ b2.t = t
    BY <1>1, <1>4 DEF BelowIs
  <2> QED BY <1>2, <2>1
<1>5. CILevels(m.th[t].ci)
  BY <1>1 DEF Calm, Levels
<1> QED BY <1>3, <1>4, <1>5

=============================================================================
