---------------------------- MODULE Calls_proofs ----------------------------
(***************************************************************************)
(* Theorems about calls, errors and coroutines, for every program, any     *)
(* number of threads and every value of the limits.                        *)
(*                                                                         *)
(* The invariant ties the CallInfo list of each thread to the C stack.     *)
(* Its parts are operators of the lua_States T and of the C stack C, and   *)
(* speak of an activation only together with those below it: a throw that  *)
(* leaves a part of the C stack leaves what is known of that part.         *)
(***************************************************************************)
EXTENDS Calls, SequenceTheorems, FiniteSetTheorems, WellFoundedInduction, TLAPS

-----------------------------------------------------------------------------
(* The invariant *)

Types(T, C) == T \in [Threads -> LuaState] /\ C \in Seq(Activation)

IsPcall(a) == a.k = "prot" /\ (a.use = "pcall" \/ (a.use = "closep" /\ a.then = "pcall"))
Runs(a)    == a.k \in {"call", "unroll"}
Resumes(a) == a.k = "prot" /\ a.use = "resume"

ChainOf(C) == {C[i].t : i \in 1 .. Len(C)}
Acts(C, t) == {a \in {C[i] : i \in 1 .. Len(C)} : a.t = t}

\* x is the last call of pcall among the first n CallInfos, or 0
IsInner(ci, n, x) ==
  /\ x \in 0 .. n
  /\ x # 0 => ci[x].func = "pcall"
  /\ \A j \in 1 .. n : ci[j].func = "pcall" => j <= x

\* what the counters of t are when the C stack has n activations
Nyci(C, t, n) == Cardinality({i \in 1 .. n : C[i].t = t /\ C[i].inc = "nyci"})
                 + (IF t = MainThread THEN 1 ELSE 0)
Cnt(C, n)     == Cardinality({i \in 1 .. n : Counts(C[i])})
CountedTo(T, C, i) ==
  T[C[i].t].nny = Nyci(C, C[i].t, i) /\ T[C[i].t].nCcalls = Cnt(C, i)

\* the activations of a thread lie together, ...
Together(C, i) == \A e \in 1 .. i : C[e].t = C[i].t => \A j \in e .. i : C[j].t = C[i].t
\* ... those higher in the C stack began with no fewer CallInfos, ...
Deeper(C, i) ==
  \A e \in 1 .. i - 1 : C[e].t = C[i].t /\ ~Resumes(C[e]) =>
    C[e].depth <= C[i].depth /\ (C[e].k = "call" => C[e].depth < C[i].depth)
\* ... and a protected call restores the right counters
Saved(C, i) ==
  C[i].k = "prot" => C[i].nny = Nyci(C, C[i].t, i) /\ C[i].nCcalls = Cnt(C, i)

First(C, i) == i = 1 \/ C[i - 1].t # C[i].t

\* the first activation of a thread: the embedder, or a C function of the
\* thread below, has called it
BlockStarts(T, C, i) ==
  LET a == C[i]
      b == C[i - 1]
  IN  /\ a.k = "prot"
      /\ i = 1 => \/ a.use = "resume" /\ a.t # MainThread
                  \/ a.t = MainThread /\ IsPcall(a) /\ a.depth = 0 /\ a.errfunc = 0
      /\ i > 1 => /\ a.t # MainThread /\ Runs(b) /\ Len(T[b.t].ci) > b.depth
                  /\ \/ a.use = "resume" /\ Last(T[b.t].ci).func \in {"resume", "wrap"}
                     \/ /\ a.use = "closep" /\ a.depth = 0 /\ a.then \in {"close", "wrap"}
                        /\ Last(T[b.t].ci).func = a.then

\* the others: what has called them, and from which CallInfo
LinkedProt(ci, a, b) ==
  a.k = "prot" => /\ IsPcall(a) /\ Runs(b) /\ a.depth \in 1 .. Len(ci)
                  /\ ci[a.depth].func = "pcall" /\ ~ci[a.depth].ypcall
                  /\ IsInner(ci, a.depth - 1, a.errfunc)
LinkedClose(ci, a, b) ==
  a.k = "close" =>
    /\ a.yy => /\ Runs(b) /\ a.depth \in 1 .. Len(ci)
               /\ \/ ci[a.depth].func = "lua"
                  \/ ci[a.depth].func = "pcall" /\ ci[a.depth].ypcall /\ b.k = "unroll"
    /\ ~a.yy => b.k = "prot" /\ b.use = "closep" /\ a.depth = b.depth
LinkedCall(ci, a, b) ==
  a.k = "call" =>
    /\ a.depth <= Len(ci)
    /\ b.k = "prot" => \/ b.use = "resume" /\ a.inc = "none" /\ a.depth = 0
                       \/ b.use = "pcall" /\ a.inc = "nyci" /\ a.depth = b.depth
    /\ b.k = "close" => a.depth = b.depth /\ a.inc = (IF b.yy THEN "yieldable" ELSE "nyci")
    /\ Runs(b) => /\ a.depth \in 1 .. Len(ci)
                  /\ \/ a.inc = "nyci" /\ ci[a.depth].func = "call"
                     \/ /\ a.inc = "yieldable"
                        /\ \/ ci[a.depth].func = "lua"
                           \/ ci[a.depth].func = "pcall" /\ ci[a.depth].ypcall
LinkedUnroll(a, b) == a.k = "unroll" => Resumes(b) /\ a.depth = 0
Linked(ci, a, b) ==
  LinkedProt(ci, a, b) /\ LinkedClose(ci, a, b) /\ LinkedCall(ci, a, b) /\ LinkedUnroll(a, b)

Good(T, C, i) ==
  /\ Together(C, i) /\ Deeper(C, i) /\ Saved(C, i)
  /\ First(C, i) => BlockStarts(T, C, i)
  /\ ~First(C, i) => Linked(T[C[i].t].ci, C[i], C[i - 1])
  /\ C[i].k # "call" => C[i].inc = "none"
Stack(T, C) == \A i \in 1 .. Len(C) : Good(T, C, i)

\* the CallInfos ci of a thread whose activations are the set A:
\* a fresh luaV_execute is one of ccall, ...
FreshOnes(ci, A) ==
  \A a \in A : a.k = "call" => \A j \in 1 .. Len(ci) : j > a.depth =>
    /\ j = a.depth + 1 => ci[j].fresh
    /\ ci[j].fresh => \E e \in A : e.k = "call" /\ e.depth = j - 1
\* ... and runs a Lua function; others are called from one
LuaBelow(ci) ==
  \A j \in 1 .. Len(ci) : IF ci[j].fresh THEN ci[j].func = "lua"
                                         ELSE j > 1 /\ ci[j - 1].func = "lua"
\* a C function that does not continue after a yield has an activation that
\* shows it, unless it is the last one
Owns(A, ci, j) ==
  \E a \in A : /\ a.depth = j
               /\ \/ ci[j].func = "call" /\ a.inc = "nyci"
                  \/ ci[j].func = "pcall" /\ IsPcall(a)
Owned(ci, A) ==
  \A j \in 1 .. Len(ci) : ~Continues(ci[j]) => j = Len(ci) \/ Owns(A, ci, j)
\* above an activation that forbids yields nothing waits for an error to be
\* found by precover
NoYpcall(ci, A) ==
  \A a \in A : a.inc = "nyci" => \A j \in 1 .. Len(ci) : j > a.depth => ~ci[j].ypcall
OldHandlers(ci) ==
  \A j \in 1 .. Len(ci) :
    ci[j].ypcall => ci[j].func = "pcall" /\ IsInner(ci, j - 1, ci[j].old_errfunc)
FramesOK(ci, A) ==
  FreshOnes(ci, A) /\ LuaBelow(ci) /\ Owned(ci, A) /\ NoYpcall(ci, A) /\ OldHandlers(ci)
Frames(T, C) ==
  \A t \in Threads : T[t].status # "ERR" =>
    FramesOK(T[t].ci, Acts(C, t)) /\ IsInner(T[t].ci, Len(T[t].ci), T[t].errfunc)

\* the status of each thread
Suspended(s) ==
  /\ Len(s.ci) > 0 /\ s.ci[Len(s.ci)].func = "yield"
  /\ \A j \in 1 .. Len(s.ci) - 1 : Continues(s.ci[j])
StatusOf(T, C, t) ==
  /\ t \in ChainOf(C) => /\ ~T[t].body
                         /\ T[t].status = "OK" \/ (T[t].status = "YIELD" /\ t = Last(C).t)
  /\ t \notin ChainOf(C) /\ T[t].status = "OK" => Len(T[t].ci) = 0
  /\ T[t].body => T[t].status = "OK"
  /\ T[t].status = "YIELD" => Suspended(T[t])
  /\ t = MainThread => T[t].status = "OK" /\ ~T[t].body
States(T, C) == \A t \in Threads : StatusOf(T, C, t)

\* the counters of the threads that wait
Waiting(T, C) ==
  /\ \A i \in 1 .. Len(C) - 1 : C[i + 1].t # C[i].t => CountedTo(T, C, i)
  /\ MainThread \notin ChainOf(C) => T[MainThread].nny = 1 /\ T[MainThread].nCcalls = 0

Core(T, C) == Types(T, C) /\ Stack(T, C) /\ Frames(T, C) /\ States(T, C) /\ Waiting(T, C)

\* ... and of the one that runs
Live(T, C) == Len(C) > 0 => CountedTo(T, C, Len(C))

\* the topmost activation and the last CallInfo of its thread
OnTop(ci, a, A, md) ==
  /\ a.k = "close" => Len(ci) = a.depth
  /\ a.k = "prot" => IF a.use = "resume" THEN Len(ci) = 0 ELSE Len(ci) = a.depth
  /\ md = "run" => /\ a.k # "prot"
                   /\ Runs(a) => Len(ci) > a.depth /\ ci[Len(ci)].func = "lua"
  /\ md = "return" => /\ a.k # "close"
                      /\ a.k = "prot" => a.use # "closep"
                      /\ a.k = "call" => Len(ci) = a.depth
                      /\ a.k = "unroll" /\ Len(ci) > 0 => Continues(ci[Len(ci)])
  /\ md = "YIELD" => Runs(a)
  /\ md = "ERR" /\ Len(ci) > 0 /\ ci[Len(ci)].func = "pcall" =>
       ci[Len(ci)].ypcall \/ Owns(A, ci, Len(ci))
TopOf(T, C, md) ==
  /\ Len(C) = 0 => md = "run"
  /\ Len(C) > 0 => LET t == C[Len(C)].t
                   IN  /\ OnTop(T[t].ci, C[Len(C)], Acts(C, t), md)
                       /\ md = "YIELD" <=> T[t].status = "YIELD"

Inv(T, C, md) ==
  /\ Core(T, C) /\ md \in {"run", "return", "ERR", "YIELD"} /\ TopOf(T, C, md)
  /\ md \in {"run", "return"} => Live(T, C)

-----------------------------------------------------------------------------
(* Fields *)

LEMMA ActivationFields ==
  ASSUME NEW a \in Activation
  PROVE  /\ a.t \in Threads /\ a.depth \in Nat /\ a.nny \in Nat /\ a.nCcalls \in Nat
         /\ a.errfunc \in Nat /\ a.level \in Nat
         /\ a.k \in {"call", "unroll", "close", "prot"}
         /\ a.use \in {None, "resume", "pcall", "closep"}
         /\ a.then \in {None, "pcall", "close", "wrap"}
         /\ a.inc \in {"none", "yieldable", "nyci"} /\ a.yy \in BOOLEAN
         /\ a.status \in {"OK", "ERR"}
  BY DEF Activation

LEMMA ActivationsFields ==
  ASSUME NEW C \in Seq(Activation), NEW i \in 1 .. Len(C)
  PROVE  C[i] \in Activation /\ C[i].t \in Threads /\ C[i].depth \in Nat
<1>1. C[i] \in Activation
  OBVIOUS
<1> QED BY <1>1, ActivationFields

LEMMA ThreadFields ==
  ASSUME NEW T \in [Threads -> LuaState], NEW t \in Threads
  PROVE  /\ T[t] \in LuaState
         /\ T[t].ci \in Seq(CallInfo) /\ Len(T[t].ci) \in Nat
         /\ T[t].tbclist \in Seq(Variables) /\ Len(T[t].tbclist) \in Nat
         /\ T[t].status \in {"OK", "YIELD", "ERR"}
         /\ T[t].nCcalls \in Nat /\ T[t].nny \in Nat /\ T[t].errfunc \in Nat
         /\ T[t].body \in BOOLEAN
<1>1. T[t] \in LuaState
  OBVIOUS
<1> QED BY <1>1 DEF LuaState

LEMMA CallInfoFields ==
  ASSUME NEW f \in CallInfo
  PROVE  /\ f.func \in {"lua", "yield"} \cup CFunctions /\ f.of \in Variables \cup {None}
         /\ f.level \in Nat /\ f.fresh \in BOOLEAN /\ f.op \in {None, "close", "return"}
         /\ f.upto \in Nat /\ f.ypcall \in BOOLEAN /\ f.recst \in {"OK", "ERR"}
         /\ f.old_errfunc \in Nat
  BY DEF CallInfo

-----------------------------------------------------------------------------
(* Counting, and the last of a set of positions *)

LEMMA FirstPosition ==
  ASSUME NEW I \in SUBSET Nat, I # {}
  PROVE  \E i \in I : \A j \in I : i <= j
<1> DEFINE R == {ss \in Nat \X Nat : ss[1] < ss[2]}
<1>1. IsWellFoundedOn(R, Nat)
  BY NatLessThanWellFounded, Zenon DEF OpToRel
<1>2. \E i \in I : \A j \in I : <<j, i>> \notin R
  <2> HIDE DEF R
  <2> QED BY <1>1, WFMin
<1>3. \A i, j \in I : <<j, i>> \notin R => i <= j
  OBVIOUS
<1> QED BY <1>2, <1>3

LEMMA LastPosition ==
  ASSUME NEW n \in Nat, NEW I \in SUBSET (1 .. n), I # {}
  PROVE  \E i \in I : \A j \in I : j <= i
<1> DEFINE J == {n - i : i \in I}
<1>1. \A i \in I : n - i \in Nat /\ n - i \in J
  OBVIOUS
<1>2. J \in SUBSET Nat /\ J # {}
  BY <1>1
<1>3. \E x \in J : \A y \in J : x <= y
  <2> HIDE DEF J
  <2> QED BY <1>2, FirstPosition
<1>4. PICK x \in J : \A y \in J : x <= y
  BY <1>3
<1>5. PICK i \in I : x = n - i
  OBVIOUS
<1>6. \A j \in I : j <= i
  <2> TAKE j \in I
  <2>1. x <= n - j
    BY <1>1, <1>4
  <2> QED BY <2>1, <1>5
<1> QED BY <1>6

LEMMA SameCounts ==
  ASSUME NEW C, NEW C2, NEW n, \A i \in 1 .. n : C2[i] = C[i]
  PROVE  Cnt(C2, n) = Cnt(C, n) /\ \A t : Nyci(C2, t, n) = Nyci(C, t, n)
<1>1. {i \in 1 .. n : Counts(C2[i])} = {i \in 1 .. n : Counts(C[i])}
  OBVIOUS
<1>2. ASSUME NEW t
      PROVE  {i \in 1 .. n : C2[i].t = t /\ C2[i].inc = "nyci"}
                = {i \in 1 .. n : C[i].t = t /\ C[i].inc = "nyci"}
  OBVIOUS
<1> QED BY <1>1, <1>2 DEF Cnt, Nyci

LEMMA SameCount ==
  ASSUME NEW C, NEW C2, NEW n, \A i \in 1 .. n : C2[i] = C[i]
  PROVE  Cnt(C2, n) = Cnt(C, n)
  BY SameCounts
LEMMA SameNyci ==
  ASSUME NEW C, NEW C2, NEW n, NEW t, \A i \in 1 .. n : C2[i] = C[i]
  PROVE  Nyci(C2, t, n) = Nyci(C, t, n)
  BY SameCounts

LEMMA CountedAlike ==
  ASSUME NEW T, NEW C, NEW T2, NEW C2, NEW i \in Nat, \A j \in 1 .. i : C2[j] = C[j], i > 0,
         T2[C[i].t].nny = T[C[i].t].nny, T2[C[i].t].nCcalls = T[C[i].t].nCcalls,
         CountedTo(T, C, i)
  PROVE  CountedTo(T2, C2, i)
<1>1. Cnt(C2, i) = Cnt(C, i) /\ Nyci(C2, C[i].t, i) = Nyci(C, C[i].t, i)
  BY SameCounts
<1>2. C2[i] = C[i]
  OBVIOUS
<1> QED BY <1>1, <1>2 DEF CountedTo

LEMMA OneMore ==
  ASSUME NEW C, NEW n \in Nat
  PROVE  /\ Cnt(C, n) \in Nat
         /\ Cnt(C, n + 1) = Cnt(C, n) + (IF Counts(C[n + 1]) THEN 1 ELSE 0)
         /\ \A t : /\ Nyci(C, t, n) \in Nat
                   /\ Nyci(C, t, n + 1) = Nyci(C, t, n)
                        + (IF C[n + 1].t = t /\ C[n + 1].inc = "nyci" THEN 1 ELSE 0)
<1>1. ASSUME NEW S, S \subseteq 1 .. n
      PROVE  /\ Cardinality(S) \in Nat
             /\ Cardinality(S \cup {n + 1}) = Cardinality(S) + 1
  <2>1. IsFiniteSet(1 .. n)
    BY FS_Interval
  <2>2. IsFiniteSet(S)
    BY <1>1, <2>1, FS_Subset
  <2>3. n + 1 \notin S
    BY <1>1
  <2> QED BY <2>2, <2>3, FS_AddElement, FS_CardinalityType
<1>2. Cnt(C, n) \in Nat
      /\ Cnt(C, n + 1) = Cnt(C, n) + (IF Counts(C[n + 1]) THEN 1 ELSE 0)
  <2> DEFINE S == {i \in 1 .. n : Counts(C[i])}
  <2>1. {i \in 1 .. n + 1 : Counts(C[i])} = IF Counts(C[n + 1]) THEN S \cup {n + 1} ELSE S
    OBVIOUS
  <2>2. S \subseteq 1 .. n
    OBVIOUS
  <2>3. Cnt(C, n) = Cardinality(S)
    BY DEF Cnt
  <2> HIDE DEF S
  <2>4. /\ Cardinality(S) \in Nat
        /\ Cardinality(S \cup {n + 1}) = Cardinality(S) + 1
    BY <1>1, <2>2
  <2> QED BY <2>1, <2>3, <2>4 DEF Cnt
<1>3. ASSUME NEW t
      PROVE  /\ Nyci(C, t, n) \in Nat
             /\ Nyci(C, t, n + 1) = Nyci(C, t, n)
                  + (IF C[n + 1].t = t /\ C[n + 1].inc = "nyci" THEN 1 ELSE 0)
  <2> DEFINE P(i) == C[i].t = t /\ C[i].inc = "nyci"
             S    == {i \in 1 .. n : P(i)}
  <2>1. {i \in 1 .. n + 1 : P(i)} = IF P(n + 1) THEN S \cup {n + 1} ELSE S
    OBVIOUS
  <2>2. S \subseteq 1 .. n
    OBVIOUS
  <2>3. Nyci(C, t, n) = Cardinality(S) + (IF t = MainThread THEN 1 ELSE 0)
    BY DEF Nyci
  <2>4. Nyci(C, t, n + 1) = Cardinality({i \in 1 .. n + 1 : P(i)})
                            + (IF t = MainThread THEN 1 ELSE 0)
    BY DEF Nyci
  <2>5. P(n + 1) <=> C[n + 1].t = t /\ C[n + 1].inc = "nyci"
    OBVIOUS
  <2> DEFINE k == IF t = MainThread THEN 1 ELSE 0
  <2>7. k \in Nat
    OBVIOUS
  <2> HIDE DEF S, P, k
  <2>6. /\ Cardinality(S) \in Nat
        /\ Cardinality(S \cup {n + 1}) = Cardinality(S) + 1
    BY <1>1, <2>2
  <2>8. Nyci(C, t, n) = Cardinality(S) + k
    BY <2>3 DEF k
  <2>9. Nyci(C, t, n + 1) = Cardinality(IF P(n + 1) THEN S \cup {n + 1} ELSE S) + k
    BY <2>1, <2>4 DEF k
  <2>10. CASE P(n + 1)
    BY <2>5, <2>6, <2>7, <2>8, <2>9, <2>10
  <2>11. CASE ~P(n + 1)
    BY <2>5, <2>6, <2>7, <2>8, <2>9, <2>11
  <2> QED BY <2>10, <2>11
<1> QED BY <1>2, <1>3

LEMMA OneMoreNyci ==
  ASSUME NEW C, NEW n \in Nat, NEW t
  PROVE  /\ Nyci(C, t, n) \in Nat
         /\ Nyci(C, t, n + 1) = Nyci(C, t, n)
              + (IF C[n + 1].t = t /\ C[n + 1].inc = "nyci" THEN 1 ELSE 0)
  BY OneMore

LEMMA NoneYet ==
  /\ \A C : Cnt(C, 0) = 0
  /\ \A C, t, n : (\A i \in 1 .. n : C[i].t # t) =>
       Nyci(C, t, n) = IF t = MainThread THEN 1 ELSE 0
<1>1. ASSUME NEW C
      PROVE  Cnt(C, 0) = 0
  <2>1. {i \in 1 .. 0 : Counts(C[i])} = {}
    OBVIOUS
  <2> QED BY <2>1, FS_EmptySet DEF Cnt
<1>2. ASSUME NEW C, NEW t, NEW n, \A i \in 1 .. n : C[i].t # t
      PROVE  Nyci(C, t, n) = IF t = MainThread THEN 1 ELSE 0
  <2>1. {i \in 1 .. n : C[i].t = t /\ C[i].inc = "nyci"} = {}
    BY <1>2
  <2> QED BY <2>1, FS_EmptySet DEF Nyci
<1> QED BY <1>1, <1>2

-----------------------------------------------------------------------------
(* The CallInfos of a thread *)

\* the first n CallInfos are as they were, as far as the invariant tells
Alike(ci, ci2, n) ==
  /\ n <= Len(ci) /\ n <= Len(ci2)
  /\ \A j \in 1 .. n : /\ ci2[j].func = ci[j].func /\ ci2[j].fresh = ci[j].fresh
                       /\ ci2[j].ypcall = ci[j].ypcall
                       /\ ci2[j].old_errfunc = ci[j].old_errfunc

LEMMA InnerAlike ==
  ASSUME NEW ci, NEW ci2, NEW m \in Nat, NEW n \in 0 .. m, NEW x,
         Alike(ci, ci2, m), IsInner(ci, n, x)
  PROVE  IsInner(ci2, n, x)
  BY DEF IsInner, Alike

\* an error, a return or a yield takes CallInfos and activations away
LEMMA FramesCut ==
  ASSUME NEW ci \in Seq(CallInfo), NEW ci2 \in Seq(CallInfo), NEW A, NEW A2,
         FramesOK(ci, A), Alike(ci, ci2, Len(ci2)), A2 \subseteq A,
         \A a \in A \ A2 : a.depth >= Len(ci2),
         \A a \in A : a.depth \in Nat
  PROVE  FramesOK(ci2, A2)
<1> DEFINE n == Len(ci2)
<1>0. n \in Nat /\ Len(ci) \in Nat /\ n <= Len(ci)
      /\ \A j \in 1 .. n : j \in 1 .. Len(ci)
                           /\ ci2[j].func = ci[j].func /\ ci2[j].fresh = ci[j].fresh
                           /\ ci2[j].ypcall = ci[j].ypcall
                           /\ ci2[j].old_errfunc = ci[j].old_errfunc
  BY DEF Alike
<1>1. FreshOnes(ci2, A2)
  BY <1>0 DEF FramesOK, FreshOnes
<1>2. LuaBelow(ci2)
  BY <1>0 DEF FramesOK, LuaBelow
<1>3. Owned(ci2, A2)
  BY <1>0 DEF FramesOK, Owned, Owns, Continues
<1>4. NoYpcall(ci2, A2)
  BY <1>0 DEF FramesOK, NoYpcall
<1>5. OldHandlers(ci2)
  <2> SUFFICES ASSUME NEW j \in 1 .. Len(ci2), ci2[j].ypcall
               PROVE  ci2[j].func = "pcall" /\ IsInner(ci2, j - 1, ci2[j].old_errfunc)
    BY DEF OldHandlers
  <2>1. ci[j].func = "pcall" /\ IsInner(ci, j - 1, ci[j].old_errfunc)
    BY <1>0 DEF FramesOK, OldHandlers
  <2> QED BY <1>0, <2>1, InnerAlike
<1> QED BY <1>1, <1>2, <1>3, <1>4, <1>5 DEF FramesOK

\* a new activation begins at the last CallInfo
LEMMA FramesAct ==
  ASSUME NEW ci \in Seq(CallInfo), NEW A, NEW a,
         FramesOK(ci, A), a.depth \in Nat,
         a.k = "call" => a.depth >= Len(ci), a.inc = "nyci" => a.k = "call"
  PROVE  FramesOK(ci, A \cup {a})
<1>1. FreshOnes(ci, A \cup {a})
  BY DEF FramesOK, FreshOnes
<1>2. Owned(ci, A \cup {a})
  BY DEF FramesOK, Owned, Owns
<1>3. NoYpcall(ci, A \cup {a})
  BY DEF FramesOK, NoYpcall
<1> QED BY <1>1, <1>2, <1>3 DEF FramesOK

\* a new CallInfo
LEMMA FramesPush ==
  ASSUME NEW ci \in Seq(CallInfo), NEW ci2 \in Seq(CallInfo), NEW A,
         FramesOK(ci, A), Len(ci2) = Len(ci) + 1, \A j \in 1 .. Len(ci) : ci2[j] = ci[j],
         \A a \in A : a.depth \in Nat /\ (a.k = "call" => a.depth <= Len(ci)),
         Len(ci) > 0 => Continues(ci[Len(ci)]) \/ Owns(A, ci, Len(ci)),
         IF ci2[Len(ci) + 1].fresh
           THEN /\ ci2[Len(ci) + 1].func = "lua"
                /\ \E a \in A : a.k = "call" /\ a.depth = Len(ci)
           ELSE /\ Len(ci) > 0 /\ ci[Len(ci)].func = "lua"
                /\ \A a \in A : a.k = "call" => a.depth < Len(ci),
         ci2[Len(ci) + 1].ypcall => /\ ci2[Len(ci) + 1].func = "pcall"
                                    /\ \A a \in A : a.inc # "nyci"
                                    /\ IsInner(ci, Len(ci), ci2[Len(ci) + 1].old_errfunc)
  PROVE  FramesOK(ci2, A)
<1> DEFINE n == Len(ci)
<1>0. n \in Nat
  OBVIOUS
<1>1. FreshOnes(ci2, A)
  <2> SUFFICES ASSUME NEW a \in A, a.k = "call", NEW j \in 1 .. n + 1, j > a.depth
               PROVE  /\ j = a.depth + 1 => ci2[j].fresh
                      /\ ci2[j].fresh => \E e \in A : e.k = "call" /\ e.depth = j - 1
    BY DEF FreshOnes
  <2>1. CASE j \in 1 .. n
    BY <1>0, <2>1 DEF FramesOK, FreshOnes
  <2>2. CASE j = n + 1
    BY <1>0, <2>2
  <2> QED BY <1>0, <2>1, <2>2
<1>2. LuaBelow(ci2)
  BY <1>0 DEF FramesOK, LuaBelow
<1>3. Owned(ci2, A)
  BY <1>0 DEF FramesOK, Owned, Owns
<1>4. NoYpcall(ci2, A)
  BY <1>0 DEF FramesOK, NoYpcall
<1>5. OldHandlers(ci2)
  <2> SUFFICES ASSUME NEW j \in 1 .. n + 1, ci2[j].ypcall
               PROVE  ci2[j].func = "pcall" /\ IsInner(ci2, j - 1, ci2[j].old_errfunc)
    BY DEF OldHandlers
  <2>0. Alike(ci, ci2, n)
    BY <1>0 DEF Alike
  <2>1. CASE j \in 1 .. n
    <3>1. ci[j].func = "pcall" /\ IsInner(ci, j - 1, ci[j].old_errfunc)
      BY <2>1 DEF FramesOK, OldHandlers
    <3> QED BY <1>0, <2>0, <2>1, <3>1, InnerAlike
  <2>2. CASE j = n + 1
    BY <1>0, <2>0, <2>2, InnerAlike
  <2> QED BY <1>0, <2>1, <2>2
<1> QED BY <1>1, <1>2, <1>3, <1>4, <1>5 DEF FramesOK

-----------------------------------------------------------------------------
(* Taking activations away, and adding one *)

LEMMA LinkedAlike ==
  ASSUME NEW ci, NEW ci2, NEW a \in Activation, NEW b,
         Linked(ci, a, b), Alike(ci, ci2, a.depth)
  PROVE  Linked(ci2, a, b)
<1>0. a.depth \in Nat
  BY DEF Activation
<1>1. LinkedProt(ci2, a, b)
  <2> SUFFICES ASSUME a.k = "prot"
               PROVE  /\ IsPcall(a) /\ Runs(b) /\ a.depth \in 1 .. Len(ci2)
                      /\ ci2[a.depth].func = "pcall" /\ ~ci2[a.depth].ypcall
                      /\ IsInner(ci2, a.depth - 1, a.errfunc)
    BY DEF LinkedProt
  <2>1. /\ IsPcall(a) /\ Runs(b) /\ a.depth \in 1 .. Len(ci)
        /\ ci[a.depth].func = "pcall" /\ ~ci[a.depth].ypcall
        /\ IsInner(ci, a.depth - 1, a.errfunc)
    BY DEF Linked, LinkedProt
  <2>2. a.depth - 1 \in 0 .. a.depth
    BY <1>0, <2>1
  <2>3. IsInner(ci2, a.depth - 1, a.errfunc)
    BY <1>0, <2>1, <2>2, InnerAlike
  <2> QED BY <1>0, <2>1, <2>3 DEF Alike
<1>2. LinkedClose(ci2, a, b)
  BY <1>0 DEF Linked, LinkedClose, Alike
<1>3. LinkedCall(ci2, a, b)
  BY <1>0 DEF Linked, LinkedCall, Alike
<1> QED BY <1>1, <1>2, <1>3 DEF Linked

LEMMA GoodKeeps ==
  ASSUME NEW T, NEW C \in Seq(Activation), NEW T2, NEW C2, NEW i \in 1 .. Len(C),
         \A j \in 1 .. i : C2[j] = C[j], Good(T, C, i),
         First(C, i) /\ i > 1 => T2[C[i - 1].t].ci = T[C[i - 1].t].ci,
         ~First(C, i) => \/ T2[C[i].t].ci = T[C[i].t].ci
                         \/ Alike(T[C[i].t].ci, T2[C[i].t].ci, C[i].depth)
  PROVE  Good(T2, C2, i)
<1>0. /\ i \in Nat /\ C[i] \in Activation /\ C2[i] = C[i] /\ (i > 1 => C2[i - 1] = C[i - 1])
  OBVIOUS
<1>1. Together(C2, i)
  BY DEF Good, Together
<1>2. Deeper(C2, i)
  BY DEF Good, Deeper
<1>3. Saved(C2, i)
  BY <1>0, SameCounts DEF Good, Saved
<1>4. First(C2, i) <=> First(C, i)
  BY <1>0 DEF First
<1>5. First(C, i) => BlockStarts(T2, C2, i)
  BY <1>0 DEF Good, BlockStarts
<1>6. ASSUME ~First(C, i)
      PROVE  Linked(T2[C2[i].t].ci, C2[i], C2[i - 1])
  <2>1. Linked(T[C[i].t].ci, C[i], C[i - 1])
    BY <1>6 DEF Good
  <2>2. i > 1
    BY <1>6 DEF First
  <2>3. Linked(T2[C[i].t].ci, C[i], C[i - 1])
    BY <1>0, <1>6, <2>1, LinkedAlike
  <2> QED BY <1>0, <2>2, <2>3
<1> QED BY <1>0, <1>1, <1>2, <1>3, <1>4, <1>5, <1>6 DEF Good

\* lua_resume is called only at the beginning of a block
LEMMA ResumeFirst ==
  ASSUME NEW T, NEW C \in Seq(Activation), NEW i \in 1 .. Len(C), Stack(T, C), Resumes(C[i])
  PROVE  First(C, i)
  BY DEF Stack, Good, Linked, LinkedProt, Resumes, IsPcall

LEMMA FirstIsProt ==
  ASSUME NEW T, NEW C \in Seq(Activation), NEW i \in 1 .. Len(C), Stack(T, C), First(C, i)
  PROVE  C[i].k = "prot" /\ \A e \in 1 .. i - 1 : C[e].t # C[i].t
<1>1. C[i].k = "prot"
  BY DEF Stack, Good, BlockStarts
<1>2. ASSUME NEW e \in 1 .. i - 1, C[e].t = C[i].t
      PROVE  FALSE
  <2>1. \A j \in e .. i : C[j].t = C[i].t
    BY <1>2 DEF Stack, Good, Together
  <2> QED BY <1>2, <2>1 DEF First
<1> QED BY <1>1, <1>2

LEMMA StackCut ==
  ASSUME NEW T, NEW C \in Seq(Activation), NEW T2, NEW C2 \in Seq(Activation),
         NEW u \in Threads, Stack(T, C),
         Len(C2) <= Len(C), \A i \in 1 .. Len(C2) : C2[i] = C[i],
         \A t \in Threads \ {u} : T2[t] = T[t],
         u \in ChainOf(C2) => u = C2[Len(C2)].t,
         Len(C2) > 0 /\ C2[Len(C2)].t = u /\ ~Resumes(C2[Len(C2)]) =>
           Alike(T[u].ci, T2[u].ci, C2[Len(C2)].depth)
  PROVE  Stack(T2, C2)
<1> DEFINE n == Len(C2)
<1>0. n \in Nat /\ Len(C) \in Nat /\ n <= Len(C)
  OBVIOUS
<1> SUFFICES ASSUME NEW i \in 1 .. n
             PROVE  Good(T2, C2, i)
  BY DEF Stack
<1>1. i \in 1 .. Len(C) /\ Good(T, C, i) /\ C[i] \in Activation /\ C[i].t \in Threads
      /\ C[i].depth \in Nat
  BY <1>0, ActivationsFields DEF Stack
<1>2. u \in ChainOf(C2) => C[n].t = u /\ n > 0
  BY <1>0 DEF ChainOf
<1>3. \A j \in 1 .. n : C[j].t = u => u \in ChainOf(C2)
  BY DEF ChainOf
<1>4. n > 0 => n \in 1 .. Len(C) /\ Good(T, C, n) /\ C2[n] = C[n] /\ C[n] \in Activation
  BY <1>0 DEF Stack
<1>5. ASSUME First(C, i), i > 1
      PROVE  T2[C[i - 1].t].ci = T[C[i - 1].t].ci
  <2>1. C[i - 1].t # C[i].t /\ C[i - 1].t \in Threads
    <3>1. i - 1 \in 1 .. Len(C)
      BY <1>0, <1>5
    <3> QED BY <1>5, <3>1, ActivationsFields DEF First
  <2>2. ASSUME C[i - 1].t = u
        PROVE  FALSE
    <3>1. C[n].t = u
      BY <1>0, <1>2, <1>3, <1>5, <2>2
    <3>2. \A j \in i - 1 .. n : C[j].t = u
      BY SMTT(20), <1>0, <1>4, <1>5, <2>2, <3>1 DEF Good, Together
    <3> QED BY <1>0, <2>1, <2>2, <3>2
  <2> QED BY <2>1, <2>2
<1>6. ASSUME ~First(C, i), C[i].t = u
      PROVE  Alike(T[u].ci, T2[u].ci, C[i].depth)
  <2>0. i > 1 /\ ~Resumes(C[i]) /\ C[i].depth \in Nat
    BY <1>1, <1>6 DEF First, Good, Linked, LinkedProt, IsPcall, Resumes
  <2>1. C[n].t = u /\ C[n].depth \in Nat
    BY <1>0, <1>2, <1>3, <1>4, <1>6, ActivationFields
  <2>2. C[i].depth <= C[n].depth
    BY <1>0, <1>4, <1>6, <2>0, <2>1 DEF Good, Deeper
  <2>3. ~Resumes(C[n])
    <3>1. ASSUME Resumes(C[n])
          PROVE  FALSE
      <4>1. First(C, n) /\ n \in 1 .. Len(C)
        BY <1>0, <1>4, <3>1, ResumeFirst
      <4>2. \A e \in 1 .. n - 1 : C[e].t # C[n].t
        BY <4>1, FirstIsProt
      <4>3. i # n
        BY <1>6, <4>1
      <4> QED BY <1>0, <1>6, <2>1, <4>2, <4>3
    <3> QED BY <3>1
  <2>4. Alike(T[u].ci, T2[u].ci, C[n].depth)
    BY <1>0, <1>4, <2>1, <2>3
  <2> QED BY SMTT(20), <2>0, <2>1, <2>2, <2>4 DEF Alike
<1>7. \A j \in 1 .. i : C2[j] = C[j]
  OBVIOUS
<1> QED BY SMTT(20), <1>0, <1>1, <1>5, <1>6, <1>7, GoodKeeps

LEMMA StackPush ==
  ASSUME NEW T, NEW C \in Seq(Activation), NEW C2 \in Seq(Activation),
         Stack(T, C), Len(C2) = Len(C) + 1, \A i \in 1 .. Len(C) : C2[i] = C[i],
         Good(T, C2, Len(C) + 1)
  PROVE  Stack(T, C2)
<1> SUFFICES ASSUME NEW i \in 1 .. Len(C) + 1
             PROVE  Good(T, C2, i)
  BY DEF Stack
<1>1. CASE i \in 1 .. Len(C)
  <2>1. Good(T, C, i)
    BY <1>1 DEF Stack
  <2>2. \A j \in 1 .. i : C2[j] = C[j]
    BY <1>1
  <2> QED BY <1>1, <2>1, <2>2, GoodKeeps
<1>2. CASE i = Len(C) + 1
  BY <1>2
<1> QED BY <1>1, <1>2

\* an activation may begin where the CallInfos end
LEMMA DeeperThan ==
  ASSUME NEW T, NEW C \in Seq(Activation), Stack(T, C), Len(C) > 0,
         NEW n \in Nat, ~Resumes(C[Len(C)]) => n >= C[Len(C)].depth,
         C[Len(C)].k = "call" => n > C[Len(C)].depth
  PROVE  \A e \in 1 .. Len(C) : C[e].t = C[Len(C)].t /\ ~Resumes(C[e]) =>
           C[e].depth <= n /\ (C[e].k = "call" => C[e].depth < n)
<1> DEFINE m == Len(C)
<1>0. m \in 1 .. Len(C) /\ C[m].depth \in Nat
  BY ActivationsFields
<1> SUFFICES ASSUME NEW e \in 1 .. m, C[e].t = C[m].t, ~Resumes(C[e])
             PROVE  C[e].depth <= n /\ (C[e].k = "call" => C[e].depth < n)
  OBVIOUS
<1>1. C[e].depth \in Nat
  BY ActivationsFields
<1>2. CASE e = m
  BY <1>0, <1>1, <1>2
<1>3. CASE e < m
  <2>1. C[e].depth <= C[m].depth /\ (C[e].k = "call" => C[e].depth < C[m].depth)
    BY <1>0, <1>3 DEF Stack, Good, Deeper
  <2>2. ~Resumes(C[m])
    <3>1. Resumes(C[m]) => First(C, m)
      BY <1>0, ResumeFirst
    <3>2. First(C, m) => \A d \in 1 .. m - 1 : C[d].t # C[m].t
      BY <1>0, FirstIsProt
    <3> QED BY <1>0, <1>3, <3>1, <3>2
  <2> QED BY <1>0, <1>1, <2>1, <2>2
<1> QED BY <1>0, <1>2, <1>3

-----------------------------------------------------------------------------
(* The steps the actions are made of *)

\* a step of one thread, which may throw away the topmost activations if they
\* are its own
Cut(T, C, T2, C2, u) ==
  /\ Types(T2, C2)
  /\ Len(C2) <= Len(C) /\ \A i \in 1 .. Len(C2) : C2[i] = C[i]
  /\ \A i \in Len(C2) + 1 .. Len(C) : C[i].t = u
  /\ \A t \in Threads \ {u} : T2[t] = T[t]
  /\ u \in ChainOf(C2) => u = C2[Len(C2)].t
  /\ Len(C2) > 0 /\ C2[Len(C2)].t = u /\ ~Resumes(C2[Len(C2)]) =>
       Alike(T[u].ci, T2[u].ci, C2[Len(C2)].depth)
  /\ T2[u].status # "ERR" =>
       FramesOK(T2[u].ci, Acts(C2, u)) /\ IsInner(T2[u].ci, Len(T2[u].ci), T2[u].errfunc)
  /\ StatusOf(T2, C2, u)
  /\ u = MainThread /\ MainThread \notin ChainOf(C2) => T2[u].nny = 1 /\ T2[u].nCcalls = 0

LEMMA CoreCut ==
  ASSUME NEW T, NEW C, NEW T2, NEW C2, NEW u \in Threads,
         Core(T, C), Cut(T, C, T2, C2, u)
  PROVE  Core(T2, C2)
<1> DEFINE n == Len(C2)
<1>0. /\ n \in Nat /\ Len(C) \in Nat /\ n <= Len(C)
      /\ C \in Seq(Activation) /\ C2 \in Seq(Activation)
      /\ \A i \in 1 .. n : C2[i] = C[i]
      /\ \A i \in n + 1 .. Len(C) : C[i].t = u
      /\ \A t \in Threads \ {u} : T2[t] = T[t]
  BY DEF Core, Types, Cut
<1>1. Stack(T2, C2)
  BY <1>0, StackCut DEF Core, Cut
<1>2. \A t \in Threads \ {u} : Acts(C2, t) = Acts(C, t)
  <2> SUFFICES ASSUME NEW t \in Threads \ {u}
               PROVE  Acts(C2, t) = Acts(C, t)
    OBVIOUS
  <2>1. ASSUME NEW a \in Acts(C, t)
        PROVE  a \in Acts(C2, t)
    <3>1. PICK i \in 1 .. Len(C) : a = C[i] /\ a.t = t
      BY DEF Acts
    <3>2. i \in 1 .. n
      BY <1>0, <3>1
    <3> QED BY <1>0, <3>1, <3>2 DEF Acts
  <2>2. ASSUME NEW a \in Acts(C2, t)
        PROVE  a \in Acts(C, t)
    BY <1>0 DEF Acts
  <2> QED BY <2>1, <2>2
<1>3. Frames(T2, C2)
  <2> SUFFICES ASSUME NEW t \in Threads, T2[t].status # "ERR"
               PROVE  FramesOK(T2[t].ci, Acts(C2, t))
                      /\ IsInner(T2[t].ci, Len(T2[t].ci), T2[t].errfunc)
    BY DEF Frames
  <2>1. CASE t = u
    BY <2>1 DEF Cut
  <2>2. CASE t # u
    BY <1>0, <1>2, <2>2 DEF Core, Frames
  <2> QED BY <2>1, <2>2
<1>4. \A t \in Threads \ {u} : t \in ChainOf(C2) <=> t \in ChainOf(C)
  BY SMTT(20), <1>0 DEF ChainOf
<1>5. States(T2, C2)
  <2> SUFFICES ASSUME NEW t \in Threads
               PROVE  StatusOf(T2, C2, t)
    BY DEF States
  <2>1. CASE t = u
    BY <2>1 DEF Cut
  <2>2. CASE t # u
    <3>1. StatusOf(T, C, t) /\ T2[t] = T[t] /\ (t \in ChainOf(C2) <=> t \in ChainOf(C))
      BY <1>0, <1>4, <2>2 DEF Core, States
    <3>2. t \in ChainOf(C) /\ t = Last(C).t => t = Last(C2).t
      <4> SUFFICES ASSUME t \in ChainOf(C), t = Last(C).t
                   PROVE  t = Last(C2).t
        OBVIOUS
      <4>1. Len(C) > 0
        BY <1>0 DEF ChainOf
      <4>2. n = Len(C)
        BY <1>0, <2>2, <4>1 DEF Last
      <4> QED BY <1>0, <4>1, <4>2 DEF Last
    <3> QED BY <3>1, <3>2 DEF StatusOf
  <2> QED BY <2>1, <2>2
<1>6. Waiting(T2, C2)
  <2>1. ASSUME NEW i \in 1 .. n - 1, C2[i + 1].t # C2[i].t
        PROVE  CountedTo(T2, C2, i)
    <3>0. i \in 1 .. Len(C) - 1 /\ i + 1 \in 1 .. n /\ i \in 1 .. n
          /\ C2[i] = C[i] /\ C2[i + 1] = C[i + 1]
      BY <1>0
    <3>5. C[i].t \in Threads
      BY <1>0, <3>0, ActivationsFields
    <3>1. CountedTo(T, C, i)
      BY <2>1, <3>0 DEF Core, Waiting
    <3>2. C[i].t # u
      <4> SUFFICES ASSUME C[i].t = u
                   PROVE  FALSE
        OBVIOUS
      <4>1. u \in ChainOf(C2)
        BY <3>0 DEF ChainOf
      <4>2. C2[n].t = u /\ n \in 1 .. n
        BY <3>0, <4>1 DEF Cut
      <4>3. Together(C2, n)
        BY <1>1, <4>2 DEF Stack, Good
      <4> QED BY <2>1, <3>0, <4>2, <4>3 DEF Together
    <3>3. T2[C[i].t] = T[C[i].t]
      BY <1>0, <3>0, <3>2, <3>5
    <3>4. \A j \in 1 .. i : C2[j] = C[j]
      <4>1. n \in Nat /\ \A j \in 1 .. n : C2[j] = C[j]
        BY <1>0
      <4> HIDE DEF n
      <4>2. \A j \in 1 .. i : j \in 1 .. n
        BY <4>1
      <4> QED BY <4>1, <4>2
    <3> QED BY <3>0, <3>1, <3>3, <3>4, CountedAlike
  <2>2. ASSUME MainThread \notin ChainOf(C2)
        PROVE  T2[MainThread].nny = 1 /\ T2[MainThread].nCcalls = 0
    <3>1. CASE MainThread = u
      BY <2>2, <3>1 DEF Cut
    <3>2. CASE MainThread # u
      BY Zenon, <1>0, <1>4, <2>2, <3>2, CallsAssumption DEF Core, Waiting
    <3> QED BY <3>1, <3>2
  <2> QED BY <2>1, <2>2 DEF Waiting
<1> QED BY <1>1, <1>3, <1>5, <1>6 DEF Core, Cut

LEMMA CorePush ==
  ASSUME NEW T, NEW C, NEW C2 \in Seq(Activation), NEW a,
         Core(T, C), Len(C2) = Len(C) + 1, \A i \in 1 .. Len(C) : C2[i] = C[i],
         a = C2[Len(C) + 1], Good(T, C2, Len(C) + 1),
         a.k = "call" => a.depth >= Len(T[a.t].ci),
         ~T[a.t].body, T[a.t].status \in {"OK", "YIELD"},
         Len(C) > 0 /\ C[Len(C)].t # a.t =>
           CountedTo(T, C, Len(C)) /\ T[C[Len(C)].t].status = "OK"
  PROVE  Core(T, C2)
<1> DEFINE n == Len(C)
<1>0. /\ n \in Nat /\ C \in Seq(Activation) /\ Len(C2) = n + 1
      /\ a \in Activation /\ a.t \in Threads /\ a.depth \in Nat /\ C2[n + 1] = a
      /\ \A i \in 1 .. n : C2[i] = C[i] /\ C[i].t \in Threads
  BY ActivationsFields DEF Core, Types
<1>1. Stack(T, C2)
  BY <1>0, StackPush DEF Core
<1>2. \A t : Acts(C2, t) = IF t = a.t THEN Acts(C, t) \cup {a} ELSE Acts(C, t)
  <2>1. {C2[i] : i \in 1 .. n + 1} = {C[i] : i \in 1 .. n} \cup {a}
    BY <1>0
  <2> QED BY <1>0, <2>1 DEF Acts
<1>3. Frames(T, C2)
  <2> SUFFICES ASSUME NEW t \in Threads, T[t].status # "ERR"
               PROVE  FramesOK(T[t].ci, Acts(C2, t))
    BY DEF Core, Frames
  <2>1. FramesOK(T[t].ci, Acts(C, t)) /\ T[t].ci \in Seq(CallInfo)
    BY DEF Core, Frames, Types, LuaState
  <2>2. CASE t = a.t
    <3>1. a.inc = "nyci" => a.k = "call"
      BY <1>0 DEF Good
    <3> QED BY <1>0, <1>2, <2>1, <2>2, <3>1, FramesAct
  <2>3. CASE t # a.t
    BY <1>2, <2>1, <2>3
  <2> QED BY <2>2, <2>3
<1>4. \A t : t \in ChainOf(C2) <=> t \in ChainOf(C) \/ t = a.t
  BY <1>0 DEF ChainOf
<1>5. Last(C2) = a
  BY <1>0 DEF Last
<1>6. States(T, C2)
  <2> SUFFICES ASSUME NEW t \in Threads
               PROVE  StatusOf(T, C2, t)
    BY DEF States
  <2>1. StatusOf(T, C, t)
    BY DEF Core, States
  <2>2. CASE t = a.t
    BY <1>4, <1>5, <2>1, <2>2 DEF StatusOf
  <2>3. CASE t # a.t
    <3>1. t \in ChainOf(C) /\ t = Last(C).t => T[t].status = "OK"
      BY <1>0, <2>3 DEF ChainOf, Last
    <3> QED BY <1>4, <1>5, <2>1, <2>3, <3>1 DEF StatusOf
  <2> QED BY <2>2, <2>3
<1>7. Waiting(T, C2)
  <2>1. ASSUME NEW i \in 1 .. n, C2[i + 1].t # C2[i].t
        PROVE  CountedTo(T, C2, i)
    <3>1. CountedTo(T, C, i)
      <4>1. CASE i = n
        BY <1>0, <2>1, <4>1
      <4>2. CASE i # n
        BY <1>0, <2>1, <4>2 DEF Core, Waiting
      <4> QED BY <4>1, <4>2
    <3>2. \A j \in 1 .. i : C2[j] = C[j]
      BY <1>0
    <3> QED BY <1>0, <3>1, <3>2, CountedAlike
  <2> QED BY <1>0, <1>4, <2>1 DEF Waiting, Core
<1> QED BY <1>0, <1>1, <1>3, <1>6, <1>7 DEF Core, Types

-----------------------------------------------------------------------------
(* What is on the C stack *)

\* a C function, or an operation of the machine, is called from a Lua function
LEMMA CalledFromLua ==
  ASSUME NEW ci \in Seq(CallInfo), NEW A, FramesOK(ci, A), NEW b \in A, Runs(b),
         b.depth \in Nat, b.k = "unroll" => b.depth = 0,
         Len(ci) > b.depth, ci[Len(ci)].func # "lua"
  PROVE  Len(ci) - 1 > b.depth /\ ci[Len(ci) - 1].func = "lua"
<1> DEFINE n == Len(ci)
<1>0. n \in Nat /\ n \in 1 .. n
  OBVIOUS
<1>1. ~ci[n].fresh /\ n > 1 /\ ci[n - 1].func = "lua"
  BY <1>0 DEF FramesOK, LuaBelow
<1>2. CASE b.k = "unroll"
  BY <1>0, <1>1, <1>2
<1>3. CASE b.k = "call"
  BY <1>0, <1>1, <1>3 DEF FramesOK, FreshOnes
<1> QED BY <1>2, <1>3 DEF Runs

\* the innermost luaD_rawrunprotected of the thread that runs; only its own
\* activations are above it
LEMMA HandlerExists ==
  ASSUME NEW T, NEW C, Core(T, C), Len(C) > 0
  PROVE  \E h \in 1 .. Len(C) :
           /\ C[h].k = "prot" /\ C[h].t = C[Len(C)].t
           /\ \A j \in h + 1 .. Len(C) : C[j].k # "prot" /\ C[j].t = C[Len(C)].t
<1> DEFINE n == Len(C)
           u == C[n].t
           S == {i \in 1 .. n : C[i].t = u}
           I == {i \in 1 .. n : C[i].k = "prot" /\ C[i].t = u}
<1>0. C \in Seq(Activation) /\ n \in Nat /\ n \in 1 .. n /\ Stack(T, C)
  BY DEF Core, Types
<1>1. PICK i \in S : \A j \in S : i <= j
  <2>1. n \in S /\ S \in SUBSET Nat
    BY <1>0
  <2> HIDE DEF S
  <2> QED BY <2>1, FirstPosition
<1>2. i \in 1 .. n /\ First(C, i)
  <2>1. i \in 1 .. n /\ (i > 1 => i - 1 \in 1 .. n /\ i - 1 \notin S)
    BY <1>0, <1>1
  <2> QED BY <1>0, <2>1 DEF First
<1>3. C[i].k = "prot"
  BY <1>0, <1>2, FirstIsProt
<1>4. I # {} /\ I \in SUBSET (1 .. n)
  BY <1>1, <1>3
<1>5. PICK h \in I : \A j \in I : j <= h
  <2> HIDE DEF I
  <2> QED BY <1>0, <1>4, LastPosition
<1>6. \A j \in h + 1 .. n : C[j].t = u
  <2>1. Together(C, n) /\ h \in 1 .. n /\ C[h].t = u
    BY <1>0, <1>5 DEF Stack, Good
  <2> QED BY <1>0, <2>1 DEF Together
<1>7. \A j \in h + 1 .. n : C[j].k # "prot"
  <2> SUFFICES ASSUME NEW j \in h + 1 .. n, C[j].k = "prot"
               PROVE  FALSE
    OBVIOUS
  <2>1. j \in I /\ h \in Nat
    BY <1>0, <1>5, <1>6
  <2> QED BY <1>5, <2>1
<1> QED BY <1>5, <1>6, <1>7

\* above a luaD_pcall or luaD_closeprotected a call that cannot yield begins
\* where it began
LEMMA AboveProt ==
  ASSUME NEW T, NEW C, Core(T, C), NEW h \in 1 .. Len(C),
         C[h].k = "prot", C[h].t = C[Len(C)].t, ~Resumes(C[h]),
         \A j \in h + 1 .. Len(C) : C[j].k # "prot" /\ C[j].t = C[Len(C)].t,
         NEW A, NEW md, OnTop(T[C[h].t].ci, C[Len(C)], A, md)
  PROVE  \/ Len(T[C[h].t].ci) = C[h].depth
         \/ \E e \in h + 1 .. Len(C) : C[e].inc = "nyci" /\ C[e].depth = C[h].depth
<1> DEFINE n  == Len(C)
           ci == T[C[h].t].ci
<1>0. C \in Seq(Activation) /\ n \in Nat /\ Stack(T, C) /\ h \in Nat /\ h <= n
  BY DEF Core, Types
<1>1. CASE h = n
  BY <1>1 DEF OnTop, Resumes
<1>2. ASSUME h < n, n # h + 1 \/ C[n].k # "close"
      PROVE  \E e \in h + 1 .. n : C[e].inc = "nyci" /\ C[e].depth = C[h].depth
  <2>1. h + 1 \in 1 .. n /\ h + 1 \in h + 1 .. n /\ C[h + 1] \in Activation
    BY <1>0, <1>2
  <2>2. Linked(ci, C[h + 1], C[h])
    <3>1. C[h + 1].t = C[h].t /\ h + 1 # 1 /\ (h + 1) - 1 = h
      BY <1>0, <2>1
    <3>2. Good(T, C, h + 1)
      BY <1>0, <2>1 DEF Stack
    <3> QED BY <3>1, <3>2 DEF Good, First
  <2>3. C[h + 1].k # "prot" /\ C[h + 1].k \in {"call", "unroll", "close", "prot"}
    BY <2>1, ActivationFields
  <2>4. CASE C[h + 1].k = "call"
    BY Zenon, <2>1, <2>2, <2>4 DEF Linked, LinkedCall, Resumes
  <2>5. CASE C[h + 1].k = "close"
    <3>1. ~C[h + 1].yy /\ C[h + 1].depth = C[h].depth
      BY <2>1, <2>2, <2>5, ActivationFields DEF Linked, LinkedClose, Runs
    <3>2. h + 2 \in 1 .. n /\ h + 2 \in h + 1 .. n
      BY <1>0, <1>2, <2>1, <2>5
    <3>3. Linked(ci, C[h + 2], C[h + 1])
      <4>1. C[h + 2].t = C[h].t /\ C[h + 1].t = C[h].t /\ h + 2 # 1 /\ (h + 2) - 1 = h + 1
        BY <1>0, <2>1, <3>2
      <4>2. Good(T, C, h + 2)
        BY <1>0, <3>2 DEF Stack
      <4> QED BY <4>1, <4>2 DEF Good, First
    <3>4. C[h + 2].k \in {"call", "unroll", "close", "prot"} /\ C[h + 2].yy \in BOOLEAN
      BY <1>0, <3>2, ActivationsFields, ActivationFields
    <3>5. C[h + 2].k = "call"
      BY <2>5, <3>3, <3>4
         DEF Linked, LinkedProt, LinkedClose, LinkedUnroll, Runs, Resumes
    <3>6. C[h + 2].depth = C[h].depth /\ C[h + 2].inc = "nyci"
      BY <2>5, <3>1, <3>3, <3>5, Zenon DEF Linked, LinkedCall
    <3> QED BY <3>2, <3>6
  <2>6. CASE C[h + 1].k = "unroll"
    BY <2>2, <2>6 DEF Linked, LinkedUnroll
  <2> QED BY <2>3, <2>4, <2>5, <2>6
<1>3. CASE n = h + 1 /\ C[n].k = "close"
  <2>1. n \in 1 .. n /\ C[n] \in Activation
    BY <1>0, <1>3
  <2>2. Linked(ci, C[n], C[h])
    <3>1. C[n].t = C[h].t /\ n # 1 /\ n - 1 = h
      BY <1>0, <1>3
    <3>2. Good(T, C, n)
      BY <1>0, <2>1 DEF Stack
    <3> QED BY <3>1, <3>2 DEF Good, First
  <2>3. C[n].depth = C[h].depth
    BY SMTT(20), <1>3, <2>1, <2>2, ActivationFields DEF Linked, LinkedClose, Runs
  <2> QED BY <1>3, <2>3 DEF OnTop
<1> QED BY <1>0, <1>1, <1>2, <1>3

\* an error caught there leaves no protected call above
LEMMA NoPcallAbove ==
  ASSUME NEW T, NEW C, Core(T, C), NEW h \in 1 .. Len(C),
         C[h].k = "prot", C[h].t = C[Len(C)].t, ~Resumes(C[h]),
         \A j \in h + 1 .. Len(C) : C[j].k # "prot" /\ C[j].t = C[Len(C)].t,
         T[C[h].t].status # "ERR",
         OnTop(T[C[h].t].ci, C[Len(C)], Acts(C, C[h].t), "ERR")
  PROVE  \A j \in 1 .. Len(T[C[h].t].ci) :
           T[C[h].t].ci[j].func = "pcall" => j <= C[h].depth
<1> DEFINE u  == C[h].t
           ci == T[u].ci
           A  == Acts(C, u)
           d  == C[h].depth
<1>0. /\ C \in Seq(Activation) /\ Stack(T, C) /\ u \in Threads /\ d \in Nat /\ Len(C) \in Nat
      /\ FramesOK(ci, A) /\ Len(ci) \in Nat
  BY ActivationsFields, ThreadFields DEF Core, Types, Frames
<1> SUFFICES ASSUME NEW j \in 1 .. Len(ci), ci[j].func = "pcall", ~(j <= d)
             PROVE  FALSE
  OBVIOUS
<1>1. j > d /\ Len(ci) # d
  <2> DEFINE x == Len(ci)
  <2>1. d \in Nat /\ x \in Nat /\ j \in 1 .. x /\ ~(j <= d)
    BY <1>0
  <2> HIDE DEF d, x
  <2> QED BY <2>1
<1>2. PICK e \in h + 1 .. Len(C) : C[e].inc = "nyci" /\ C[e].depth = d
  <2>1. \/ Len(ci) = d
        \/ \E e \in h + 1 .. Len(C) : C[e].inc = "nyci" /\ C[e].depth = d
    BY AboveProt
  <2> QED BY <1>1, <2>1
<1>3. C[e] \in A
  <2>1. e \in 1 .. Len(C) /\ C[e].t = u
    BY SMTT(20), <1>0, <1>2
  <2> QED BY <2>1 DEF Acts
<1>4. \A i \in 1 .. Len(ci) : i > d => ~ci[i].ypcall
  BY <1>0, <1>2, <1>3 DEF FramesOK, NoYpcall
<1>5. ~Owns(A, ci, j)
  <2> SUFFICES ASSUME Owns(A, ci, j)
               PROVE  FALSE
    OBVIOUS
  <2>1. PICK a \in A : a.depth = j /\ IsPcall(a)
    BY DEF Owns
  <2>2. PICK i \in 1 .. Len(C) : a = C[i] /\ C[i].t = u
    BY DEF Acts
  <2>3. i <= h
    BY <1>0, <2>1, <2>2 DEF IsPcall
  <2>4. i # h
    BY <1>1, <2>1, <2>2
  <2>5. C[i].depth <= d
    BY <1>0, <2>1, <2>2, <2>3, <2>4 DEF Stack, Good, Deeper, IsPcall, Resumes
  <2> QED BY <1>0, <1>1, <2>1, <2>2, <2>5
<1>6. ~Continues(ci[j])
  BY SMTT(20), <1>1, <1>4 DEF Continues
<1>7. j = Len(ci)
  BY <1>0, <1>5, <1>6 DEF FramesOK, Owned
<1> QED BY <1>0, <1>4, <1>5, <1>7 DEF OnTop

\* nothing of a resumed coroutine shows a C function before the resume
LEMMA AboveResume ==
  ASSUME NEW T, NEW C, Core(T, C), NEW h \in 1 .. Len(C), C[h].t = C[Len(C)].t, Resumes(C[h]),
         \A j \in h + 1 .. Len(C) : C[j].k # "prot" /\ C[j].t = C[Len(C)].t
  PROVE  /\ \A i \in 1 .. h - 1 : C[i].t # C[h].t
         /\ \A a \in Acts(C, C[h].t) : ~IsPcall(a)
         /\ First(C, h) /\ C[h].t # MainThread
<1>0. C \in Seq(Activation) /\ Stack(T, C) /\ Len(C) \in Nat
  BY DEF Core, Types
<1>1. First(C, h)
  BY <1>0, ResumeFirst
<1>2. \A i \in 1 .. h - 1 : C[i].t # C[h].t
  BY <1>0, <1>1, FirstIsProt
<1>3. ASSUME NEW a \in Acts(C, C[h].t), IsPcall(a)
      PROVE  FALSE
  <2>1. PICK i \in 1 .. Len(C) : a = C[i] /\ C[i].t = C[h].t
    BY DEF Acts
  <2>2. i = h
    BY <1>0, <1>2, <1>3, <2>1 DEF IsPcall
  <2> QED BY <1>3, <2>1, <2>2 DEF IsPcall, Resumes
<1>4. C[h].t # MainThread
  BY <1>0, <1>1 DEF Stack, Good, BlockStarts, IsPcall, Resumes
<1> QED BY <1>1, <1>2, <1>3, <1>4

-----------------------------------------------------------------------------
(* The operations on a machine state, and what they do to its parts *)

MS(T, C, md) == [th |-> T, cs |-> C, mode |-> md]

Upd(T, t, s)  == [T EXCEPT ![t] = s]
WithCI(s, ci) == [s EXCEPT !.ci = ci]

IsTh(T) == T \in [Threads -> LuaState]

LEMMA OneThread ==
  ASSUME NEW T, IsTh(T), NEW u \in Threads, NEW s \in LuaState
  PROVE  /\ IsTh(Upd(T, u, s))
         /\ Upd(T, u, s)[u] = s
         /\ \A t \in Threads \ {u} : Upd(T, u, s)[t] = T[t]
  BY DEF Upd, IsTh

LEMMA OneList ==
  ASSUME NEW s \in LuaState, NEW ci
  PROVE  /\ ci \in Seq(CallInfo) => WithCI(s, ci) \in LuaState
         /\ WithCI(s, ci).ci = ci
         /\ WithCI(s, ci).status = s.status /\ WithCI(s, ci).tbclist = s.tbclist
         /\ WithCI(s, ci).nCcalls = s.nCcalls /\ WithCI(s, ci).nny = s.nny
         /\ WithCI(s, ci).errfunc = s.errfunc /\ WithCI(s, ci).body = s.body
  BY DEF WithCI, LuaState

LEMMA InStep ==
  ASSUME NEW T, NEW C, NEW md, NEW md2
  PROVE  In(MS(T, C, md), md2) = MS(T, C, md2)
  BY DEF In, MS
LEMMA PushCStep ==
  ASSUME NEW T, NEW C, NEW md, NEW a
  PROVE  PushC(MS(T, C, md), a) = MS(T, Append(C, a), md)
  BY DEF PushC, MS
LEMMA PopCStep ==
  ASSUME NEW T, NEW C, NEW md
  PROVE  PopC(MS(T, C, md)) = MS(T, Front(C), md)
  BY DEF PopC, MS

LEMMA PushCIStep ==
  ASSUME NEW T, IsTh(T), NEW C, NEW md, NEW t \in Threads, NEW f
  PROVE  PushCI(MS(T, C, md), t, f) = MS(Upd(T, t, WithCI(T[t], Append(T[t].ci, f))), C, md)
<1>1. \A v : [MS(T, C, md) EXCEPT !.th[t].ci = v] = MS(Upd(T, t, WithCI(T[t], v)), C, md)
  BY DEF MS, Upd, WithCI, IsTh
<1>2. PushCI(MS(T, C, md), t, f) = [MS(T, C, md) EXCEPT !.th[t].ci = Append(T[t].ci, f)]
  BY DEF PushCI, MS, IsTh
<1> QED BY <1>1, <1>2
LEMMA PopCIStep ==
  ASSUME NEW T, IsTh(T), NEW C, NEW md, NEW t \in Threads
  PROVE  PopCI(MS(T, C, md), t) = MS(Upd(T, t, WithCI(T[t], Front(T[t].ci))), C, md)
<1>1. \A v : [MS(T, C, md) EXCEPT !.th[t].ci = v] = MS(Upd(T, t, WithCI(T[t], v)), C, md)
  BY DEF MS, Upd, WithCI, IsTh
<1>2. PopCI(MS(T, C, md), t) = [MS(T, C, md) EXCEPT !.th[t].ci = Front(T[t].ci)]
  BY DEF PopCI, MS, IsTh
<1> QED BY <1>1, <1>2

CallCounters(s, inc) ==
  [s EXCEPT !.nCcalls = @ + (IF inc = "none" THEN 0 ELSE 1),
            !.nny = @ + (IF inc = "nyci" THEN 1 ELSE 0)]
CallFrame(s, of) == [Frame("lua", Len(s.tbclist)) EXCEPT !.fresh = TRUE, !.of = of]
CallAct(s, t, inc) == [Blank(t) EXCEPT !.k = "call", !.inc = inc, !.depth = Len(s.ci)]

LEMMA CountersFields ==
  ASSUME NEW s \in LuaState, NEW inc
  PROVE  /\ CallCounters(s, inc) \in LuaState
         /\ CallCounters(s, inc).nCcalls = s.nCcalls + (IF inc = "none" THEN 0 ELSE 1)
         /\ CallCounters(s, inc).nny = s.nny + (IF inc = "nyci" THEN 1 ELSE 0)
         /\ CallCounters(s, inc).ci = s.ci /\ CallCounters(s, inc).tbclist = s.tbclist
         /\ CallCounters(s, inc).status = s.status /\ CallCounters(s, inc).body = s.body
         /\ CallCounters(s, inc).errfunc = s.errfunc
<1>1. \A x, y \in Nat : [s EXCEPT !.nCcalls = x, !.nny = y] \in LuaState
  BY DEF LuaState
<1>2. /\ s.nCcalls + (IF inc = "none" THEN 0 ELSE 1) \in Nat
      /\ s.nny + (IF inc = "nyci" THEN 1 ELSE 0) \in Nat
  BY DEF LuaState
<1>3. CallCounters(s, inc) \in LuaState
  BY Zenon, <1>1, <1>2 DEF CallCounters
<1> QED BY <1>3 DEF LuaState, CallCounters

LEMMA CcallIs ==
  ASSUME NEW T, IsTh(T), NEW C, NEW md, NEW t \in Threads, NEW inc, NEW of
  PROVE  LET s == CallCounters(T[t], inc)
         IN  \/ Ccall(MS(T, C, md), t, inc, of) = MS(Upd(T, t, s), C, "ERR")
             \/ Ccall(MS(T, C, md), t, inc, of)
                  = MS(Upd(T, t, WithCI(s, Append(T[t].ci, CallFrame(T[t], of)))),
                       Append(C, CallAct(T[t], t, inc)), "run")
<1> DEFINE m0 == MS(T, C, md)
           k  == m0.th[t].nCcalls + (IF inc = "none" THEN 0 ELSE 1)
           m1 == [m0 EXCEPT !.th[t].nCcalls = k,
                            !.th[t].nny = @ + (IF inc = "nyci" THEN 1 ELSE 0)]
           s  == CallCounters(T[t], inc)
           f  == CallFrame(T[t], of)
           a  == CallAct(T[t], t, inc)
<1>0. m0.th = T /\ m0.cs = C /\ m0.mode = md /\ T[t] \in LuaState
      /\ k = T[t].nCcalls + (IF inc = "none" THEN 0 ELSE 1)
  BY DEF MS, IsTh
<1>1. s \in LuaState /\ s.ci = T[t].ci /\ s.tbclist = T[t].tbclist
  BY <1>0, CountersFields
<1>2. m1 = MS(Upd(T, t, s), C, md)
  <2> DEFINE m2 == [m0 EXCEPT !.th[t].nCcalls = k]
             s2 == [T[t] EXCEPT !.nCcalls = k]
             T2 == [T EXCEPT ![t] = s2]
  <2>1. m2 = MS(T2, C, md)
    BY <1>0 DEF MS, IsTh
  <2>2. m1 = [m2 EXCEPT !.th[t].nny = @ + (IF inc = "nyci" THEN 1 ELSE 0)]
    BY <1>0 DEF MS, IsTh
  <2>3. [MS(T2, C, md) EXCEPT !.th[t].nny = @ + (IF inc = "nyci" THEN 1 ELSE 0)]
          = MS([T2 EXCEPT ![t] = [T2[t] EXCEPT !.nny = @ + (IF inc = "nyci" THEN 1 ELSE 0)]],
               C, md)
    BY DEF MS
  <2>4. [T2 EXCEPT ![t] = [T2[t] EXCEPT !.nny = @ + (IF inc = "nyci" THEN 1 ELSE 0)]]
          = Upd(T, t, s)
    BY <1>0 DEF CallCounters, Upd, IsTh
  <2> HIDE DEF m1, m2, s, T2
  <2> QED BY <2>1, <2>2, <2>3, <2>4
<1> DEFINE T1 == Upd(T, t, s)
<1>3. T1[t] = s
  BY <1>1, OneThread
<1>8. IsTh(T1)
  BY <1>1, OneThread
<1>4. Ccall(m0, t, inc, of) =
        IF k = LUAI_MAXCCALLS \/ k >= ErrCcalls THEN In(m1, "ERR")
        ELSE In(PushC(PushCI(m1, t, f), a), "run")
  BY <1>0, <1>1 DEF Ccall, CallFrame, CallAct, NewLevel
<1> DEFINE T3 == Upd(T1, t, WithCI(T1[t], Append(T1[t].ci, f)))
<1>5. In(m1, "ERR") = MS(T1, C, "ERR")
  <2> HIDE DEF m1, s
  <2> QED BY <1>2, InStep
<1>6. In(PushC(PushCI(m1, t, f), a), "run") = MS(T3, Append(C, a), "run")
  <2>1. PushCI(MS(T1, C, md), t, f) = MS(T3, C, md)
    <3> HIDE DEF f, T1
    <3> QED BY <1>8, PushCIStep
  <2>2. PushC(MS(T3, C, md), a) = MS(T3, Append(C, a), md)
    <3> HIDE DEF T3, a
    <3> QED BY PushCStep
  <2>3. In(MS(T3, Append(C, a), md), "run") = MS(T3, Append(C, a), "run")
    <3> HIDE DEF T3, a
    <3> QED BY InStep
  <2> HIDE DEF m1, T3, a, f, s
  <2> QED BY <1>2, <2>1, <2>2, <2>3
<1>7. T3 = Upd(T, t, WithCI(s, Append(T[t].ci, f)))
  <2>1. \A x : Upd(T1, t, x) = Upd(T, t, x)
    BY DEF Upd
  <2> HIDE DEF s, f, T1
  <2> QED BY <1>1, <1>3, <2>1 DEF T3
<1> QED
  <2> HIDE DEF m0, m1, s, T1, T3, k, f, a
  <2> QED BY <1>4, <1>5, <1>6, <1>7 DEF T1, s, f, a, m0

LEMMA CallFrameFields ==
  ASSUME NEW s \in LuaState, NEW of \in Variables \cup {None}
  PROVE  /\ CallFrame(s, of) \in CallInfo
         /\ CallFrame(s, of).func = "lua" /\ CallFrame(s, of).fresh /\ ~CallFrame(s, of).ypcall
<1>1. Len(s.tbclist) \in Nat
  BY DEF LuaState
<1> QED BY <1>1 DEF CallFrame, Frame, CallInfo, CFunctions, None

LEMMA CallActFields ==
  ASSUME NEW s \in LuaState, NEW t \in Threads, NEW inc \in {"none", "yieldable", "nyci"}
  PROVE  /\ CallAct(s, t, inc) \in Activation
         /\ CallAct(s, t, inc).t = t /\ CallAct(s, t, inc).k = "call"
         /\ CallAct(s, t, inc).inc = inc /\ CallAct(s, t, inc).depth = Len(s.ci)
<1>1. Len(s.ci) \in Nat
  BY DEF LuaState
<1> QED BY <1>1 DEF CallAct, Blank, Activation, None

-----------------------------------------------------------------------------
(* Small steps *)

\* counters, variables and what the invariant does not tell of CallInfos
LEMMA CoreQuiet ==
  ASSUME NEW T, NEW C, NEW T2, NEW u \in Threads, Core(T, C), IsTh(T2),
         \A t \in Threads \ {u} : T2[t] = T[t],
         Len(T2[u].ci) = Len(T[u].ci), Alike(T[u].ci, T2[u].ci, Len(T[u].ci)),
         T2[u].status = T[u].status, T2[u].body = T[u].body, T2[u].errfunc = T[u].errfunc,
         u \in ChainOf(C) => /\ u = C[Len(C)].t
                             /\ ~Resumes(C[Len(C)]) => C[Len(C)].depth <= Len(T[u].ci),
         u \notin ChainOf(C) /\ u = MainThread => T2[u].nny = T[u].nny /\ T2[u].nCcalls = T[u].nCcalls
  PROVE  Core(T2, C)
<1> DEFINE ci == T[u].ci
           n  == Len(ci)
<1>0. /\ IsTh(T) /\ C \in Seq(Activation) /\ Len(C) \in Nat
      /\ ci \in Seq(CallInfo) /\ n \in Nat /\ T2[u].ci \in Seq(CallInfo)
      /\ \A j \in 1 .. n : T2[u].ci[j].func = ci[j].func /\ T2[u].ci[j].ypcall = ci[j].ypcall
  BY ThreadFields DEF Core, Types, IsTh, Alike
<1>1. T2[u].status # "ERR" =>
        FramesOK(T2[u].ci, Acts(C, u)) /\ IsInner(T2[u].ci, Len(T2[u].ci), T2[u].errfunc)
  <2> SUFFICES ASSUME T2[u].status # "ERR"
               PROVE  FramesOK(T2[u].ci, Acts(C, u))
                      /\ IsInner(T2[u].ci, Len(T2[u].ci), T2[u].errfunc)
    OBVIOUS
  <2>1. FramesOK(ci, Acts(C, u)) /\ IsInner(ci, n, T[u].errfunc)
    BY DEF Core, Frames
  <2>2. \A a \in Acts(C, u) : a.depth \in Nat
    BY <1>0, ActivationsFields DEF Acts
  <2>3. FramesOK(T2[u].ci, Acts(C, u))
    BY <1>0, <2>1, <2>2, FramesCut
  <2>4. IsInner(T2[u].ci, n, T[u].errfunc)
    BY <1>0, <2>1, InnerAlike
  <2> QED BY <2>3, <2>4
<1>2. StatusOf(T2, C, u)
  <2>1. StatusOf(T, C, u)
    BY DEF Core, States
  <2>2. Suspended(T[u]) => Suspended(T2[u])
    <3>1. n > 0 => n \in 1 .. n
      BY <1>0
    <3>2. \A j \in 1 .. n - 1 : j \in 1 .. n
      BY <1>0
    <3> HIDE DEF ci, n
    <3>3. Suspended(T[u]) <=> /\ n > 0 /\ ci[n].func = "yield"
                              /\ \A j \in 1 .. n - 1 : Continues(ci[j])
      BY DEF Suspended, ci, n
    <3>4. Len(T2[u].ci) = n
      BY DEF ci, n
    <3>5. \A j \in 1 .. n : T2[u].ci[j].func = ci[j].func
                            /\ (Continues(ci[j]) => Continues(T2[u].ci[j]))
      BY <1>0 DEF Continues
    <3>6. Suspended(T2[u]) <=> /\ n > 0 /\ T2[u].ci[n].func = "yield"
                               /\ \A j \in 1 .. n - 1 : Continues(T2[u].ci[j])
      BY <3>4 DEF Suspended
    <3> QED BY <3>1, <3>2, <3>3, <3>5, <3>6
  <2>3. T[u].status = "OK" /\ Len(ci) = 0 => Len(T2[u].ci) = 0
    OBVIOUS
  <2> QED BY <2>1, <2>2, <2>3 DEF StatusOf
<1>3. Len(C) > 0 /\ C[Len(C)].t = u /\ ~Resumes(C[Len(C)]) =>
        Alike(T[u].ci, T2[u].ci, C[Len(C)].depth)
  <2> SUFFICES ASSUME Len(C) > 0, C[Len(C)].t = u, ~Resumes(C[Len(C)])
               PROVE  Alike(T[u].ci, T2[u].ci, C[Len(C)].depth)
    OBVIOUS
  <2>1. u \in ChainOf(C) /\ C[Len(C)].depth \in Nat
    BY <1>0, ActivationsFields DEF ChainOf
  <2> QED BY <1>0, <2>1 DEF Alike
<1>4. u = MainThread /\ MainThread \notin ChainOf(C) => T2[u].nny = 1 /\ T2[u].nCcalls = 0
  BY DEF Core, Waiting
<1>5. Cut(T, C, T2, C, u)
  BY <1>0, <1>1, <1>2, <1>3, <1>4 DEF Cut, Types, IsTh
<1> QED BY <1>5, CoreCut

\* a step of one thread that only takes CallInfos and activations away
LEMMA CoreShrink ==
  ASSUME NEW T, NEW C, NEW T2, NEW C2 \in Seq(Activation), NEW u \in Threads,
         Core(T, C), IsTh(T2), T[u].status # "ERR", \A t \in Threads \ {u} : T2[t] = T[t],
         Len(C2) <= Len(C), \A i \in 1 .. Len(C2) : C2[i] = C[i],
         \A i \in Len(C2) + 1 .. Len(C) : C[i].t = u /\ C[i].depth >= Len(T2[u].ci),
         Alike(T[u].ci, T2[u].ci, Len(T2[u].ci)),
         IsInner(T2[u].ci, Len(T2[u].ci), T2[u].errfunc),
         u \in ChainOf(C2) => u = C2[Len(C2)].t,
         u \in ChainOf(C2) /\ ~Resumes(C2[Len(C2)]) => C2[Len(C2)].depth <= Len(T2[u].ci),
         StatusOf(T2, C2, u),
         u = MainThread /\ MainThread \notin ChainOf(C2) => T2[u].nny = 1 /\ T2[u].nCcalls = 0
  PROVE  Core(T2, C2)
<1> DEFINE ci  == T[u].ci
           ci2 == T2[u].ci
           n   == Len(ci2)
<1>0. /\ IsTh(T) /\ C \in Seq(Activation) /\ Len(C) \in Nat /\ Len(C2) \in Nat
      /\ ci \in Seq(CallInfo) /\ n \in Nat /\ ci2 \in Seq(CallInfo)
  BY ThreadFields DEF Core, Types, IsTh
<1>1. FramesOK(ci2, Acts(C2, u))
  <2>1. FramesOK(ci, Acts(C, u))
    BY DEF Core, Frames
  <2>2. Acts(C2, u) \subseteq Acts(C, u)
    BY <1>0 DEF Acts
  <2>3. \A a \in Acts(C, u) : a.depth \in Nat
    BY <1>0, ActivationsFields DEF Acts
  <2>4. \A a \in Acts(C, u) \ Acts(C2, u) : a.depth >= n
    <3> SUFFICES ASSUME NEW i \in 1 .. Len(C), C[i].t = u, C[i] \notin Acts(C2, u)
                 PROVE  C[i].depth >= n
      BY DEF Acts
    <3>1. i \notin 1 .. Len(C2)
      BY <1>0 DEF Acts
    <3>2. i \in Len(C2) + 1 .. Len(C)
      BY <1>0, <3>1
    <3> QED BY <3>2
  <2>5. Alike(ci, ci2, n)
    OBVIOUS
  <2> HIDE DEF ci, ci2
  <2> QED BY <1>0, <2>1, <2>2, <2>3, <2>4, <2>5, FramesCut
<1>3. Len(C2) > 0 /\ C2[Len(C2)].t = u /\ ~Resumes(C2[Len(C2)]) =>
        Alike(ci, ci2, C2[Len(C2)].depth)
  <2> SUFFICES ASSUME Len(C2) > 0, C2[Len(C2)].t = u, ~Resumes(C2[Len(C2)])
               PROVE  Alike(ci, ci2, C2[Len(C2)].depth)
    OBVIOUS
  <2>1. u \in ChainOf(C2) /\ C2[Len(C2)].depth \in Nat
    BY <1>0, ActivationsFields DEF ChainOf
  <2>2. C2[Len(C2)].depth <= n
    BY <2>1
  <2> QED BY SMTT(20), <1>0, <2>1, <2>2 DEF Alike
<1>4. \A i \in Len(C2) + 1 .. Len(C) : C[i].t = u
  OBVIOUS
<1>5. Cut(T, C, T2, C2, u)
  BY <1>0, <1>1, <1>3, <1>4 DEF Cut, Types, IsTh
<1> QED BY <1>5, CoreCut

\* a Lua function or the machine calls a function
LEMMA CorePushFrame ==
  ASSUME NEW T, NEW C, NEW T2, NEW u \in Threads, NEW f \in CallInfo,
         Core(T, C), IsTh(T2), T[u].status # "ERR", \A t \in Threads \ {u} : T2[t] = T[t],
         Len(C) > 0, u = C[Len(C)].t, Runs(C[Len(C)]),
         Len(T[u].ci) > C[Len(C)].depth, Last(T[u].ci).func = "lua",
         T2[u].ci = Append(T[u].ci, f), ~f.fresh,
         T2[u].errfunc = (IF f.func = "pcall" THEN Len(T[u].ci) + 1 ELSE T[u].errfunc),
         f.ypcall => /\ f.func = "pcall" /\ f.old_errfunc = T[u].errfunc
                     /\ \A a \in Acts(C, u) : a.inc # "nyci",
         StatusOf(T2, C, u)
  PROVE  Core(T2, C)
<1> DEFINE ci == T[u].ci
           n  == Len(ci)
           c2 == T2[u].ci
           b  == C[Len(C)]
<1>0. /\ C \in Seq(Activation) /\ Len(C) \in Nat /\ Len(C) \in 1 .. Len(C) /\ Stack(T, C)
      /\ ci \in Seq(CallInfo) /\ n \in Nat /\ c2 \in Seq(CallInfo)
      /\ b \in Activation /\ b.depth \in Nat /\ b.t = u
  BY SMTT(20), ThreadFields, ActivationsFields DEF Core, Types, IsTh
<1>1. /\ Len(c2) = n + 1 /\ c2[n + 1] = f /\ \A j \in 1 .. n : c2[j] = ci[j]
  BY <1>0
<1>2. n > b.depth /\ n > 0 /\ ci[n].func = "lua"
  BY <1>0 DEF Last
<1>3. FramesOK(ci, Acts(C, u)) /\ IsInner(ci, n, T[u].errfunc)
  BY DEF Core, Frames
<1>4. \A a \in Acts(C, u) : a.depth \in Nat /\ (a.k = "call" => a.depth < n)
  <2> SUFFICES ASSUME NEW i \in 1 .. Len(C), C[i].t = u
               PROVE  C[i].depth \in Nat /\ (C[i].k = "call" => C[i].depth < n)
    BY DEF Acts
  <2>1. C[i].depth \in Nat
    BY <1>0, ActivationsFields
  <2>2. C[i].t = C[Len(C)].t /\ (C[i].k = "call" => ~Resumes(C[i]))
    BY DEF Resumes
  <2>3. \A e \in 1 .. Len(C) : C[e].t = C[Len(C)].t /\ ~Resumes(C[e]) =>
           C[e].depth <= n /\ (C[e].k = "call" => C[e].depth < n)
    <3>1. Len(C) > 0 /\ (~Resumes(C[Len(C)]) => n >= C[Len(C)].depth)
          /\ (C[Len(C)].k = "call" => n > C[Len(C)].depth)
      BY <1>0, <1>2
    <3> HIDE DEF n, ci, b
    <3> QED BY <1>0, <3>1, DeeperThan
  <2> QED BY <2>1, <2>2, <2>3
<1>5. FramesOK(c2, Acts(C, u))
  <2>1. \A a \in Acts(C, u) : a.depth \in Nat /\ (a.k = "call" => a.depth <= n)
    BY <1>0, <1>4
  <2>2. n > 0 => Continues(ci[n])
    BY <1>2 DEF Continues
  <2>3. c2[n + 1].ypcall => IsInner(ci, n, c2[n + 1].old_errfunc)
    BY <1>1, <1>3, Zenon
  <2>4. /\ ~c2[n + 1].fresh
        /\ c2[n + 1].ypcall => c2[n + 1].func = "pcall" /\ \A a \in Acts(C, u) : a.inc # "nyci"
    BY <1>1
  <2>5. \A a \in Acts(C, u) : a.k = "call" => a.depth < n
    BY SMTT(20), <1>4
  <2>6. /\ ci \in Seq(CallInfo) /\ c2 \in Seq(CallInfo) /\ n > 0 /\ ci[n].func = "lua"
        /\ FramesOK(ci, Acts(C, u))
    BY <1>0, <1>2, <1>3
  <2> HIDE DEF ci, n, c2
  <2>7. n = Len(ci)
    BY DEF n
  <2> QED BY <1>1, <2>1, <2>2, <2>3, <2>4, <2>5, <2>6, <2>7, FramesPush
<1>6. IsInner(c2, Len(c2), T2[u].errfunc)
  <2>1. T2[u].errfunc = (IF f.func = "pcall" THEN n + 1 ELSE T[u].errfunc)
    OBVIOUS
  <2>2. n \in Nat
    BY SMTT(20), <1>0
  <2> HIDE DEF ci, c2, n
  <2>3. CASE f.func = "pcall"
    BY SMTT(20), <1>1, <2>1, <2>2, <2>3 DEF IsInner
  <2>4. CASE f.func # "pcall"
    <3>1. IsInner(c2, n, T[u].errfunc)
      BY <1>1, <1>3, <2>2 DEF IsInner
    <3>2. \A j \in 1 .. n + 1 : j = n + 1 \/ j \in 1 .. n
      BY <2>2
    <3> QED BY SMTT(20), <1>1, <2>1, <2>2, <2>4, <3>1, <3>2 DEF IsInner
  <2> QED BY <2>3, <2>4
<1>7. Alike(ci, c2, b.depth)
  <2> DEFINE d == b.depth
  <2>1. d \in Nat /\ d <= n /\ d <= Len(c2) /\ \A j \in 1 .. d : c2[j] = ci[j]
    BY <1>0, <1>1, <1>2
  <2>2. n = Len(ci)
    OBVIOUS
  <2> HIDE DEF ci, c2, n, d
  <2>3. Alike(ci, c2, d)
    BY <2>1, <2>2 DEF Alike
  <2> QED BY SMTT(20), <2>3 DEF d
<1>8. u \in ChainOf(C)
  BY SMTT(20), <1>0 DEF ChainOf
<1>9. Cut(T, C, T2, C, u)
  <2>1. Len(C) > 0 /\ C[Len(C)].t = u /\ ~Resumes(C[Len(C)]) =>
          Alike(T[u].ci, T2[u].ci, C[Len(C)].depth)
    BY SMTT(20), <1>7
  <2>2. FramesOK(T2[u].ci, Acts(C, u)) /\ IsInner(T2[u].ci, Len(T2[u].ci), T2[u].errfunc)
    BY <1>5, <1>6
  <2>3. Types(T2, C)
    BY <1>0 DEF Types, IsTh
  <2>4. Len(C) <= Len(C) /\ \A i \in Len(C) + 1 .. Len(C) : C[i].t = u
    BY <1>0
  <2>5. \A i \in 1 .. Len(C) : C[i] = C[i]
    OBVIOUS
  <2> HIDE DEF ci, n, c2, b
  <2> QED BY <1>8, <2>1, <2>2, <2>3, <2>4, <2>5, Zenon DEF Cut
<1> QED BY <1>9, CoreCut

\* ccall can be called
CallReady(T, C, inc) ==
  LET b  == C[Len(C)]
      ci == T[b.t].ci
      n  == Len(ci)
  IN  /\ Len(C) > 0 /\ T[b.t].status = "OK"
      /\ b.k = "prot" => \/ b.use = "resume" /\ inc = "none" /\ n = 0
                         \/ b.use = "pcall" /\ inc = "nyci" /\ n = b.depth
      /\ b.k = "close" => n = b.depth /\ inc = (IF b.yy THEN "yieldable" ELSE "nyci")
      /\ Runs(b) => /\ n > b.depth
                    /\ \/ inc = "nyci" /\ ci[n].func = "call"
                       \/ inc = "yieldable" /\ Continues(ci[n])
      /\ n > 0 => \/ Continues(ci[n])
                  \/ ci[n].func = "call" /\ inc = "nyci"
                  \/ Owns(Acts(C, b.t), ci, n)

LEMMA CallBegins ==
  ASSUME NEW T, NEW C, NEW md, NEW inc \in {"none", "yieldable", "nyci"},
         NEW of \in Variables \cup {None}, Core(T, C), Live(T, C), CallReady(T, C, inc),
         NEW m, m = Ccall(MS(T, C, md), C[Len(C)].t, inc, of)
  PROVE  Inv(m.th, m.cs, m.mode)
<1> DEFINE p  == Len(C)
           b  == C[p]
           t  == b.t
           ci == T[t].ci
           n  == Len(ci)
           s  == CallCounters(T[t], inc)
           T1 == Upd(T, t, s)
           f  == CallFrame(T[t], of)
           a  == CallAct(T[t], t, inc)
           C2 == Append(C, a)
           c2 == Append(ci, f)
           s2 == WithCI(s, c2)
           T2 == Upd(T, t, s2)
<1>s. Core(T, C) /\ IsTh(T) /\ C \in Seq(Activation) /\ Stack(T, C)
  BY DEF Core, Types, IsTh
<1>p. p \in Nat /\ p \in 1 .. p
  BY <1>s DEF CallReady
<1>b. b \in Activation /\ b.depth \in Nat /\ t \in Threads
  BY <1>s, <1>p, ActivationsFields
<1>t. T[t] \in LuaState
  BY <1>s, <1>b, ThreadFields DEF IsTh
<1>u. T[t].nny \in Nat /\ T[t].nCcalls \in Nat
  BY <1>s, <1>b, ThreadFields DEF IsTh
<1>n. ci \in Seq(CallInfo) /\ n \in Nat
  BY <1>s, <1>b, ThreadFields DEF IsTh
<1>c. t \in ChainOf(C) /\ ~T[t].body /\ T[t].status = "OK"
  BY <1>s, <1>p, <1>b DEF ChainOf, CallReady, Core, States, StatusOf
\* what the names stand for
<1>e. b = C[p] /\ p = Len(C)
  OBVIOUS
<1>f. t = b.t
  OBVIOUS
<1>g. ci = T[t].ci
  OBVIOUS
<1>h. n = Len(ci)
  OBVIOUS
<1>r. /\ b.k = "prot" => \/ b.use = "resume" /\ inc = "none" /\ n = 0
                         \/ b.use = "pcall" /\ inc = "nyci" /\ n = b.depth
      /\ b.k = "close" => n = b.depth /\ inc = (IF b.yy THEN "yieldable" ELSE "nyci")
      /\ Runs(b) => /\ n > b.depth
                    /\ \/ inc = "nyci" /\ ci[n].func = "call"
                       \/ inc = "yieldable" /\ Continues(ci[n])
      /\ n > 0 => \/ Continues(ci[n])
                  \/ ci[n].func = "call" /\ inc = "nyci"
                  \/ Owns(Acts(C, t), ci, n)
  BY DEF CallReady
<1>l. T[t].nny = Nyci(C, t, p) /\ T[t].nCcalls = Cnt(C, p)
  BY <1>p DEF Live, CountedTo
<1>i. FramesOK(ci, Acts(C, t)) /\ IsInner(ci, n, T[t].errfunc)
  BY <1>s, <1>b, <1>c DEF Core, Frames
<1>m. m = Ccall(MS(T, C, md), t, inc, of)
  OBVIOUS
<1> HIDE DEF p, b, t, ci, n
<1>1. ~Resumes(b) => b.depth <= n
  BY <1>b, <1>n, <1>r, ActivationFields DEF Resumes, Runs
<1>2. /\ s \in LuaState /\ s.ci = ci /\ s.status = "OK" /\ s.body = T[t].body
      /\ s.errfunc = T[t].errfunc
      /\ s.nny = T[t].nny + (IF inc = "nyci" THEN 1 ELSE 0)
      /\ s.nCcalls = T[t].nCcalls + (IF inc = "none" THEN 0 ELSE 1)
  BY <1>t, <1>c, <1>g, CountersFields
<1>3. /\ IsTh(T1) /\ T1[t] = s /\ \A u \in Threads \ {t} : T1[u] = T[u]
  <2> HIDE DEF s
  <2> QED BY <1>s, <1>b, <1>2, OneThread
<1>4. Inv(T1, C, "ERR")
  <2> HIDE DEF s, T1
  <2>0. T1[t].ci = ci /\ T1[t].status = "OK"
    BY <1>2, <1>3
  <2>1. Core(T1, C)
    <3>1. Alike(ci, ci, n)
      BY <1>n, <1>h DEF Alike
    <3>2. Alike(T[t].ci, T1[t].ci, Len(T[t].ci)) /\ Len(T1[t].ci) = Len(T[t].ci)
      BY <3>1, <2>0, <1>g, <1>h
    <3>3. C[Len(C)] = b /\ C[Len(C)].t = t /\ Len(T[t].ci) = n
      BY <1>e, <1>f, <1>g, <1>h
    <3>4. t \in Threads /\ IsTh(T1) /\ \A u \in Threads \ {t} : T1[u] = T[u]
      BY <1>b, <1>3
    <3>5. T1[t].status = T[t].status /\ T1[t].body = T[t].body /\ T1[t].errfunc = T[t].errfunc
      BY <1>c, <1>2, <1>3
    <3>6. /\ t \in ChainOf(C) /\ t = C[Len(C)].t
          /\ ~Resumes(C[Len(C)]) => C[Len(C)].depth <= Len(T[t].ci)
      BY <1>c, <1>1, <3>3
    <3> QED BY <1>s, <3>2, <3>4, <3>5, <3>6, CoreQuiet
  <2>2. OnTop(ci, b, Acts(C, t), "ERR")
    BY <1>b, <1>n, <1>h, <1>r DEF OnTop, Continues
  <2> QED BY <1>p, <1>e, <1>f, <2>0, <2>1, <2>2 DEF Inv, TopOf
<1>5. /\ a \in Activation /\ a.t = t /\ a.k = "call" /\ a.inc = inc /\ a.depth = n
  BY <1>b, <1>t, <1>g, <1>h, CallActFields
<1>6. /\ C2 \in Seq(Activation) /\ Len(C2) = p + 1 /\ C2[p + 1] = a
      /\ \A i \in 1 .. p : C2[i] = C[i]
  <2> HIDE DEF a
  <2> QED BY <1>s, <1>e, <1>5
<1> HIDE DEF a, C2
<1>7. Deeper(C2, p + 1)
  <2>1. b.k = "call" => n > b.depth
    BY <1>r DEF Runs
  <2>2. Len(C) > 0 /\ C[Len(C)] = b
    BY <1>e, <1>p
  <2>3. \A e \in 1 .. p : C[e].t = t /\ ~Resumes(C[e]) =>
          C[e].depth <= n /\ (C[e].k = "call" => C[e].depth < n)
    BY <1>s, <1>n, <1>e, <1>f, <1>1, <2>1, <2>2, DeeperThan
  <2>4. (p + 1) - 1 = p
    BY <1>p
  <2> QED BY <1>5, <1>6, <2>3, <2>4 DEF Deeper
<1>8. Good(T, C2, p + 1)
  <2>1. p + 1 # 1 /\ (p + 1) - 1 = p /\ C2[p] = b
    BY <1>p, <1>e, <1>6
  <2>2. Together(C2, p + 1)
    <3> SUFFICES ASSUME NEW e \in 1 .. p + 1, C2[e].t = t, NEW j \in e .. p + 1
                 PROVE  C2[j].t = t
      BY <1>5, <1>6 DEF Together
    <3>1. CASE j = p + 1
      BY <1>5, <1>6, <3>1
    <3>2. CASE j # p + 1
      <4>1. e \in 1 .. p /\ j \in e .. p /\ j \in 1 .. p
        BY <1>p, <3>2
      <4>2. C[e].t = t /\ C[p].t = t
        BY <1>6, <1>e, <1>f, <4>1
      <4>3. Together(C, p)
        BY <1>s, <1>p, <1>e DEF Stack, Good
      <4>4. C[j].t = t
        BY <4>1, <4>2, <4>3 DEF Together
      <4> QED BY <1>6, <4>1, <4>4
    <3> QED BY <3>1, <3>2
  <2>3. Linked(ci, a, b)
    BY <1>n, <1>h, <1>b, <1>r, <1>5 DEF Linked, LinkedProt, LinkedClose, LinkedCall,
                                        LinkedUnroll, Continues, Runs
  <2>4. ~First(C2, p + 1) /\ Saved(C2, p + 1)
    BY <1>f, <1>5, <1>6, <2>1 DEF First, Saved
  <2> QED BY <1>g, <1>5, <1>6, <1>7, <2>1, <2>2, <2>3, <2>4 DEF Good
<1>9. Core(T, C2)
  <2>1. Len(C2) = Len(C) + 1 /\ C2[Len(C) + 1] = a /\ Good(T, C2, Len(C) + 1)
        /\ (\A i \in 1 .. Len(C) : C2[i] = C[i]) /\ C[Len(C)].t = a.t
    BY <1>e, <1>f, <1>5, <1>6, <1>8
  <2>2. a.depth >= Len(T[a.t].ci) /\ ~T[a.t].body /\ T[a.t].status = "OK"
    BY <1>n, <1>c, <1>g, <1>h, <1>5
  <2> QED BY <1>s, <1>6, <2>1, <2>2, CorePush
<1>10. /\ f \in CallInfo /\ f.func = "lua" /\ f.fresh /\ ~f.ypcall
  BY <1>t, CallFrameFields
<1>11. /\ c2 \in Seq(CallInfo) /\ Len(c2) = n + 1 /\ c2[n + 1] = f
       /\ \A j \in 1 .. n : c2[j] = ci[j]
  <2> HIDE DEF f
  <2> QED BY <1>n, <1>h, <1>10
<1> HIDE DEF f, c2, s
<1>12. /\ s2 \in LuaState /\ s2.ci = c2 /\ s2.status = "OK" /\ s2.body = T[t].body
       /\ s2.errfunc = T[t].errfunc /\ s2.nny = s.nny /\ s2.nCcalls = s.nCcalls
  BY <1>2, <1>11, OneList
<1> HIDE DEF s2
<1>13. /\ IsTh(T2) /\ T2[t] = s2 /\ \A u \in Threads \ {t} : T2[u] = T[u]
  BY <1>s, <1>b, <1>12, OneThread
<1> HIDE DEF T2
<1>14. FramesOK(c2, Acts(C2, t)) /\ IsInner(c2, n + 1, T[t].errfunc)
  <2> DEFINE A == Acts(C2, t)
  <2>1. FramesOK(ci, A)
    BY <1>b, <1>c, <1>9, <1>g DEF Core, Frames
  <2>2. a \in A
    BY <1>p, <1>5, <1>6 DEF Acts
  <2>3. \A x \in A : x.depth \in Nat /\ (x.k = "call" => x.depth <= n)
    <3> SUFFICES ASSUME NEW i \in 1 .. p + 1, C2[i].t = t
                 PROVE  C2[i].depth \in Nat /\ (C2[i].k = "call" => C2[i].depth <= n)
      BY <1>6 DEF Acts
    <3>1. C2[i].depth \in Nat
      BY <1>6, ActivationsFields
    <3>2. CASE i = p + 1
      BY <1>n, <1>5, <1>6, <3>2
    <3>3. CASE i # p + 1
      <4>1. i \in 1 .. (p + 1) - 1
        BY <1>p, <3>3
      <4> QED BY <1>n, <1>5, <1>6, <1>7, <3>1, <4>1 DEF Deeper, Resumes
    <3> QED BY <3>2, <3>3
  <2>4. \A x \in Acts(C, t) : x \in A
    BY <1>p, <1>e, <1>6 DEF Acts
  <2> HIDE DEF A
  <2>5. n > 0 => Continues(ci[n]) \/ Owns(A, ci, n)
    <3>1. Owns(Acts(C, t), ci, n) => Owns(A, ci, n)
      BY <2>4 DEF Owns
    <3>2. ci[n].func = "call" /\ inc = "nyci" => Owns(A, ci, n)
      BY <1>5, <2>2 DEF Owns
    <3> QED BY <1>r, <3>1, <3>2
  <2>6. \E x \in A : x.k = "call" /\ x.depth = n
    BY <1>5, <2>2
  <2>7. FramesOK(c2, A)
    BY <1>n, <1>h, <1>10, <1>11, <2>1, <2>3, <2>5, <2>6, FramesPush
  <2>8. IsInner(c2, n + 1, T[t].errfunc)
    BY <1>n, <1>i, <1>10, <1>11 DEF IsInner
  <2> QED BY <2>7, <2>8 DEF A
<1>15. Core(T2, C2)
  <2>1. Alike(ci, c2, n)
    BY <1>n, <1>h, <1>11 DEF Alike
  <2>2. C2[Len(C2)] = a /\ a.depth = n /\ a.t = t
    BY <1>5, <1>6
  <2>3. t \in ChainOf(C2)
    BY <1>p, <1>5, <1>6 DEF ChainOf
  <2>4. StatusOf(T2, C2, t)
    <3>1. StatusOf(T, C2, t)
      BY <1>b, <1>9 DEF Core, States
    <3>2. T2[t].status = "OK" /\ T2[t].body = T[t].body
      BY <1>12, <1>13
    <3> QED BY <1>c, <2>3, <3>1, <3>2 DEF StatusOf
  <2>5. T2[t].ci = c2 /\ T2[t].errfunc = T[t].errfunc /\ Len(c2) = n + 1
    BY <1>11, <1>12, <1>13
  <2>6. Len(C2) > 0 /\ C2[Len(C2)].t = t /\ ~Resumes(C2[Len(C2)]) =>
          Alike(T[t].ci, T2[t].ci, C2[Len(C2)].depth)
    BY <1>g, <2>1, <2>2, <2>5
  <2>7. FramesOK(T2[t].ci, Acts(C2, t)) /\ IsInner(T2[t].ci, Len(T2[t].ci), T2[t].errfunc)
    BY <1>14, <2>5
  <2>8. Types(T2, C2)
    BY <1>6, <1>13 DEF Types, IsTh
  <2>9. Cut(T, C2, T2, C2, t)
    BY <1>p, <1>6, <1>13, <2>2, <2>3, <2>4, <2>6, <2>7, <2>8 DEF Cut
  <2>10. t \in Threads
    BY <1>b
  <2> QED BY <1>9, <2>9, <2>10, CoreCut
<1>16. Live(T2, C2)
  <2>1. Nyci(C2, t, p) = Nyci(C, t, p) /\ Cnt(C2, p) = Cnt(C, p)
    BY <1>6, SameCount, SameNyci
  <2>2. Cnt(C2, p + 1) = Cnt(C2, p) + (IF Counts(C2[p + 1]) THEN 1 ELSE 0)
    BY <1>p, OneMore
  <2>3. Nyci(C2, t, p + 1) = Nyci(C2, t, p)
                             + (IF C2[p + 1].t = t /\ C2[p + 1].inc = "nyci" THEN 1 ELSE 0)
    BY <1>p, OneMore
  <2>4. Counts(C2[p + 1]) <=> inc # "none"
    BY <1>5, <1>6 DEF Counts
  <2>5. T2[t].nny = Nyci(C2, t, p + 1)
    BY <1>l, <1>2, <1>5, <1>6, <1>12, <1>13, <2>1, <2>3
  <2>6. T2[t].nCcalls = Cnt(C2, p + 1)
    BY <1>l, <1>u, <1>2, <1>12, <1>13, <2>1, <2>2, <2>4
  <2> QED BY <1>5, <1>6, <2>5, <2>6 DEF Live, CountedTo
<1>17. TopOf(T2, C2, "run")
  <2>1. OnTop(c2, a, Acts(C2, t), "run")
    BY <1>n, <1>5, <1>10, <1>11 DEF OnTop, Runs
  <2>2. T2[t].ci = c2 /\ T2[t].status = "OK"
    BY <1>12, <1>13
  <2>3. Len(C2) > 0 /\ C2[Len(C2)] = a /\ a.t = t
    BY <1>p, <1>5, <1>6
  <2> QED BY <2>1, <2>2, <2>3 DEF TopOf
<1>18. Inv(T2, C2, "run")
  BY <1>15, <1>16, <1>17 DEF Inv
<1>19. m = MS(T1, C, "ERR") \/ m = MS(T2, C2, "run")
  <2>1. \/ m = MS(Upd(T, t, s), C, "ERR")
        \/ m = MS(Upd(T, t, WithCI(s, Append(T[t].ci, f))), Append(C, a), "run")
    BY <1>s, <1>b, <1>m, CcallIs DEF s, f, a
  <2> QED BY <2>1, <1>g DEF T2, s2, c2, C2
<1> HIDE DEF T1
<1> QED BY <1>4, <1>18, <1>19 DEF MS

-----------------------------------------------------------------------------
(* Machine states, and what the operations do to them *)

IsM(m) == m \in [th : [Threads -> LuaState], cs : Seq(Activation),
                 mode : {"run", "return", "ERR", "YIELD"}]
InvM(m) == Inv(m.th, m.cs, m.mode)
Others(T, T2, u) == \A t \in Threads \ {u} : T2[t] = T[t]

LEMMA MachineParts ==
  ASSUME NEW m, IsM(m)
  PROVE  /\ IsTh(m.th) /\ m.cs \in Seq(Activation) /\ m.mode \in {"run", "return", "ERR", "YIELD"}
         /\ m = MS(m.th, m.cs, m.mode)
  BY DEF IsM, IsTh, MS

LEMMA InFacts ==
  ASSUME NEW m, IsM(m), NEW md \in {"run", "return", "ERR", "YIELD"}
  PROVE  /\ IsM(In(m, md)) /\ In(m, md).th = m.th /\ In(m, md).cs = m.cs
         /\ In(m, md).mode = md
  BY DEF IsM, In

LEMMA PushCFacts ==
  ASSUME NEW m, IsM(m), NEW a \in Activation
  PROVE  /\ IsM(PushC(m, a)) /\ PushC(m, a).th = m.th /\ PushC(m, a).cs = Append(m.cs, a)
         /\ PushC(m, a).mode = m.mode
<1>1. Append(m.cs, a) \in Seq(Activation)
  BY DEF IsM
<1> QED BY <1>1 DEF IsM, PushC

LEMMA FrontFacts ==
  ASSUME NEW S, NEW s \in Seq(S), Len(s) > 0
  PROVE  /\ Front(s) \in Seq(S) /\ Len(Front(s)) = Len(s) - 1
         /\ \A i \in 1 .. Len(s) - 1 : Front(s)[i] = s[i]
<1> DEFINE n == Len(s) - 1
<1>1. n \in Int /\ 1 \in Int /\ n >= 0 /\ \A i \in 1 .. n : s[i] \in S
  OBVIOUS
<1>3. /\ SubSeq(s, 1, n) \in Seq(S)
      /\ Len(SubSeq(s, 1, n)) = IF 1 <= n THEN n - 1 + 1 ELSE 0
      /\ \A i \in 1 .. n - 1 + 1 : SubSeq(s, 1, n)[i] = s[1 + i - 1]
  <2> HIDE DEF n
  <2> QED BY <1>1, SubSeqProperties
<1>4. Front(s) = SubSeq(s, 1, n)
  BY DEF Front
<1>5. /\ n - 1 + 1 = n
      /\ 1 <= n \/ n = 0
      /\ \A i \in 1 .. n : 1 + i - 1 = i
  <2> HIDE DEF n
  <2> QED BY <1>1
<1>6. n = Len(s) - 1
  OBVIOUS
<1> DEFINE q == SubSeq(s, 1, n)
<1> HIDE DEF n, q
<1>7. q \in Seq(S)
  BY <1>3 DEF q
<1>8. Len(q) = n
  BY <1>1, <1>3, <1>5 DEF q
<1>9. \A i \in 1 .. n : q[i] = s[i]
  BY <1>1, <1>3, <1>5 DEF q
<1> QED BY <1>4, <1>6, <1>7, <1>8, <1>9 DEF q

LEMMA PopCFacts ==
  ASSUME NEW m, IsM(m), Len(m.cs) > 0
  PROVE  /\ IsM(PopC(m)) /\ PopC(m).th = m.th /\ PopC(m).cs = Front(m.cs)
         /\ PopC(m).mode = m.mode
<1>1. Front(m.cs) \in Seq(Activation)
  BY FrontFacts DEF IsM
<1> QED BY <1>1 DEF IsM, PopC

\* only ci of t changes
OnlyCI(m, m2, t) ==
  /\ IsM(m2) /\ m2.cs = m.cs /\ m2.mode = m.mode /\ Others(m.th, m2.th, t)
  /\ m2.th[t].status = m.th[t].status /\ m2.th[t].body = m.th[t].body
  /\ m2.th[t].nny = m.th[t].nny /\ m2.th[t].nCcalls = m.th[t].nCcalls
  /\ m2.th[t].tbclist = m.th[t].tbclist

SetCI(m, t, ci) == [m EXCEPT !.th[t].ci = ci]
LEMMA SetCIFacts ==
  ASSUME NEW m, IsM(m), NEW t \in Threads, NEW ci \in Seq(CallInfo)
  PROVE  /\ OnlyCI(m, SetCI(m, t, ci), t) /\ SetCI(m, t, ci).th[t].ci = ci
         /\ SetCI(m, t, ci).th[t].errfunc = m.th[t].errfunc
<1>1. m.th[t] \in LuaState
  BY DEF IsM
<1>2. [m.th[t] EXCEPT !.ci = ci] \in LuaState
  BY <1>1 DEF LuaState
<1>3. SetCI(m, t, ci) = [m EXCEPT !.th = [m.th EXCEPT ![t] = [m.th[t] EXCEPT !.ci = ci]]]
  BY DEF SetCI, IsM
<1>4. [m.th EXCEPT ![t] = [m.th[t] EXCEPT !.ci = ci]] \in [Threads -> LuaState]
  BY <1>2 DEF IsM
<1>5. IsM(SetCI(m, t, ci)) /\ SetCI(m, t, ci).cs = m.cs /\ SetCI(m, t, ci).mode = m.mode
      /\ SetCI(m, t, ci).th = [m.th EXCEPT ![t] = [m.th[t] EXCEPT !.ci = ci]]
  BY <1>3, <1>4 DEF IsM
<1>6. Others(m.th, SetCI(m, t, ci).th, t)
  BY <1>5 DEF Others, IsM
<1>7. SetCI(m, t, ci).th[t] = [m.th[t] EXCEPT !.ci = ci]
  BY <1>5 DEF IsM
<1> QED BY <1>1, <1>5, <1>6, <1>7 DEF OnlyCI, LuaState

LEMMA PushCIFacts ==
  ASSUME NEW m, IsM(m), NEW t \in Threads, NEW f \in CallInfo
  PROVE  /\ OnlyCI(m, PushCI(m, t, f), t) /\ PushCI(m, t, f).th[t].ci = Append(m.th[t].ci, f)
         /\ PushCI(m, t, f).th[t].errfunc = m.th[t].errfunc
<1> DEFINE ci == Append(m.th[t].ci, f)
<1>1. ci \in Seq(CallInfo)
  BY DEF IsM, LuaState
<1>2. PushCI(m, t, f) = SetCI(m, t, ci)
  BY DEF PushCI, SetCI, IsM
<1> HIDE DEF ci
<1>3. /\ OnlyCI(m, SetCI(m, t, ci), t) /\ SetCI(m, t, ci).th[t].ci = ci
      /\ SetCI(m, t, ci).th[t].errfunc = m.th[t].errfunc
  BY <1>1, SetCIFacts
<1> QED BY <1>2, <1>3 DEF ci

LEMMA PopCIFacts ==
  ASSUME NEW m, IsM(m), NEW t \in Threads, Len(m.th[t].ci) > 0
  PROVE  /\ OnlyCI(m, PopCI(m, t), t) /\ PopCI(m, t).th[t].ci = Front(m.th[t].ci)
         /\ PopCI(m, t).th[t].errfunc = m.th[t].errfunc
<1>1. Front(m.th[t].ci) \in Seq(CallInfo)
  BY FrontFacts DEF IsM, LuaState
<1>2. PopCI(m, t) = SetCI(m, t, Front(m.th[t].ci))
  BY DEF PopCI, SetCI, IsM
<1> QED BY <1>1, <1>2, SetCIFacts

SetErr(m, t, e) == [m EXCEPT !.th[t].errfunc = e]
LEMMA SetErrFacts ==
  ASSUME NEW m, IsM(m), NEW t \in Threads, NEW e \in Nat
  PROVE  /\ OnlyCI(m, SetErr(m, t, e), t) /\ SetErr(m, t, e).th[t].ci = m.th[t].ci
         /\ SetErr(m, t, e).th[t].errfunc = e
<1>1. m.th[t] \in LuaState
  BY DEF IsM
<1>2. [m.th[t] EXCEPT !.errfunc = e] \in LuaState
  BY <1>1 DEF LuaState
<1>3. SetErr(m, t, e) = [m EXCEPT !.th = [m.th EXCEPT ![t] = [m.th[t] EXCEPT !.errfunc = e]]]
  BY DEF SetErr, IsM
<1>4. [m.th EXCEPT ![t] = [m.th[t] EXCEPT !.errfunc = e]] \in [Threads -> LuaState]
  BY <1>2 DEF IsM
<1>5. IsM(SetErr(m, t, e)) /\ SetErr(m, t, e).cs = m.cs /\ SetErr(m, t, e).mode = m.mode
      /\ SetErr(m, t, e).th = [m.th EXCEPT ![t] = [m.th[t] EXCEPT !.errfunc = e]]
  BY <1>3, <1>4 DEF IsM
<1>6. Others(m.th, SetErr(m, t, e).th, t)
  BY <1>5 DEF Others, IsM
<1>7. SetErr(m, t, e).th[t] = [m.th[t] EXCEPT !.errfunc = e]
  BY <1>5 DEF IsM
<1> QED BY <1>1, <1>5, <1>6, <1>7 DEF OnlyCI, LuaState

LEMMA PrefixFacts ==
  ASSUME NEW S, NEW s \in Seq(S), NEW n \in 0 .. Len(s)
  PROVE  /\ SubSeq(s, 1, n) \in Seq(S) /\ Len(SubSeq(s, 1, n)) = n
         /\ \A i \in 1 .. n : SubSeq(s, 1, n)[i] = s[i]
<1>1. n \in Nat /\ n \in Int /\ 1 \in Int /\ \A i \in 1 .. n : s[i] \in S
  OBVIOUS
<1> DEFINE q == SubSeq(s, 1, n)
<1>2. /\ q \in Seq(S)
      /\ Len(q) = IF 1 <= n THEN n - 1 + 1 ELSE 0
      /\ \A i \in 1 .. n - 1 + 1 : q[i] = s[1 + i - 1]
  BY <1>1, SubSeqProperties
<1>3. /\ n - 1 + 1 = n
      /\ 1 <= n \/ n = 0
      /\ \A i \in 1 .. n : 1 + i - 1 = i
  BY <1>1
<1> HIDE DEF q
<1>4. Len(q) = n
  BY <1>1, <1>2, <1>3
<1>5. \A i \in 1 .. n : q[i] = s[i]
  BY <1>1, <1>2, <1>3
<1> QED BY <1>2, <1>4, <1>5 DEF q

SetT(m, t, s) == [m EXCEPT !.th[t] = s]
LEMMA SetTFacts ==
  ASSUME NEW m, IsM(m), NEW t \in Threads, NEW s \in LuaState
  PROVE  /\ IsM(SetT(m, t, s)) /\ SetT(m, t, s).cs = m.cs /\ SetT(m, t, s).mode = m.mode
         /\ SetT(m, t, s).th[t] = s /\ Others(m.th, SetT(m, t, s).th, t)
<1>1. SetT(m, t, s) = [m EXCEPT !.th = [m.th EXCEPT ![t] = s]]
  BY DEF SetT, IsM
<1>2. [m.th EXCEPT ![t] = s] \in [Threads -> LuaState]
  BY DEF IsM
<1>3. IsM(SetT(m, t, s)) /\ SetT(m, t, s).cs = m.cs /\ SetT(m, t, s).mode = m.mode
      /\ SetT(m, t, s).th = [m.th EXCEPT ![t] = s]
  BY <1>1, <1>2 DEF IsM
<1> QED BY <1>3 DEF Others, IsM

\* only the counters of t change
OnlyCounters(m, m2, t) ==
  /\ IsM(m2) /\ m2.cs = m.cs /\ m2.mode = m.mode /\ Others(m.th, m2.th, t)
  /\ m2.th[t].status = m.th[t].status /\ m2.th[t].body = m.th[t].body
  /\ m2.th[t].ci = m.th[t].ci /\ m2.th[t].errfunc = m.th[t].errfunc
  /\ m2.th[t].tbclist = m.th[t].tbclist

SetCounters(m, t, c, y) == SetT(m, t, [m.th[t] EXCEPT !.nCcalls = c, !.nny = y])
LEMMA SetCountersFacts ==
  ASSUME NEW m, IsM(m), NEW t \in Threads, NEW c \in Nat, NEW y \in Nat
  PROVE  /\ OnlyCounters(m, SetCounters(m, t, c, y), t)
         /\ SetCounters(m, t, c, y).th[t].nCcalls = c /\ SetCounters(m, t, c, y).th[t].nny = y
<1> DEFINE s == [m.th[t] EXCEPT !.nCcalls = c, !.nny = y]
<1>1. m.th[t] \in LuaState
  BY DEF IsM
<1>2. /\ s \in LuaState /\ s.nCcalls = c /\ s.nny = y /\ s.status = m.th[t].status
      /\ s.body = m.th[t].body /\ s.ci = m.th[t].ci /\ s.errfunc = m.th[t].errfunc
      /\ s.tbclist = m.th[t].tbclist
  BY <1>1 DEF LuaState
<1>3. SetCounters(m, t, c, y) = SetT(m, t, s)
  BY DEF SetCounters
<1> HIDE DEF s
<1> QED BY <1>2, <1>3, SetTFacts DEF OnlyCounters

LEMMA RestoreFacts ==
  ASSUME NEW m, IsM(m), NEW p \in Activation
  PROVE  /\ OnlyCounters(m, Restore(m, p), p.t)
         /\ Restore(m, p).th[p.t].nCcalls = p.nCcalls /\ Restore(m, p).th[p.t].nny = p.nny
<1>1. p.t \in Threads /\ p.nCcalls \in Nat /\ p.nny \in Nat
  BY ActivationFields
<1>2. \A t \in Threads : \A c, y : [m EXCEPT !.th[t].nCcalls = c, !.th[t].nny = y]
                                  = SetCounters(m, t, c, y)
  BY ZenonT(40) DEF SetCounters, SetT, IsM
<1>3. Restore(m, p) = SetCounters(m, p.t, p.nCcalls, p.nny)
  BY Zenon, <1>1, <1>2 DEF Restore
<1> QED BY <1>1, <1>3, SetCountersFacts

LEMMA EndCcallFacts ==
  ASSUME NEW m, IsM(m), Len(m.cs) > 0, NEW t \in Threads, NEW inc, NEW c \in Nat, NEW y \in Nat,
         m.th[t].nCcalls = c + (IF inc = "none" THEN 0 ELSE 1),
         m.th[t].nny = y + (IF inc = "nyci" THEN 1 ELSE 0)
  PROVE  /\ OnlyCounters(PopC(m), EndCcall(m, t, inc), t)
         /\ EndCcall(m, t, inc).th[t].nCcalls = c /\ EndCcall(m, t, inc).th[t].nny = y
<1> DEFINE i == IF inc = "none" THEN 0 ELSE 1
           k == IF inc = "nyci" THEN 1 ELSE 0
           m1 == [m EXCEPT !.th[t].nCcalls = @ - i, !.th[t].nny = @ - k]
<1>1. i \in Nat /\ k \in Nat /\ m.th[t].nCcalls = c + i /\ m.th[t].nny = y + k
  OBVIOUS
<1>2. m1 = SetCounters(m, t, m.th[t].nCcalls - i, m.th[t].nny - k)
  <2> HIDE DEF i, k
  <2> QED BY DEF SetCounters, SetT, IsM
<1>3. m.th[t].nCcalls - i = c /\ m.th[t].nny - k = y
  <2> HIDE DEF i, k
  <2> QED BY <1>1
<1>4. OnlyCounters(m, m1, t) /\ m1.th[t].nCcalls = c /\ m1.th[t].nny = y
  <2> HIDE DEF m1, i, k
  <2> QED BY <1>2, <1>3, SetCountersFacts
<1>5. EndCcall(m, t, inc) = PopC(m1)
  BY DEF EndCcall
<1> HIDE DEF m1
<1>6. /\ IsM(m1) /\ m1.cs = m.cs /\ m1.mode = m.mode /\ Others(m.th, m1.th, t)
      /\ m1.th[t].status = m.th[t].status /\ m1.th[t].body = m.th[t].body
      /\ m1.th[t].ci = m.th[t].ci /\ m1.th[t].errfunc = m.th[t].errfunc
      /\ m1.th[t].tbclist = m.th[t].tbclist
  BY <1>4 DEF OnlyCounters
<1>7. IsM(PopC(m1)) /\ PopC(m1).th = m1.th /\ PopC(m1).cs = Front(m1.cs) /\ PopC(m1).mode = m1.mode
  BY <1>6, PopCFacts
<1>8. IsM(PopC(m)) /\ PopC(m).th = m.th /\ PopC(m).cs = Front(m.cs) /\ PopC(m).mode = m.mode
  BY PopCFacts
<1> QED BY <1>4, <1>5, <1>6, <1>7, <1>8 DEF OnlyCounters

LEMMA EndPcallkFacts ==
  ASSUME NEW m, IsM(m), NEW t \in Threads, Len(m.th[t].ci) > 0
  PROVE  /\ OnlyCI(m, EndPcallk(m, t), t) /\ EndPcallk(m, t).th[t].ci = Front(m.th[t].ci)
         /\ EndPcallk(m, t).th[t].errfunc = Last(m.th[t].ci).old_errfunc
<1> DEFINE e  == Last(m.th[t].ci).old_errfunc
           m1 == SetErr(m, t, e)
<1>1. e \in Nat
  <2>1. m.th[t].ci \in Seq(CallInfo)
    BY DEF IsM, LuaState
  <2>2. Last(m.th[t].ci) \in CallInfo
    BY <2>1 DEF Last
  <2> QED BY <2>2, CallInfoFields
<1>2. EndPcallk(m, t) = PopCI(m1, t)
  BY DEF EndPcallk, SetErr
<1> HIDE DEF e
<1>3. /\ OnlyCI(m, m1, t) /\ m1.th[t].ci = m.th[t].ci /\ m1.th[t].errfunc = e
  BY <1>1, SetErrFacts
<1> HIDE DEF m1
<1>4. /\ OnlyCI(m1, PopCI(m1, t), t) /\ PopCI(m1, t).th[t].ci = Front(m1.th[t].ci)
      /\ PopCI(m1, t).th[t].errfunc = m1.th[t].errfunc
  BY <1>3, PopCIFacts DEF OnlyCI
<1> QED BY <1>2, <1>3, <1>4 DEF OnlyCI, Others, e

LEMMA EndPcallFacts ==
  ASSUME NEW m, IsM(m), NEW p \in Activation
  PROVE  /\ OnlyCI(In(m, "run"), EndPcall(m, p), p.t)
         /\ EndPcall(m, p).th[p.t].ci =
              IF Len(m.th[p.t].ci) = 0 THEN m.th[p.t].ci ELSE Front(m.th[p.t].ci)
         /\ EndPcall(m, p).th[p.t].errfunc = p.errfunc
<1> DEFINE t  == p.t
           e  == p.errfunc
           m1 == SetErr(m, t, e)
           m2 == IF m1.th[t].ci = <<>> THEN m1 ELSE PopCI(m1, t)
<1>1. t \in Threads /\ e \in Nat
  BY ActivationFields
<1>2. EndPcall(m, p) = In(m2, "run")
  BY DEF EndPcall, SetErr
<1> HIDE DEF e, t
<1>3. OnlyCI(m, m1, t) /\ m1.th[t].ci = m.th[t].ci /\ m1.th[t].errfunc = e
  BY <1>1, SetErrFacts
<1> HIDE DEF m1
<1>4. m.th[t].ci \in Seq(CallInfo)
  BY <1>1 DEF IsM, LuaState
<1>5. Len(m.th[t].ci) = 0 <=> m1.th[t].ci = <<>>
  BY <1>3, <1>4
<1>6. /\ OnlyCI(m, m2, t) /\ m2.th[t].errfunc = e
      /\ m2.th[t].ci = IF Len(m.th[t].ci) = 0 THEN m.th[t].ci ELSE Front(m.th[t].ci)
  <2>1. CASE m1.th[t].ci = <<>>
    BY <1>3, <1>5, <2>1
  <2>2. CASE m1.th[t].ci # <<>>
    <3>1. Len(m1.th[t].ci) > 0 /\ Len(m.th[t].ci) # 0
      BY <1>3, <1>4, <1>5, <2>2
    <3>2. /\ OnlyCI(m1, PopCI(m1, t), t) /\ PopCI(m1, t).th[t].ci = Front(m1.th[t].ci)
          /\ PopCI(m1, t).th[t].errfunc = m1.th[t].errfunc
      BY <1>1, <1>3, <3>1, PopCIFacts DEF OnlyCI
    <3> QED BY <1>3, <2>2, <3>1, <3>2 DEF OnlyCI, Others
  <2> QED BY <2>1, <2>2
<1> HIDE DEF m2
<1>7. IsM(In(m, "run")) /\ In(m, "run").th = m.th /\ In(m, "run").cs = m.cs
      /\ In(m, "run").mode = "run"
  BY InFacts
<1>8. IsM(In(m2, "run")) /\ In(m2, "run").th = m2.th /\ In(m2, "run").cs = m2.cs
      /\ In(m2, "run").mode = "run"
  BY <1>6, InFacts DEF OnlyCI
<1> QED BY <1>2, <1>6, <1>7, <1>8 DEF OnlyCI, t, e

-----------------------------------------------------------------------------
(* Activations begin and end *)

\* luaD_rawrunprotected, luaF_close and unroll are called
LEMMA ActBegins ==
  ASSUME NEW T, NEW C, NEW a \in Activation, Core(T, C), Len(C) > 0,
         a.t = C[Len(C)].t, T[a.t].status = "OK", a.k # "call", a.inc = "none", ~Resumes(a),
         ~Resumes(C[Len(C)]) => C[Len(C)].depth <= a.depth,
         C[Len(C)].k = "call" => C[Len(C)].depth < a.depth,
         Linked(T[a.t].ci, a, C[Len(C)]),
         a.k = "prot" => CountedTo(T, C, Len(C)) /\ a.nny = T[a.t].nny /\ a.nCcalls = T[a.t].nCcalls
  PROVE  Core(T, Append(C, a)) /\ (Live(T, C) => Live(T, Append(C, a)))
<1> DEFINE p  == Len(C)
           t  == a.t
           b  == C[p]
           C2 == Append(C, a)
<1>1. /\ C \in Seq(Activation) /\ p \in Nat /\ p \in 1 .. p /\ Stack(T, C)
      /\ a.depth \in Nat /\ t \in Threads /\ t \in ChainOf(C)
  BY ActivationFields DEF Core, Types, ChainOf
<1>2. /\ C2 \in Seq(Activation) /\ Len(C2) = p + 1 /\ C2[p + 1] = a
      /\ \A i \in 1 .. p : C2[i] = C[i]
  BY <1>1
<1> HIDE DEF C2
<1>3. p + 1 # 1 /\ (p + 1) - 1 = p /\ C2[p] = b /\ b.t = t
  BY <1>1, <1>2
<1>4. Deeper(C2, p + 1)
  <2>1. \A e \in 1 .. p : C[e].t = t /\ ~Resumes(C[e]) =>
          C[e].depth <= a.depth /\ (C[e].k = "call" => C[e].depth < a.depth)
    BY <1>1, DeeperThan
  <2> HIDE DEF p
  <2> QED BY <1>1, <1>2, <1>3, <2>1 DEF Deeper
<1>5. Together(C2, p + 1)
  <2> SUFFICES ASSUME NEW e \in 1 .. p + 1, C2[e].t = t, NEW j \in e .. p + 1
               PROVE  C2[j].t = t
    BY <1>2 DEF Together
  <2>1. CASE j = p + 1
    BY <1>2, <2>1
  <2>2. CASE j # p + 1
    <3>1. e \in 1 .. p /\ j \in e .. p /\ j \in 1 .. p
      BY <1>1, <2>2
    <3>2. C[e].t = t /\ C[p].t = t
      BY <1>2, <1>3, <3>1
    <3>3. Together(C, p)
      BY <1>1 DEF Stack, Good
    <3>4. C[j].t = t
      BY <3>1, <3>2, <3>3 DEF Together
    <3> QED BY <1>2, <3>1, <3>4
  <2> QED BY <2>1, <2>2
<1>6. /\ Nyci(C2, t, p + 1) = Nyci(C, t, p)
      /\ ~Resumes(a) => Cnt(C2, p + 1) = Cnt(C, p)
  <2>1. Nyci(C2, t, p) = Nyci(C, t, p) /\ Cnt(C2, p) = Cnt(C, p)
    BY <1>2, SameCount, SameNyci
  <2>2. Cnt(C2, p + 1) = Cnt(C2, p) + (IF Counts(C2[p + 1]) THEN 1 ELSE 0)
        /\ Cnt(C2, p) \in Nat
    BY <1>1, OneMore
  <2>3. Nyci(C2, t, p + 1) = Nyci(C2, t, p)
                             + (IF C2[p + 1].t = t /\ C2[p + 1].inc = "nyci" THEN 1 ELSE 0)
    BY <1>1, OneMore
  <2>4. Nyci(C2, t, p) \in Nat
    BY <1>1, OneMore
  <2>5. ~Resumes(a) => ~Counts(C2[p + 1])
    BY <1>2 DEF Counts, Resumes
  <2> QED BY <1>2, <2>1, <2>2, <2>3, <2>4, <2>5
<1>7. Saved(C2, p + 1)
  <2> SUFFICES ASSUME a.k = "prot"
               PROVE  a.nny = Nyci(C2, t, p + 1) /\ a.nCcalls = Cnt(C2, p + 1)
    BY <1>2 DEF Saved
  <2>1. T[t].nny = Nyci(C, t, p) /\ T[t].nCcalls = Cnt(C, p)
    BY <1>3 DEF CountedTo
  <2> QED BY <1>6, <2>1
<1>8. Good(T, C2, p + 1)
  <2>1. ~First(C2, p + 1)
    BY <1>2, <1>3 DEF First
  <2>2. Linked(T[C2[p + 1].t].ci, C2[p + 1], C2[(p + 1) - 1])
    BY <1>2, <1>3
  <2> HIDE DEF p, b, t
  <2> QED BY <1>2, <1>4, <1>5, <1>7, <2>1, <2>2 DEF Good
<1>9. ~T[t].body
  BY <1>1 DEF Core, States, StatusOf
<1>10. Core(T, C2)
  <2>1. Len(C) > 0 => C[Len(C)].t = a.t
    OBVIOUS
  <2>2. C2[Len(C) + 1] = a /\ Good(T, C2, Len(C) + 1) /\ Len(C2) = Len(C) + 1
        /\ (\A i \in 1 .. Len(C) : C2[i] = C[i])
    BY <1>2, <1>8
  <2> HIDE DEF p, b
  <2> QED BY <1>2, <1>9, <2>1, <2>2, CorePush
<1>11. Live(T, C) => Live(T, C2)
  <2> SUFFICES ASSUME Live(T, C)
               PROVE  CountedTo(T, C2, p + 1)
    BY <1>2 DEF Live
  <2>1. T[t].nny = Nyci(C, t, p) /\ T[t].nCcalls = Cnt(C, p)
    BY <1>1, <1>3 DEF Live, CountedTo
  <2> QED BY <1>2, <1>6, <2>1 DEF CountedTo
<1> QED BY <1>10, <1>11 DEF C2

\* ... luaD_rawrunprotected in a thread that has no activation yet
LEMMA BlockBegins ==
  ASSUME NEW T, NEW C, NEW a \in Activation, Core(T, C), a.t \notin ChainOf(C),
         a.k = "prot", a.inc = "none", ~T[a.t].body, T[a.t].status \in {"OK", "YIELD"},
         BlockStarts(T, Append(C, a), Len(C) + 1),
         a.nny = (IF a.t = MainThread THEN 1 ELSE 0), a.nny = T[a.t].nny,
         a.nCcalls = Cnt(C, Len(C)) + (IF Resumes(a) THEN 1 ELSE 0), a.nCcalls = T[a.t].nCcalls,
         Live(T, C), Len(C) > 0 => T[C[Len(C)].t].status = "OK"
  PROVE  Core(T, Append(C, a)) /\ Live(T, Append(C, a))
<1> DEFINE p  == Len(C)
           t  == a.t
           C2 == Append(C, a)
<1>1. C \in Seq(Activation) /\ p \in Nat /\ t \in Threads
  BY ActivationFields DEF Core, Types
<1>2. /\ C2 \in Seq(Activation) /\ Len(C2) = p + 1 /\ C2[p + 1] = a
      /\ \A i \in 1 .. p : C2[i] = C[i]
  BY <1>1
<1> HIDE DEF C2
<1>3. \A i \in 1 .. p : C2[i].t # t
  BY <1>1, <1>2 DEF ChainOf
<1>4. Together(C2, p + 1)
  BY <1>1, <1>2, <1>3 DEF Together
<1>5. Deeper(C2, p + 1)
  BY <1>1, <1>2, <1>3 DEF Deeper
<1>6. /\ Nyci(C2, t, p + 1) = (IF t = MainThread THEN 1 ELSE 0)
      /\ Cnt(C2, p + 1) = Cnt(C, p) + (IF Resumes(a) THEN 1 ELSE 0)
  <2>1. Cnt(C2, p) = Cnt(C, p)
    BY <1>2, SameCount
  <2>2. Cnt(C2, p + 1) = Cnt(C2, p) + (IF Counts(C2[p + 1]) THEN 1 ELSE 0)
    BY <1>1, OneMore
  <2>3. Nyci(C2, t, p + 1) = Nyci(C2, t, p)
                             + (IF C2[p + 1].t = t /\ C2[p + 1].inc = "nyci" THEN 1 ELSE 0)
        /\ Nyci(C2, t, p) \in Nat
    BY <1>1, OneMore, ZenonT(40)
  <2>4. Nyci(C2, t, p) = IF t = MainThread THEN 1 ELSE 0
    BY <1>3, NoneYet
  <2>5. Counts(C2[p + 1]) <=> Resumes(a)
    BY <1>2 DEF Counts, Resumes
  <2>6. Nyci(C2, t, p + 1) = Nyci(C2, t, p)
    BY <1>2, <2>3
  <2> QED BY <2>1, <2>2, <2>4, <2>5, <2>6
<1>7. Saved(C2, p + 1)
  BY <1>2, <1>6 DEF Saved
<1>8. Good(T, C2, p + 1)
  <2>1. First(C2, p + 1)
    <3>1. p + 1 # 1 => (p + 1) - 1 \in 1 .. p
      BY <1>1
    <3> QED BY <1>2, <1>3, <3>1 DEF First
  <2>2. BlockStarts(T, C2, p + 1)
    BY DEF C2
  <2> HIDE DEF p, t
  <2> QED BY <1>2, <1>4, <1>5, <1>7, <2>1, <2>2 DEF Good
<1>9. Core(T, C2)
  <2>1. Len(C) > 0 /\ C[Len(C)].t # a.t =>
          CountedTo(T, C, Len(C)) /\ T[C[Len(C)].t].status = "OK"
    BY DEF Live
  <2>2. C2[Len(C) + 1] = a /\ Good(T, C2, Len(C) + 1) /\ Len(C2) = Len(C) + 1
        /\ (\A i \in 1 .. Len(C) : C2[i] = C[i])
    BY <1>2, <1>8
  <2> HIDE DEF p
  <2> QED BY <1>2, <2>1, <2>2, CorePush
<1>10. Live(T, C2)
  BY <1>2, <1>6 DEF Live, CountedTo
<1> QED BY <1>9, <1>10 DEF C2

\* luaD_closeprotected goes on where luaD_rawrunprotected was called
LEMMA ProtAgain ==
  ASSUME NEW T, NEW C, NEW C2 \in Seq(Activation), NEW a \in Activation, Core(T, C), Len(C) > 0,
         Len(C2) = Len(C), C2[Len(C)] = a, \A i \in 1 .. Len(C) - 1 : C2[i] = C[i],
         C[Len(C)].k = "prot", ~Resumes(C[Len(C)]), a.k = "prot", a.use = "closep",
         a.then = (IF C[Len(C)].use = "pcall" THEN "pcall" ELSE C[Len(C)].then),
         a.t = C[Len(C)].t, a.depth = C[Len(C)].depth, a.nny = C[Len(C)].nny,
         a.nCcalls = C[Len(C)].nCcalls, a.errfunc = C[Len(C)].errfunc, a.inc = "none"
  PROVE  Core(T, C2) /\ (Live(T, C) => Live(T, C2))
<1> DEFINE p == Len(C)
           b == C[p]
           t == a.t
<1>1. /\ C \in Seq(Activation) /\ p \in Nat /\ p \in 1 .. p /\ Stack(T, C) /\ Good(T, C, p)
      /\ a.depth \in Nat /\ t \in Threads /\ b \in Activation
  BY ActivationsFields, ActivationFields DEF Core, Types, Stack
<1>2. /\ C2[p] = a /\ (\A i \in 1 .. p - 1 : C2[i] = C[i] /\ C[i].t \in Threads)
      /\ \A i \in 1 .. p : C2[i].t = C[i].t
  BY <1>1, ActivationsFields
<1>3. b.inc = "none" /\ b.use \in {"pcall", "closep"} /\ (IsPcall(a) <=> IsPcall(b))
      /\ (First(C, p) => p = 1 \/ b.use = "closep")
  BY <1>1, ActivationFields DEF Good, BlockStarts, Linked, LinkedProt, Resumes, IsPcall
<1>4. Nyci(C2, t, p) = Nyci(C, t, p) /\ Cnt(C2, p) = Cnt(C, p)
  <2> DEFINE q == p - 1
  <2>1. q \in Nat /\ q + 1 = p
    BY <1>1
  <2>2. Nyci(C2, t, q) = Nyci(C, t, q) /\ Cnt(C2, q) = Cnt(C, q)
    BY <1>2, SameCount, SameNyci
  <2>3. ~Counts(C[p]) /\ ~Counts(C2[p])
    BY <1>2, <1>3 DEF Counts
  <2> HIDE DEF p, q, t
  <2>4. /\ Cnt(C, q) \in Nat /\ Nyci(C, t, q) \in Nat
        /\ Cnt(C2, q) \in Nat /\ Nyci(C2, t, q) \in Nat
    BY <2>1, OneMore
  <2>5. Cnt(C, q + 1) = Cnt(C, q) + (IF Counts(C[q + 1]) THEN 1 ELSE 0)
        /\ Cnt(C2, q + 1) = Cnt(C2, q) + (IF Counts(C2[q + 1]) THEN 1 ELSE 0)
    BY <2>1, OneMore
  <2>6. /\ Nyci(C, t, q + 1) = Nyci(C, t, q)
             + (IF C[q + 1].t = t /\ C[q + 1].inc = "nyci" THEN 1 ELSE 0)
        /\ Nyci(C2, t, q + 1) = Nyci(C2, t, q)
             + (IF C2[q + 1].t = t /\ C2[q + 1].inc = "nyci" THEN 1 ELSE 0)
    BY <2>1, OneMoreNyci
  <2>7. C[p].inc # "nyci" /\ C2[p].inc # "nyci"
    BY <1>2, <1>3
  <2> QED BY <2>1, <2>2, <2>3, <2>4, <2>5, <2>6, <2>7
<1>5. Good(T, C2, p)
  <2>1. Together(C2, p)
    BY <1>1, <1>2 DEF Good, Together
  <2>2. Deeper(C2, p)
    BY <1>1, <1>2 DEF Good, Deeper
  <2>3. Saved(C2, p)
    BY <1>1, <1>2, <1>4 DEF Good, Saved
  <2>4. p > 1 => p - 1 \in 1 .. p - 1 /\ C2[p - 1] = C[p - 1]
    BY <1>1, <1>2
  <2>5. First(C2, p) <=> First(C, p)
    BY <1>2, <2>4 DEF First
  <2>6. First(C, p) => BlockStarts(T, C2, p)
    <3> SUFFICES ASSUME First(C, p)
                 PROVE  BlockStarts(T, C2, p)
      OBVIOUS
    <3>1. BlockStarts(T, C, p)
      BY <1>1 DEF Good
    <3>2. CASE p = 1
      BY <1>2, <1>3, <3>1, <3>2 DEF BlockStarts, Resumes
    <3>3. CASE p # 1
      <4>1. p > 1 /\ C2[p - 1] = C[p - 1]
        BY <1>1, <2>4, <3>3
      <4>2. b.use = "closep" /\ a.then = b.then
        BY SMTT(20), <1>3, <3>3
      <4> QED BY <1>2, <3>1, <4>1, <4>2 DEF BlockStarts
    <3> QED BY <3>2, <3>3
  <2>7. ~First(C, p) => Linked(T[t].ci, C2[p], C2[p - 1])
    <3> SUFFICES ASSUME ~First(C, p)
                 PROVE  Linked(T[t].ci, a, C[p - 1])
      BY <1>1, <1>2, <2>4 DEF First
    <3>1. Linked(T[t].ci, b, C[p - 1])
      BY <1>1 DEF Good
    <3> QED BY <1>3, <3>1 DEF Linked, LinkedProt, LinkedClose, LinkedCall, LinkedUnroll
  <2> HIDE DEF p, b, t
  <2> QED BY <1>2, <2>1, <2>2, <2>3, <2>5, <2>6, <2>7 DEF Good, t
<1>6. Stack(T, C2)
  <2> SUFFICES ASSUME NEW i \in 1 .. p
               PROVE  Good(T, C2, i)
    BY DEF Stack
  <2>1. CASE i = p
    BY <1>5, <2>1
  <2>2. CASE i # p
    <3>1. i \in 1 .. Len(C) /\ Good(T, C, i) /\ \A j \in 1 .. i : C2[j] = C[j]
      BY <1>1, <1>2, <2>2 DEF Stack
    <3> HIDE DEF p
    <3> QED BY <1>1, <3>1, GoodKeeps
  <2> QED BY <2>1, <2>2
<1>7. Frames(T, C2)
  <2> SUFFICES ASSUME NEW u \in Threads, T[u].status # "ERR"
               PROVE  FramesOK(T[u].ci, Acts(C2, u))
    BY DEF Core, Frames
  <2>1. FramesOK(T[u].ci, Acts(C, u))
    BY DEF Core, Frames
  <2>2. \A x \in Acts(C2, u) : x \in Acts(C, u) \/ x = a
    BY <1>1, <1>2 DEF Acts
  <2>3. \A x \in Acts(C, u) : x \in Acts(C2, u) \/ x = b
    BY <1>1, <1>2 DEF Acts
  <2>4. b \in Acts(C, u) <=> a \in Acts(C2, u)
    BY <1>1, <1>2 DEF Acts
  <2>5. FreshOnes(T[u].ci, Acts(C2, u))
    BY <2>1, <2>2, <2>3 DEF FramesOK, FreshOnes
  <2>6. Owned(T[u].ci, Acts(C2, u))
    <3>1. \A j : Owns(Acts(C, u), T[u].ci, j) => Owns(Acts(C2, u), T[u].ci, j)
      BY <1>3, <2>3, <2>4 DEF Owns
    <3> QED BY <2>1, <3>1 DEF FramesOK, Owned
  <2>7. NoYpcall(T[u].ci, Acts(C2, u))
    BY <2>1, <2>2 DEF FramesOK, NoYpcall
  <2> QED BY <2>1, <2>5, <2>6, <2>7 DEF FramesOK
<1>8. ChainOf(C2) = ChainOf(C) /\ Last(C2).t = Last(C).t
  BY <1>1, <1>2 DEF ChainOf, Last
<1>9. States(T, C2)
  BY <1>8 DEF Core, States, StatusOf
<1>10. Waiting(T, C2)
  <2>1. ASSUME NEW i \in 1 .. p - 1, C2[i + 1].t # C2[i].t
        PROVE  CountedTo(T, C2, i)
    <3>1. i \in 1 .. p /\ i + 1 \in 1 .. p /\ i \in Nat /\ i > 0 /\ \A j \in 1 .. i : C2[j] = C[j]
      BY <1>1, <1>2
    <3>2. CountedTo(T, C, i)
      BY <1>2, <2>1, <3>1 DEF Core, Waiting
    <3> QED BY <3>1, <3>2, CountedAlike
  <2> QED BY <1>8, <2>1 DEF Core, Waiting
<1>11. Live(T, C) => Live(T, C2)
  BY <1>1, <1>2, <1>4 DEF Live, CountedTo
<1> QED BY <1>6, <1>7, <1>9, <1>10, <1>11 DEF Core, Types

\* a new coroutine, and one that lua_closethread has reset
LEMMA CoreEmpty ==
  ASSUME NEW T, NEW C, NEW T2, NEW u \in Threads, Core(T, C), IsTh(T2), Others(T, T2, u),
         u \notin ChainOf(C), u # MainThread, T2[u].ci = <<>>, T2[u].errfunc = 0,
         T2[u].status = "OK"
  PROVE  Core(T2, C)
<1>1. C \in Seq(Activation) /\ Len(C) \in Nat /\ Len(T2[u].ci) = 0
  BY DEF Core, Types
<1>2. Acts(C, u) = {}
  BY DEF Acts, ChainOf
<1>3. FramesOK(T2[u].ci, Acts(C, u)) /\ IsInner(T2[u].ci, Len(T2[u].ci), T2[u].errfunc)
  BY <1>1, <1>2 DEF FramesOK, FreshOnes, LuaBelow, Owned, NoYpcall, OldHandlers, IsInner
<1>4. StatusOf(T2, C, u)
  BY <1>1 DEF StatusOf
<1>5. ~(Len(C) > 0 /\ C[Len(C)].t = u)
  BY <1>1 DEF ChainOf
<1>6. Cut(T, C, T2, C, u)
  BY <1>1, <1>3, <1>4, <1>5 DEF Cut, Types, IsTh, Others
<1> QED BY <1>6, CoreCut

\* a C function returns to the Lua function that called it
LEMMA FrameReturns ==
  ASSUME NEW T, NEW C, NEW T2, NEW u, Core(T, C), Live(T, C), IsTh(T2), Others(T, T2, u),
         Len(C) > 0, u = C[Len(C)].t, Runs(C[Len(C)]), T[u].status = "OK",
         Len(T[u].ci) > C[Len(C)].depth, Last(T[u].ci).func # "lua",
         T2[u].ci = Front(T[u].ci), T2[u].status = T[u].status, T2[u].body = T[u].body,
         T2[u].nny = T[u].nny, T2[u].nCcalls = T[u].nCcalls,
         IsInner(T[u].ci, Len(T[u].ci) - 1, T2[u].errfunc)
  PROVE  Inv(T2, C, "run") /\ (C[Len(C)].k = "unroll" => Inv(T2, C, "return"))
<1> DEFINE ci == T[u].ci
           c2 == T2[u].ci
           n  == Len(ci)
           b  == C[Len(C)]
<1>1. /\ C \in Seq(Activation) /\ Len(C) \in Nat /\ Len(C) \in 1 .. Len(C) /\ Stack(T, C)
      /\ b \in Activation /\ b.depth \in Nat /\ u \in Threads /\ u \in ChainOf(C)
      /\ ci \in Seq(CallInfo) /\ n \in Nat /\ b \in Acts(C, u)
  BY ThreadFields, ActivationsFields DEF Core, Types, IsTh, ChainOf, Acts
<1>2. n > 0
  BY <1>1
<1>3. /\ c2 \in Seq(CallInfo) /\ Len(c2) = n - 1 /\ \A j \in 1 .. n - 1 : c2[j] = ci[j]
  BY SMTT(20), <1>1, <1>2, FrontFacts
<1>4. n - 1 > b.depth /\ ci[n - 1].func = "lua"
  <2>1. FramesOK(ci, Acts(C, u))
    BY <1>1 DEF Core, Frames
  <2>2. b.k = "unroll" => b.depth = 0
    <3>1. b.k = "unroll" => ~First(C, Len(C))
      BY <1>1 DEF Stack, Good, BlockStarts
    <3> QED BY SMTT(20), <1>1, <3>1 DEF Stack, Good, Linked, LinkedUnroll
  <2>3. ci[Len(ci)].func # "lua" /\ Runs(b) /\ Len(ci) > b.depth
    BY DEF Last
  <2>4. ci \in Seq(CallInfo) /\ b.depth \in Nat /\ b \in Acts(C, u)
    BY <1>1
  <2> HIDE DEF ci, b
  <2>5. Len(ci) - 1 > b.depth /\ ci[Len(ci) - 1].func = "lua"
    BY <2>1, <2>2, <2>3, <2>4, CalledFromLua
  <2> QED BY <2>5
<1> HIDE DEF n
<1>5. Alike(ci, c2, n - 1) /\ n - 1 \in Nat /\ n - 1 \in 1 .. n - 1
  <2>1. n = Len(ci)
    BY DEF n
  <2>2. n - 1 \in Nat /\ n - 1 > 0 /\ n - 1 <= n
    <3> DEFINE d == b.depth
    <3>1. d \in Nat /\ n \in Nat /\ n - 1 > d
      BY <1>1, <1>4
    <3> HIDE DEF d
    <3> QED BY <3>1
  <2> HIDE DEF ci, c2
  <2> QED BY <1>3, <2>1, <2>2 DEF Alike
<1>6. StatusOf(T2, C, u)
  BY SMTT(20), <1>1 DEF StatusOf, Core, States
<1>7. Core(T2, C)
  <2>1. IsInner(c2, n - 1, T2[u].errfunc)
    <3>1. IsInner(ci, n - 1, T2[u].errfunc)
      BY SMTT(20) DEF n
    <3> HIDE DEF ci, c2
    <3> QED BY <1>5, <3>1, InnerAlike
  <2>2. C[Len(C)].depth <= Len(T2[u].ci)
    BY SMTT(20), <1>1, <1>3, <1>4
  <2>3. Alike(T[u].ci, T2[u].ci, Len(T2[u].ci)) /\ IsInner(T2[u].ci, Len(T2[u].ci), T2[u].errfunc)
    BY <1>3, <1>5, <2>1
  <2>4. /\ \A i \in Len(C) + 1 .. Len(C) : C[i].t = u /\ C[i].depth >= Len(T2[u].ci)
        /\ \A t \in Threads \ {u} : T2[t] = T[t]
    BY <1>1 DEF Others
  <2> HIDE DEF ci, c2, b
  <2> QED BY <1>1, <1>6, <2>2, <2>3, <2>4, CoreShrink
<1>8. Live(T2, C)
  BY DEF Live, CountedTo
<1>9. OnTop(c2, b, Acts(C, u), "run") /\ (b.k = "unroll" => OnTop(c2, b, Acts(C, u), "return"))
  BY <1>3, <1>4, <1>5, Zenon DEF OnTop, Runs, Continues
<1> QED BY SMTT(20), <1>7, <1>8, <1>9 DEF Inv, TopOf

\* the C function that called a coroutine goes on
LEMMA BlockEnds ==
  ASSUME NEW T, NEW C, NEW T2, NEW C2 \in Seq(Activation), NEW h \in 1 .. Len(C), Core(T, C),
         h > 1, First(C, h), Len(C2) = h - 1, \A i \in 1 .. h - 1 : C2[i] = C[i],
         Core(T2, C2), NEW u, u = C[h - 1].t, T2[u] = T[u]
  PROVE  /\ Live(T2, C2) /\ Inv(T2, C2, "ERR")
         /\ C2[Len(C2)] = C[h - 1] /\ u \in Threads
         /\ Runs(C[h - 1]) /\ T[u].status = "OK" /\ Len(T[u].ci) > C[h - 1].depth
         /\ IF Resumes(C[h]) THEN Last(T[u].ci).func \in {"resume", "wrap"}
                             ELSE C[h].then \in {"close", "wrap"} /\ Last(T[u].ci).func = C[h].then
<1> DEFINE b  == C[h - 1]
           ci == T[u].ci
<1>1. /\ C \in Seq(Activation) /\ Len(C) \in Nat /\ h - 1 \in 1 .. Len(C) - 1 /\ (h - 1) + 1 = h
      /\ h - 1 \in Nat
  BY DEF Core, Types
<1>7. C2[h - 1] = b
  BY <1>1
<1>2. u \in Threads /\ b.depth \in Nat /\ ci \in Seq(CallInfo)
  BY <1>1, ActivationsFields, ThreadFields DEF Core, Types
<1>3. C[h].t # u
  BY <1>1 DEF First
<1>4. BlockStarts(T, C, h)
  BY DEF Core, Stack, Good
<1>5. /\ Runs(b) /\ Len(ci) > b.depth
      /\ IF Resumes(C[h]) THEN Last(ci).func \in {"resume", "wrap"}
                          ELSE C[h].then \in {"close", "wrap"} /\ Last(ci).func = C[h].then
  BY <1>4 DEF BlockStarts, Resumes
<1>6. T[u].status = "OK"
  <2>1. u \in ChainOf(C)
    BY <1>1 DEF ChainOf
  <2>2. u # Last(C).t
    <3> SUFFICES ASSUME C[Len(C)].t = u
                 PROVE  FALSE
      BY DEF Last
    <3>1. Together(C, Len(C))
      BY <1>1 DEF Core, Stack, Good
    <3>2. \A j \in h - 1 .. Len(C) : C[j].t = C[Len(C)].t
      BY <1>1, <3>1 DEF Together
    <3> QED BY <1>1, <1>3, <3>2
  <2> QED BY <1>2, <2>1, <2>2 DEF Core, States, StatusOf
<1>8. Live(T2, C2)
  <2>1. CountedTo(T, C, h - 1)
    BY <1>1, <1>3 DEF Core, Waiting
  <2>2. CountedTo(T2, C2, h - 1)
    BY SMTT(20), <1>1, <2>1, CountedAlike
  <2> QED BY <2>2 DEF Live
<1>9. OnTop(ci, b, Acts(C2, u), "ERR")
  BY <1>5 DEF OnTop, Runs, Last
<1>10. Inv(T2, C2, "ERR")
  <2>1. C2[Len(C2)] = b /\ Len(C2) > 0
    BY <1>1, <1>7
  <2> HIDE DEF b
  <2>2. b.t = u
    BY DEF b
  <2> QED BY <1>6, <1>9, <2>1, <2>2 DEF Inv, TopOf
<1> QED BY <1>2, <1>5, <1>6, <1>7, <1>8, <1>10

-----------------------------------------------------------------------------
(* The same for machine states *)

LEMMA CcallBegins ==
  ASSUME NEW m, IsM(m), Core(m.th, m.cs), Live(m.th, m.cs), NEW t, t = m.cs[Len(m.cs)].t,
         NEW inc \in {"none", "yieldable", "nyci"}, NEW of \in Variables \cup {None},
         CallReady(m.th, m.cs, inc)
  PROVE  InvM(Ccall(m, t, inc, of))
<1>1. m = MS(m.th, m.cs, m.mode)
  BY MachineParts
<1> DEFINE T == m.th
           C == m.cs
           d == m.mode
           r == Ccall(m, t, inc, of)
<1>2. r = Ccall(MS(T, C, d), C[Len(C)].t, inc, of)
  BY <1>1
<1>3. Core(T, C) /\ Live(T, C) /\ CallReady(T, C, inc)
  OBVIOUS
<1> HIDE DEF T, C, d, r
<1>4. Inv(r.th, r.cs, r.mode)
  BY <1>2, <1>3, CallBegins
<1> QED BY <1>4 DEF InvM, r

\* ccall can be called for t
Begins(m, t, inc) ==
  /\ IsM(m) /\ Core(m.th, m.cs) /\ Live(m.th, m.cs) /\ t = m.cs[Len(m.cs)].t
  /\ inc \in {"none", "yieldable", "nyci"} /\ CallReady(m.th, m.cs, inc)

LEMMA BegunCall ==
  ASSUME NEW m, NEW t, NEW inc, Begins(m, t, inc), NEW of \in Variables \cup {None}
  PROVE  InvM(Ccall(m, t, inc, of))
  BY CcallBegins DEF Begins

CloseAct(t, level, status, yy, n) ==
  [Blank(t) EXCEPT !.k = "close", !.level = level, !.status = status, !.yy = yy, !.depth = n]
LEMMA CloseActFields ==
  ASSUME NEW t \in Threads, NEW level \in Nat, NEW status \in {"OK", "ERR"}, NEW yy \in BOOLEAN,
         NEW n \in Nat
  PROVE  LET a == CloseAct(t, level, status, yy, n)
         IN  /\ a \in Activation /\ a.t = t /\ a.k = "close" /\ a.yy = yy /\ a.depth = n
             /\ a.inc = "none" /\ a.use = None
  BY DEF CloseAct, Blank, Activation, None

\* b is the topmost activation, of thread t with n CallInfos
TopIs(m, t, b, n) ==
  Len(m.cs) > 0 /\ b = m.cs[Len(m.cs)] /\ t = b.t /\ n = Len(m.th[t].ci)
LEMMA TopFacts ==
  ASSUME NEW m, IsM(m), NEW t, NEW b, NEW n, TopIs(m, t, b, n)
  PROVE  /\ Len(m.cs) \in Nat /\ Len(m.cs) \in 1 .. Len(m.cs)
         /\ b \in Activation /\ b.depth \in Nat /\ b.t = t /\ t \in Threads /\ n \in Nat
         /\ m.th[t].ci \in Seq(CallInfo) /\ t \in ChainOf(m.cs)
<1>1. m.cs \in Seq(Activation) /\ IsTh(m.th)
  BY MachineParts
<1>2. Len(m.cs) \in Nat /\ Len(m.cs) \in 1 .. Len(m.cs)
  BY <1>1 DEF TopIs
<1>3. m.cs[Len(m.cs)] \in Activation
  BY <1>1, <1>2
<1>4. b \in Activation
  BY <1>3 DEF TopIs
<1>5. b.t \in Threads /\ b.depth \in Nat
  BY <1>4, ActivationFields
<1>6. t \in Threads /\ t = b.t
  BY <1>5 DEF TopIs
<1>7. m.th[t].ci \in Seq(CallInfo) /\ Len(m.th[t].ci) \in Nat
  BY <1>1, <1>6, ThreadFields DEF IsTh
<1>8. t \in ChainOf(m.cs)
  BY <1>2 DEF TopIs, ChainOf
<1> QED BY <1>2, <1>4, <1>5, <1>6, <1>7, <1>8 DEF TopIs

\* luaF_close can be called
CloseReady(ci, b, n, yy) ==
  /\ yy => /\ Runs(b) /\ n > b.depth
           /\ \/ ci[n].func = "lua"
              \/ ci[n].func = "pcall" /\ ci[n].ypcall /\ b.k = "unroll"
  /\ ~yy => b.k = "prot" /\ b.use = "closep" /\ n = b.depth

LEMMA CloseBegins ==
  ASSUME NEW m, IsM(m), NEW t, NEW b, NEW n, TopIs(m, t, b, n),
         Core(m.th, m.cs), Live(m.th, m.cs), m.th[t].status = "OK",
         NEW level \in Nat, NEW status \in {"OK", "ERR"}, NEW yy \in BOOLEAN,
         CloseReady(m.th[t].ci, b, n, yy)
  PROVE  InvM(Close(m, t, level, status, yy))
<1> DEFINE a  == CloseAct(t, level, status, yy, n)
           C  == m.cs
           C2 == Append(C, a)
           T  == m.th
<1>1. /\ C \in Seq(Activation) /\ Len(C) \in Nat
      /\ b \in Activation /\ b.depth \in Nat /\ t \in Threads /\ n \in Nat
  BY SMTT(20), MachineParts, TopFacts
<1>2. n = Len(T[t].ci) /\ b = C[Len(C)] /\ Len(C) > 0 /\ b.t = t
  BY DEF TopIs
<1>3. a \in Activation
  BY <1>1, CloseActFields
<1>4. /\ a.t = t /\ a.k = "close" /\ a.yy = yy /\ a.depth = n /\ a.inc = "none" /\ a.use = None
  BY SMTT(20), <1>1, CloseActFields
<1>5. Close(m, t, level, status, yy) = In(PushC(m, a), "run")
  BY DEF Close, CloseAct, TopIs
<1>6. Linked(T[t].ci, a, b)
  <2> DEFINE ci == T[t].ci
  <2>1. n = Len(ci) /\ CloseReady(ci, b, n, yy)
    BY <1>2
  <2> HIDE DEF a, ci
  <2>2. LinkedClose(ci, a, b)
    BY <1>1, <1>4, <2>1 DEF LinkedClose, CloseReady, Runs
  <2> QED BY <1>4, <2>2 DEF Linked, LinkedProt, LinkedCall, LinkedUnroll, ci
<1> HIDE DEF a
<1>7. IsM(PushC(m, a)) /\ PushC(m, a).th = T /\ PushC(m, a).cs = C2
  BY <1>3, PushCFacts DEF C2
<1>8. In(PushC(m, a), "run").th = T /\ In(PushC(m, a), "run").cs = C2
      /\ In(PushC(m, a), "run").mode = "run"
  BY <1>7, InFacts
<1>9. Core(T, C2) /\ Live(T, C2)
  <2>1. /\ ~Resumes(a) /\ a.k # "call" /\ a.k # "prot"
        /\ ~Resumes(b) => b.depth <= a.depth
        /\ b.k = "call" => b.depth < a.depth
    BY <1>1, <1>4 DEF Resumes, Runs, CloseReady
  <2>2. Core(T, C) /\ Live(T, C) /\ Len(C) > 0 /\ a.t = C[Len(C)].t /\ T[a.t].status = "OK"
        /\ C[Len(C)] = b /\ Linked(T[a.t].ci, a, C[Len(C)])
    BY <1>2, <1>4, <1>6
  <2> HIDE DEF T, C
  <2> QED BY <1>3, <1>4, <2>1, <2>2, ActBegins DEF C2
<1>10. Len(C2) = Len(C) + 1 /\ C2[Len(C2)] = a
  <2> HIDE DEF C
  <2> QED BY <1>1, <1>3 DEF C2
<1>11. OnTop(T[t].ci, a, Acts(C2, t), "run")
  BY <1>2, <1>4 DEF OnTop, Runs
<1> HIDE DEF C, C2, T
<1>12. T[t].status = "OK"
  BY DEF T
<1>13. Inv(T, C2, "run")
  BY <1>1, <1>4, <1>9, <1>10, <1>11, <1>12 DEF Inv, TopOf
<1> QED BY <1>5, <1>8, <1>13 DEF InvM

ProtectClose(m, t, level, then, errfunc) ==
  [Protect(m, t, "closep") EXCEPT !.level = level, !.then = then, !.errfunc = errfunc]
LEMMA ProtectFacts ==
  ASSUME NEW m, IsM(m), NEW t \in Threads, NEW use \in {"resume", "pcall", "closep"}
  PROVE  /\ Protect(m, t, use) \in Activation /\ Protect(m, t, use).k = "prot"
         /\ Protect(m, t, use).t = t /\ Protect(m, t, use).use = use
         /\ Protect(m, t, use).depth = Len(m.th[t].ci) /\ Protect(m, t, use).inc = "none"
         /\ Protect(m, t, use).nny = m.th[t].nny /\ Protect(m, t, use).nCcalls = m.th[t].nCcalls
         /\ Protect(m, t, use).errfunc = 0
<1>1. /\ Len(m.th[t].ci) \in Nat /\ Len(m.th[t].tbclist) \in Nat
      /\ m.th[t].nny \in Nat /\ m.th[t].nCcalls \in Nat
  BY ThreadFields DEF IsM
<1> QED BY <1>1 DEF Protect, NewLevel, Blank, Activation, None

LEMMA ProtectCloseFacts ==
  ASSUME NEW m, IsM(m), NEW t \in Threads, NEW level \in Nat,
         NEW then \in {"pcall", "close", "wrap"}, NEW e \in Nat
  PROVE  LET a == ProtectClose(m, t, level, then, e)
         IN  /\ a \in Activation /\ a.k = "prot" /\ a.t = t /\ a.use = "closep" /\ a.then = then
             /\ a.depth = Len(m.th[t].ci) /\ a.inc = "none" /\ a.nny = m.th[t].nny
             /\ a.nCcalls = m.th[t].nCcalls /\ a.errfunc = e
<1>1. /\ Len(m.th[t].ci) \in Nat /\ Len(m.th[t].tbclist) \in Nat
      /\ m.th[t].nny \in Nat /\ m.th[t].nCcalls \in Nat
  BY ThreadFields DEF IsM
<1> QED BY Zenon, <1>1 DEF ProtectClose, Protect, NewLevel, Blank, Activation, None

\* lua_closethread and auxclose
ResetState(s, c) ==
  [s EXCEPT !.nCcalls = c, !.nny = 0, !.ci = <<>>, !.status = "OK", !.errfunc = 0, !.body = FALSE]
LEMMA ResetStateFields ==
  ASSUME NEW s \in LuaState, NEW c \in Nat
  PROVE  /\ ResetState(s, c) \in LuaState /\ ResetState(s, c).nCcalls = c
         /\ ResetState(s, c).nny = 0 /\ ResetState(s, c).ci = <<>>
         /\ ResetState(s, c).status = "OK" /\ ResetState(s, c).errfunc = 0
         /\ ResetState(s, c).body = FALSE /\ ResetState(s, c).tbclist = s.tbclist
<1>1. <<>> \in Seq(CallInfo)
  OBVIOUS
<1> QED BY <1>1 DEF ResetState, LuaState

ResetFirst(m, t, u) == SetT(m, t, ResetState(m.th[t], m.th[u].nCcalls))
ResetTo(m, t, u, then, status) ==
  Close(PushC(ResetFirst(m, t, u), ProtectClose(ResetFirst(m, t, u), t, 0, then, 0)),
        t, 0, status, FALSE)

LEMMA ResetIs ==
  ASSUME NEW m, IsM(m), NEW t \in Threads, NEW u \in Threads, NEW then
  PROVE  \E status \in {"OK", "ERR"} :
           ResetThread(m, t, u, then) = ResetTo(m, t, u, then, status)
<1> DEFINE c  == m.th[u].nCcalls
           s0 == m.th[t]
           s1 == [s0 EXCEPT !.nCcalls = c, !.nny = 0]
           s2 == [s1 EXCEPT !.ci = <<>>, !.status = "OK"]
           m1 == [m EXCEPT !.th[t].nCcalls = c, !.th[t].nny = 0,
                           !.th[t].ci = <<>>, !.th[t].status = "OK", !.th[t].errfunc = 0,
                           !.th[t].body = FALSE]
           status == IF m.th[t].status = "ERR" THEN "ERR" ELSE "OK"
<1>1. ResetThread(m, t, u, then) = CloseProtected(m1, t, 0, status, then, 0)
  BY DEF ResetThread
<1>2. m1 = SetT(m, t, ResetState(m.th[t], c))
  <2> DEFINE x1 == [m EXCEPT !.th[t].nCcalls = c, !.th[t].nny = 0]
             x2 == [x1 EXCEPT !.th[t].ci = <<>>, !.th[t].status = "OK"]
             x3 == [x2 EXCEPT !.th[t].errfunc = 0, !.th[t].body = FALSE]
  <2>1. m1 = x3
    OBVIOUS
  <2>2. x1 = SetT(m, t, s1)
    BY DEF SetT, IsM
  <2>3. m.th[t] \in LuaState /\ c \in Nat
    BY DEF IsM, LuaState
  <2>4. s1 \in LuaState
    BY <2>3 DEF LuaState
  <2>5. \A z, s : IsM(z) =>
          [z EXCEPT !.th[t].ci = <<>>, !.th[t].status = "OK"]
            = SetT(z, t, [z.th[t] EXCEPT !.ci = <<>>, !.status = "OK"])
    BY DEF SetT, IsM
  <2>6. \A z, s : IsM(z) =>
          [z EXCEPT !.th[t].errfunc = 0, !.th[t].body = FALSE]
            = SetT(z, t, [z.th[t] EXCEPT !.errfunc = 0, !.body = FALSE])
    BY DEF SetT, IsM
  <2>7. \A s, r : SetT(SetT(m, t, s), t, r) = SetT(m, t, r)
    BY DEF SetT, IsM
  <2> DEFINE y1 == SetT(m, t, s1)
             y2 == SetT(m, t, s2)
  <2>8. IsM(y1) /\ y1.th[t] = s1
    <3> HIDE DEF s1
    <3> QED BY <2>4, SetTFacts
  <2>9. s2 \in LuaState
    <3>1. <<>> \in Seq(CallInfo)
      OBVIOUS
    <3> QED BY <2>4, <3>1 DEF LuaState
  <2>10. IsM(y2) /\ y2.th[t] = s2
    <3> HIDE DEF s2
    <3> QED BY <2>9, SetTFacts
  <2>11. x2 = y2
    <3>1. x1 = y1
      BY <2>2
    <3> HIDE DEF x1, y1, s1
    <3>2. x2 = SetT(y1, t, [y1.th[t] EXCEPT !.ci = <<>>, !.status = "OK"])
      BY Zenon, <2>5, <2>8, <3>1
    <3>3. x2 = SetT(y1, t, s2)
      BY <2>8, <3>2
    <3> QED BY <2>7, <3>3 DEF y1
  <2>12. x3 = SetT(m, t, [s2 EXCEPT !.errfunc = 0, !.body = FALSE])
    <3> HIDE DEF x2, y2, s2
    <3>1. x3 = SetT(y2, t, [y2.th[t] EXCEPT !.errfunc = 0, !.body = FALSE])
      BY Zenon, <2>6, <2>10, <2>11
    <3> QED BY <2>7, <2>10, <3>1 DEF y2
  <2>13. [s2 EXCEPT !.errfunc = 0, !.body = FALSE] = ResetState(m.th[t], c)
    BY <2>3 DEF ResetState, LuaState
  <2> QED BY <2>1, <2>12, <2>13
<1>3. CloseProtected(m1, t, 0, status, then, 0)
        = Close(PushC(m1, ProtectClose(m1, t, 0, then, 0)), t, 0, status, FALSE)
  BY DEF CloseProtected, ProtectClose
<1>4. status \in {"OK", "ERR"}
  OBVIOUS
<1>5. m1 = ResetFirst(m, t, u)
  BY <1>2 DEF ResetFirst
<1> HIDE DEF m1, status
<1> QED BY <1>1, <1>3, <1>4, <1>5 DEF ResetTo

LEMMA ResetBegins ==
  ASSUME NEW m, IsM(m), NEW u, NEW b, NEW n, TopIs(m, u, b, n),
         Core(m.th, m.cs), Live(m.th, m.cs), m.th[u].status = "OK", Runs(b), n > b.depth,
         NEW then \in {"close", "wrap"}, Last(m.th[u].ci).func = then,
         NEW t \in Threads, t \notin ChainOf(m.cs), t # MainThread
  PROVE  InvM(ResetThread(m, t, u, then))
<1> DEFINE s  == ResetState(m.th[t], m.th[u].nCcalls)
           m1 == SetT(m, t, s)
           T1 == m1.th
           C  == m.cs
           p  == ProtectClose(m1, t, 0, then, 0)
           m2 == PushC(m1, p)
           C2 == Append(C, p)
<1>1. /\ C \in Seq(Activation) /\ Len(C) \in Nat /\ u \in Threads /\ IsTh(m.th)
      /\ u \in ChainOf(C)
  BY MachineParts, TopFacts
<1>2. m.th[t] \in LuaState /\ m.th[u].nCcalls \in Nat
  BY <1>1, ThreadFields DEF IsTh
<1>3. /\ s \in LuaState /\ s.nCcalls = m.th[u].nCcalls /\ s.nny = 0 /\ s.ci = <<>>
      /\ s.status = "OK" /\ s.errfunc = 0 /\ s.body = FALSE
  BY <1>2, ResetStateFields
<1> HIDE DEF s
<1>4. /\ IsM(m1) /\ m1.cs = C /\ T1[t] = s /\ Others(m.th, T1, t)
  BY <1>3, SetTFacts
<1> HIDE DEF m1
<1>5. IsTh(T1) /\ T1[u] = m.th[u]
  BY <1>1, <1>4, MachineParts DEF Others
<1>6. Core(T1, C)
  <2> HIDE DEF T1, C
  <2>1. Core(m.th, C) /\ t \notin ChainOf(C)
    BY DEF C
  <2> QED BY <1>3, <1>4, <1>5, <2>1, CoreEmpty
<1>7. u = C[Len(C)].t /\ b = C[Len(C)] /\ Len(C) > 0 /\ n = Len(m.th[u].ci)
  BY DEF TopIs
<1>8. Live(T1, C)
  BY <1>5, <1>7, Zenon DEF Live, CountedTo
<1>9. /\ p \in Activation /\ p.k = "prot" /\ p.t = t /\ p.use = "closep" /\ p.then = then
      /\ p.depth = 0 /\ p.inc = "none" /\ p.nny = 0 /\ p.nCcalls = m.th[u].nCcalls
  <2>1. Len(m1.th[t].ci) = 0
    BY <1>3, <1>4
  <2> QED BY <1>3, <1>4, <2>1, ProtectCloseFacts
<1> HIDE DEF p
<1>10. p.nCcalls = Cnt(C, Len(C))
  BY <1>7, <1>9, Zenon DEF Live, CountedTo
<1>11. C2 \in Seq(Activation) /\ C2[Len(C) + 1] = p /\ C2[Len(C)] = b /\ Len(C2) = Len(C) + 1
  <2>1. \A i \in 1 .. Len(C) : C2[i] = C[i]
    <3> HIDE DEF C
    <3> QED BY <1>1, <1>9
  <2>2. C2 \in Seq(Activation) /\ C2[Len(C) + 1] = p /\ Len(C2) = Len(C) + 1
    <3> HIDE DEF C
    <3> QED BY SMTT(20), <1>1, <1>9
  <2>3. Len(C) \in 1 .. Len(C)
    BY <1>1, <1>7
  <2>4. C2[Len(C)] = C[Len(C)]
    BY <2>1, <2>3
  <2> QED BY <1>7, <2>2, <2>4
<1>12. BlockStarts(T1, C2, Len(C) + 1)
  <2>1. Len(C) + 1 > 1 /\ (Len(C) + 1) - 1 = Len(C)
    BY <1>1, <1>7
  <2>2. Len(T1[u].ci) > b.depth /\ Last(T1[u].ci).func = then /\ b.t = u
    BY <1>5, <1>7, Zenon
  <2> HIDE DEF C2, C, T1
  <2> QED BY SMTT(20), <1>9, <1>11, <2>1, <2>2 DEF BlockStarts
<1>13. Core(T1, C2) /\ Live(T1, C2)
  <2>1. p.t \notin ChainOf(C) /\ p.t # MainThread /\ ~Resumes(p)
    BY <1>9 DEF Resumes
  <2>2. ~T1[p.t].body /\ T1[p.t].status = "OK" /\ T1[p.t].nny = 0 /\ T1[p.t].nCcalls = p.nCcalls
    BY <1>3, <1>4, <1>9
  <2>3. T1[C[Len(C)].t].status = "OK"
    BY Zenon, <1>5, <1>7
  <2>4. p.nCcalls = Cnt(C, Len(C)) + 0
    <3>1. Cnt(C, Len(C)) \in Nat
      BY <1>1, OneMore
    <3> HIDE DEF C
    <3> QED BY <1>10, <3>1
  <2> HIDE DEF C, T1
  <2> QED BY <1>6, <1>8, <1>9, <1>12, <2>1, <2>2, <2>3, <2>4, BlockBegins
<1>14. IsM(m2) /\ m2.th = T1 /\ m2.cs = C2
  BY <1>4, <1>9, PushCFacts
<1>15. PICK status \in {"OK", "ERR"} : ResetThread(m, t, u, then) = Close(m2, t, 0, status, FALSE)
  <2>1. PICK status \in {"OK", "ERR"} : ResetThread(m, t, u, then) = ResetTo(m, t, u, then, status)
    BY <1>1, ResetIs
  <2>2. ResetTo(m, t, u, then, status) = Close(m2, t, 0, status, FALSE)
    BY DEF ResetTo, ResetFirst, m1, p, s
  <2> QED BY <2>1, <2>2
<1> HIDE DEF m2
<1>16. TopIs(m2, t, p, 0)
  <2>1. Len(T1[t].ci) = 0
    BY <1>3, <1>4
  <2> HIDE DEF C2, T1, C
  <2> QED BY <1>1, <1>9, <1>11, <1>14, <2>1 DEF TopIs
<1>17. CloseReady(m2.th[t].ci, p, 0, FALSE)
  BY <1>9 DEF CloseReady
<1>18. m2.th[t].status = "OK"
  BY <1>3, <1>4, <1>14
<1> QED BY <1>13, <1>14, <1>15, <1>16, <1>17, <1>18, CloseBegins

\* the embedder or a C function can resume a coroutine
Caller(m) ==
  Len(m.cs) > 0 =>
    \E u, b, n : /\ TopIs(m, u, b, n) /\ Runs(b) /\ n > b.depth /\ m.th[u].status = "OK"
                 /\ Last(m.th[u].ci).func \in {"resume", "wrap"}

LEMMA ResumeProtects ==
  ASSUME NEW m, IsM(m), Core(m.th, m.cs), Live(m.th, m.cs), Caller(m),
         NEW t \in Threads, t \notin ChainOf(m.cs), t # MainThread,
         NEW T1, IsTh(T1), Others(m.th, T1, t), Core(T1, m.cs),
         ~T1[t].body, T1[t].status \in {"OK", "YIELD"}, T1[t].nny = 0,
         T1[t].nCcalls = Cnt(m.cs, Len(m.cs)) + 1,
         NEW p \in Activation, p.k = "prot", p.use = "resume", p.t = t, p.inc = "none",
         p.nny = 0, p.nCcalls = T1[t].nCcalls
  PROVE  Core(T1, Append(m.cs, p)) /\ Live(T1, Append(m.cs, p))
<1> DEFINE C  == m.cs
           C2 == Append(C, p)
<1>1. C \in Seq(Activation) /\ Len(C) \in Nat /\ IsTh(m.th)
  BY MachineParts
<1>2. C2 \in Seq(Activation) /\ C2[Len(C) + 1] = p /\ Len(C2) = Len(C) + 1
      /\ \A i \in 1 .. Len(C) : C2[i] = C[i]
  <2> HIDE DEF C
  <2> QED BY <1>1
<1>3. \A u, b, n : TopIs(m, u, b, n) => T1[u] = m.th[u] /\ C[Len(C)].t = u /\ C[Len(C)] = b
                                        /\ n = Len(T1[u].ci) /\ b.t = u /\ Len(C) > 0
  <2> SUFFICES ASSUME NEW u, NEW b, NEW n, TopIs(m, u, b, n)
               PROVE  T1[u] = m.th[u]
    BY DEF TopIs
  <2> QED BY TopFacts DEF Others
<1>4. Len(C) > 0 => /\ Runs(C[Len(C)]) /\ T1[C[Len(C)].t].status = "OK"
                    /\ T1[C[Len(C)].t] = m.th[C[Len(C)].t]
                    /\ Len(T1[C[Len(C)].t].ci) > C[Len(C)].depth
                    /\ Last(T1[C[Len(C)].t].ci).func \in {"resume", "wrap"}
  <2> SUFFICES ASSUME Len(C) > 0
               PROVE  /\ Runs(C[Len(C)]) /\ T1[C[Len(C)].t].status = "OK"
                      /\ T1[C[Len(C)].t] = m.th[C[Len(C)].t]
                      /\ Len(T1[C[Len(C)].t].ci) > C[Len(C)].depth
                      /\ Last(T1[C[Len(C)].t].ci).func \in {"resume", "wrap"}
    OBVIOUS
  <2>1. PICK u, b, n : /\ TopIs(m, u, b, n) /\ Runs(b) /\ n > b.depth /\ m.th[u].status = "OK"
                       /\ Last(m.th[u].ci).func \in {"resume", "wrap"}
    BY DEF Caller
  <2>2. T1[u] = m.th[u] /\ C[Len(C)].t = u /\ C[Len(C)] = b /\ n = Len(T1[u].ci)
    BY <1>3, <2>1
  <2> HIDE DEF C
  <2> QED BY <2>1, <2>2
<1>5. BlockStarts(T1, C2, Len(C) + 1)
  <2>1. Len(C) > 0 => Len(C) + 1 > 1 /\ (Len(C) + 1) - 1 = Len(C) /\ C2[Len(C)] = C[Len(C)]
    <3> HIDE DEF C, C2
    <3> QED BY <1>1, <1>2
  <2>2. Len(C) + 1 > 1 => Len(C) > 0
    BY <1>1
  <2> HIDE DEF C, C2
  <2> QED BY <1>2, <1>4, <2>1, <2>2 DEF BlockStarts
<1>6. Live(T1, C)
  BY <1>4 DEF Live, CountedTo
<1>7. /\ p.t \notin ChainOf(C) /\ Resumes(p) /\ p.nny = (IF p.t = MainThread THEN 1 ELSE 0)
      /\ p.nny = T1[p.t].nny /\ p.nCcalls = Cnt(C, Len(C)) + (IF Resumes(p) THEN 1 ELSE 0)
      /\ p.nCcalls = T1[p.t].nCcalls /\ ~T1[p.t].body /\ T1[p.t].status \in {"OK", "YIELD"}
  BY DEF Resumes
<1> DEFINE T == T1
<1> HIDE DEF C
<1>8. Core(T1, C)
  BY DEF C
<1>9. Core(T1, Append(C, p)) /\ Live(T1, Append(C, p))
  BY <1>4, <1>5, <1>6, <1>7, <1>8, BlockBegins
<1> QED BY <1>9 DEF C

SetBody(m, t)      == [m EXCEPT !.th[t].body = FALSE]
SetStatus(m, t, x) == [m EXCEPT !.th[t].status = x]
LEMMA SetBodyFacts ==
  ASSUME NEW m, IsM(m), NEW t \in Threads
  PROVE  LET s == SetBody(m, t).th[t]
         IN  /\ IsM(SetBody(m, t)) /\ SetBody(m, t).cs = m.cs /\ SetBody(m, t).mode = m.mode
             /\ Others(m.th, SetBody(m, t).th, t) /\ s.body = FALSE
             /\ s.status = m.th[t].status /\ s.ci = m.th[t].ci /\ s.errfunc = m.th[t].errfunc
             /\ s.nny = m.th[t].nny /\ s.nCcalls = m.th[t].nCcalls
             /\ s.tbclist = m.th[t].tbclist
<1> DEFINE r == [m.th[t] EXCEPT !.body = FALSE]
<1>1. m.th[t] \in LuaState
  BY DEF IsM
<1>2. /\ r \in LuaState /\ r.body = FALSE
      /\ r.status = m.th[t].status /\ r.ci = m.th[t].ci /\ r.errfunc = m.th[t].errfunc
      /\ r.nny = m.th[t].nny /\ r.nCcalls = m.th[t].nCcalls /\ r.tbclist = m.th[t].tbclist
  BY <1>1 DEF LuaState
<1>3. SetBody(m, t) = SetT(m, t, r)
  BY DEF SetBody, SetT, IsM
<1> HIDE DEF r
<1> QED BY <1>2, <1>3, SetTFacts
LEMMA SetStatusFacts ==
  ASSUME NEW m, IsM(m), NEW t \in Threads, NEW x \in {"OK", "YIELD", "ERR"}
  PROVE  LET s == SetStatus(m, t, x).th[t]
         IN  /\ IsM(SetStatus(m, t, x)) /\ SetStatus(m, t, x).cs = m.cs
             /\ SetStatus(m, t, x).mode = m.mode
             /\ Others(m.th, SetStatus(m, t, x).th, t) /\ s.status = x
             /\ s.body = m.th[t].body /\ s.ci = m.th[t].ci /\ s.errfunc = m.th[t].errfunc
             /\ s.nny = m.th[t].nny /\ s.nCcalls = m.th[t].nCcalls
             /\ s.tbclist = m.th[t].tbclist
<1> DEFINE r == [m.th[t] EXCEPT !.status = x]
<1>1. m.th[t] \in LuaState
  BY DEF IsM
<1>2. /\ r \in LuaState /\ r.status = x
      /\ r.body = m.th[t].body /\ r.ci = m.th[t].ci /\ r.errfunc = m.th[t].errfunc
      /\ r.nny = m.th[t].nny /\ r.nCcalls = m.th[t].nCcalls /\ r.tbclist = m.th[t].tbclist
  BY <1>1 DEF LuaState
<1>3. SetStatus(m, t, x) = SetT(m, t, r)
  BY DEF SetStatus, SetT, IsM
<1> HIDE DEF r
<1> QED BY <1>2, <1>3, SetTFacts

ResumeCalls(m, t, c) == SetCounters(m, t, c + 1, 0)
ResumeProt(m, t, c)  ==
  PushC(ResumeCalls(m, t, c), Protect(ResumeCalls(m, t, c), t, "resume"))

ResumeP(m, t, c)     == Protect(ResumeCalls(m, t, c), t, "resume")
ResumeBegun(m, m2, p, t, c) ==
  /\ IsM(m2) /\ m2.cs = Append(m.cs, p) /\ Others(m.th, m2.th, t)
  /\ m2.th[t].status = m.th[t].status /\ m2.th[t].body = m.th[t].body
  /\ m2.th[t].ci = m.th[t].ci /\ m2.th[t].errfunc = m.th[t].errfunc
  /\ m2.th[t].nCcalls = c + 1 /\ m2.th[t].nny = 0 /\ m2.th[t].tbclist = m.th[t].tbclist
  /\ p \in Activation /\ p.k = "prot" /\ p.use = "resume" /\ p.t = t
  /\ p.inc = "none" /\ p.nny = 0 /\ p.nCcalls = c + 1

\* the beginning of lua_resume
LEMMA ResumeProtFacts ==
  ASSUME NEW m, IsM(m), NEW t \in Threads, NEW c \in Nat
  PROVE  ResumeBegun(m, ResumeProt(m, t, c), ResumeP(m, t, c), t, c)
<1> DEFINE m1 == ResumeCalls(m, t, c)
           p  == Protect(m1, t, "resume")
           m2 == PushC(m1, p)
<1>1. c + 1 \in Nat /\ 0 \in Nat
  OBVIOUS
<1>2. /\ OnlyCounters(m, m1, t) /\ m1.th[t].nCcalls = c + 1 /\ m1.th[t].nny = 0
  BY <1>1, SetCountersFacts DEF ResumeCalls
<1> HIDE DEF m1
<1>3. IsM(m1)
  BY <1>2 DEF OnlyCounters
<1>4. /\ p \in Activation /\ p.k = "prot" /\ p.use = "resume" /\ p.t = t /\ p.inc = "none"
      /\ p.nny = m1.th[t].nny /\ p.nCcalls = m1.th[t].nCcalls
  BY <1>3, ProtectFacts
<1> HIDE DEF p
<1>5. IsM(m2) /\ m2.th = m1.th /\ m2.cs = Append(m1.cs, p)
  BY <1>3, <1>4, PushCFacts
<1>6. m2 = ResumeProt(m, t, c)
  BY DEF ResumeProt, m1, p
<1> HIDE DEF m2
<1>7. p = ResumeP(m, t, c)
  BY DEF ResumeP, m1, p
<1> QED BY <1>2, <1>4, <1>5, <1>6, <1>7 DEF OnlyCounters, ResumeBegun

LEMMA ResumeNew ==
  ASSUME NEW m, IsM(m), Core(m.th, m.cs), Live(m.th, m.cs), Caller(m),
         NEW t \in Threads, t \notin ChainOf(m.cs), t # MainThread, m.th[t].body,
         NEW c \in Nat, c = Cnt(m.cs, Len(m.cs))
  PROVE  Begins(SetBody(ResumeProt(m, t, c), t), t, "none")
<1> DEFINE p  == ResumeP(m, t, c)
           m2 == ResumeProt(m, t, c)
           m3 == SetBody(m2, t)
           T3 == m3.th
           C  == m.cs
           C3 == Append(C, p)
<1>1. /\ C \in Seq(Activation) /\ Len(C) \in Nat /\ IsTh(m.th)
      /\ m.th[t].ci \in Seq(CallInfo) /\ m.th[t].errfunc \in Nat
  BY MachineParts, ThreadFields DEF IsTh
<1>2. /\ IsM(m2) /\ m2.cs = C3 /\ Others(m.th, m2.th, t)
      /\ m2.th[t].status = m.th[t].status
      /\ m2.th[t].ci = m.th[t].ci /\ m2.th[t].errfunc = m.th[t].errfunc
      /\ m2.th[t].nCcalls = c + 1 /\ m2.th[t].nny = 0
      /\ p \in Activation /\ p.k = "prot" /\ p.use = "resume" /\ p.t = t
      /\ p.inc = "none" /\ p.nny = 0 /\ p.nCcalls = c + 1
  <2>1. ResumeBegun(m, m2, p, t, c)
    BY ResumeProtFacts
  <2> HIDE DEF p, m2
  <2> QED BY <2>1 DEF ResumeBegun
<1> HIDE DEF p, m2
<1>3. /\ IsM(m3) /\ m3.cs = C3 /\ Others(m2.th, T3, t) /\ T3[t].body = FALSE
      /\ T3[t].status = m.th[t].status
      /\ T3[t].ci = m.th[t].ci /\ T3[t].errfunc = m.th[t].errfunc
      /\ T3[t].nCcalls = c + 1 /\ T3[t].nny = 0
  <2>1. IsM(m2)
    BY <1>2
  <2>2. /\ IsM(m3) /\ m3.cs = m2.cs /\ Others(m2.th, m3.th, t) /\ m3.th[t].body = FALSE
        /\ m3.th[t].status = m2.th[t].status /\ m3.th[t].ci = m2.th[t].ci
        /\ m3.th[t].errfunc = m2.th[t].errfunc
        /\ m3.th[t].nny = m2.th[t].nny /\ m3.th[t].nCcalls = m2.th[t].nCcalls
    BY ZenonT(40), <2>1, SetBodyFacts
  <2> HIDE DEF m3, C3, C
  <2> QED BY <1>2, <2>2
<1> HIDE DEF m3
<1>4. IsTh(T3) /\ Others(m.th, T3, t)
  BY <1>2, <1>3, MachineParts DEF Others
<1>5. m.th[t].status = "OK" /\ Len(m.th[t].ci) = 0 /\ m.th[t].errfunc = 0
  <2>1. StatusOf(m.th, C, t)
    BY DEF Core, States
  <2>2. m.th[t].status = "OK" /\ Len(m.th[t].ci) = 0
    BY <2>1 DEF StatusOf
  <2>3. IsInner(m.th[t].ci, 0, m.th[t].errfunc)
    BY <2>2 DEF Core, Frames
  <2> QED BY <1>1, <2>2, <2>3 DEF IsInner
<1>6. T3[t].ci = <<>> /\ T3[t].errfunc = 0 /\ T3[t].status = "OK"
  BY <1>1, <1>3, <1>5
<1>7. Core(T3, C)
  <2> DEFINE T == m.th
  <2>1. Core(T, C) /\ Others(T, T3, t) /\ t \notin ChainOf(C)
    BY <1>4
  <2> HIDE DEF T, C, T3
  <2> QED BY <1>4, <1>6, <2>1, CoreEmpty
<1>8. Core(T3, C3) /\ Live(T3, C3)
  <2>1. T3[t].nCcalls = Cnt(m.cs, Len(m.cs)) + 1
    BY <1>3
  <2> HIDE DEF T3
  <2> QED BY <1>2, <1>3, <1>4, <1>6, <1>7, <2>1, ResumeProtects DEF C3, C
<1>9. C3 \in Seq(Activation) /\ Len(C3) > 0 /\ C3[Len(C3)] = p
  <2> HIDE DEF C
  <2> QED BY <1>1, <1>2
<1>10. CallReady(T3, C3, "none")
  <2>1. p.t = t /\ Len(T3[t].ci) = 0 /\ T3[t].status = "OK"
    BY <1>2, <1>6
  <2> HIDE DEF T3, C3
  <2> QED BY <1>2, <1>9, <2>1 DEF CallReady, Runs
<1>11. t = m3.cs[Len(m3.cs)].t
  <2> HIDE DEF C3
  <2> QED BY <1>2, <1>3, <1>9
<1>12. Core(m3.th, m3.cs) /\ Live(m3.th, m3.cs) /\ CallReady(m3.th, m3.cs, "none")
  BY SMTT(20), <1>3, <1>8, <1>10
<1>13. Begins(m3, t, "none")
  BY <1>3, <1>11, <1>12 DEF Begins
<1> QED BY <1>13 DEF m3, m2

LEMMA ResumeAgain ==
  ASSUME NEW m, IsM(m), Core(m.th, m.cs), Live(m.th, m.cs), Caller(m),
         NEW t \in Threads, t \notin ChainOf(m.cs), t # MainThread, m.th[t].status = "YIELD",
         NEW c \in Nat, c = Cnt(m.cs, Len(m.cs))
  PROVE  InvM(In(PushC(PopCI(SetStatus(ResumeProt(m, t, c), t, "OK"), t), Blank(t)), "return"))
<1> DEFINE p  == ResumeP(m, t, c)
           m2 == ResumeProt(m, t, c)
           m3 == SetStatus(m2, t, "OK")
           m4 == PopCI(m3, t)
           m5 == PushC(m4, Blank(t))
           C  == m.cs
           C3 == Append(C, p)
           ci == m.th[t].ci
<1>1. /\ C \in Seq(Activation) /\ Len(C) \in Nat /\ IsTh(m.th) /\ ci \in Seq(CallInfo)
  BY MachineParts, ThreadFields DEF IsTh
<1>2. /\ IsM(m2) /\ m2.cs = C3 /\ Others(m.th, m2.th, t)
      /\ m2.th[t].status = m.th[t].status /\ m2.th[t].body = m.th[t].body
      /\ m2.th[t].ci = ci /\ m2.th[t].errfunc = m.th[t].errfunc
      /\ m2.th[t].nCcalls = c + 1 /\ m2.th[t].nny = 0
      /\ p \in Activation /\ p.k = "prot" /\ p.use = "resume" /\ p.t = t
      /\ p.inc = "none" /\ p.nny = 0 /\ p.nCcalls = c + 1
  <2>1. ResumeBegun(m, m2, p, t, c)
    BY ResumeProtFacts
  <2> HIDE DEF p, m2
  <2> QED BY <2>1 DEF ResumeBegun
<1> HIDE DEF p, m2
<1>3. /\ IsM(m3) /\ m3.cs = C3 /\ Others(m2.th, m3.th, t) /\ m3.th[t].body = m.th[t].body
      /\ m3.th[t].status = "OK"
      /\ m3.th[t].ci = ci /\ m3.th[t].errfunc = m.th[t].errfunc
      /\ m3.th[t].nCcalls = c + 1 /\ m3.th[t].nny = 0
  <2>1. IsM(m2)
    BY <1>2
  <2>2. /\ IsM(m3) /\ m3.cs = m2.cs /\ Others(m2.th, m3.th, t) /\ m3.th[t].status = "OK"
        /\ m3.th[t].body = m2.th[t].body /\ m3.th[t].ci = m2.th[t].ci
        /\ m3.th[t].errfunc = m2.th[t].errfunc
        /\ m3.th[t].nny = m2.th[t].nny /\ m3.th[t].nCcalls = m2.th[t].nCcalls
    BY <2>1, SetStatusFacts
  <2> HIDE DEF m3, C3, C, ci
  <2> QED BY <1>2, <2>2
<1> HIDE DEF m3
<1>4. /\ StatusOf(m.th, C, t) /\ Suspended(m.th[t]) /\ ~m.th[t].body
      /\ IsInner(ci, Len(ci), m.th[t].errfunc)
  BY DEF Core, States, StatusOf, Frames
<1>5. /\ Len(ci) > 0 /\ ci[Len(ci)].func = "yield"
      /\ \A j \in 1 .. Len(ci) - 1 : Continues(ci[j])
  BY <1>4 DEF Suspended
<1>6. /\ IsM(m4) /\ m4.cs = C3 /\ Others(m3.th, m4.th, t)
      /\ m4.th[t].status = "OK" /\ m4.th[t].body = m.th[t].body
      /\ m4.th[t].nny = 0 /\ m4.th[t].nCcalls = c + 1
      /\ m4.th[t].ci = Front(ci) /\ m4.th[t].errfunc = m.th[t].errfunc
  BY SMTT(20), <1>3, <1>5, PopCIFacts DEF OnlyCI
<1> HIDE DEF m4
<1>7. /\ IsTh(m2.th) /\ IsTh(m4.th) /\ Others(m2.th, m4.th, t)
  BY <1>2, <1>3, <1>6, MachineParts DEF Others
<1>8. Core(m2.th, C3) /\ Live(m2.th, C3)
  <2> DEFINE T == m.th
             T2 == m2.th
  <2>1. Core(T2, C)
    <3>1. /\ Len(T2[t].ci) = Len(T[t].ci) /\ Alike(T[t].ci, T2[t].ci, Len(T[t].ci))
          /\ T2[t].status = T[t].status /\ T2[t].body = T[t].body
          /\ T2[t].errfunc = T[t].errfunc
      BY <1>1, <1>2 DEF Alike
    <3>2. Core(T, C) /\ IsTh(T2) /\ t \notin ChainOf(C) /\ \A x \in Threads \ {t} : T2[x] = T[x]
      BY <1>2, <1>7 DEF Others
    <3> HIDE DEF T, C, T2
    <3> QED BY <3>1, <3>2, CoreQuiet
  <2>2. T2[t].nCcalls = Cnt(m.cs, Len(m.cs)) + 1 /\ T2[t].status = "YIELD" /\ ~T2[t].body
        /\ T2[t].nny = 0 /\ p.nCcalls = T2[t].nCcalls
    BY <1>2, <1>4
  <2>3. IsTh(T2) /\ Others(m.th, T2, t) /\ Core(T2, m.cs)
    BY <1>2, <1>7, <2>1
  <2> HIDE DEF T2
  <2> QED BY <1>2, <2>2, <2>3, ResumeProtects DEF C3, C, T2
<1>9. C3 \in Seq(Activation) /\ Len(C3) > 0 /\ C3[Len(C3)] = p /\ Len(C3) \in Nat
  <2> HIDE DEF C
  <2> QED BY <1>1, <1>2
<1>10. t \in ChainOf(C3) /\ C3[Len(C3)].t = t /\ Resumes(C3[Len(C3)])
  <2> HIDE DEF C3
  <2> QED BY <1>2, <1>9 DEF ChainOf, Resumes
<1>11. /\ m4.th[t].ci \in Seq(CallInfo) /\ Len(m4.th[t].ci) = Len(ci) - 1
       /\ \A j \in 1 .. Len(ci) - 1 : m4.th[t].ci[j] = ci[j]
  <2> HIDE DEF ci
  <2> QED BY <1>1, <1>5, <1>6, FrontFacts
<1>12. Core(m4.th, C3)
  <2> DEFINE T == m2.th
             T4 == m4.th
             k  == Len(ci) - 1
  <2>1. k \in Nat /\ k <= Len(ci)
    <3>1. Len(ci) \in Nat /\ Len(ci) > 0
      BY <1>1, <1>5
    <3> HIDE DEF ci
    <3> QED BY <3>1
  <2>2. Len(T4[t].ci) = k /\ \A j \in 1 .. k : T4[t].ci[j] = T[t].ci[j]
    BY <1>2, <1>11
  <2>3. Alike(T[t].ci, T4[t].ci, Len(T4[t].ci))
    <3>1. Len(T[t].ci) >= k
      BY <1>2, <2>1
    <3> HIDE DEF T, T4, k
    <3> QED BY SMTT(20), <2>1, <2>2, <3>1 DEF Alike
  <2>4. IsInner(T4[t].ci, Len(T4[t].ci), T4[t].errfunc)
    <3>1. IsInner(ci, k, m.th[t].errfunc)
      BY SMTT(20), <1>4, <1>5, <2>1 DEF IsInner
    <3>2. T[t].ci = ci /\ T4[t].errfunc = m.th[t].errfunc
      BY <1>2, <1>6
    <3> HIDE DEF T, T4, k, ci
    <3>3. Alike(ci, T4[t].ci, k) /\ Len(T4[t].ci) = k
      BY <2>2, <2>3, <3>2
    <3>4. IsInner(T4[t].ci, k, m.th[t].errfunc)
      BY <2>1, <3>1, <3>3, InnerAlike
    <3> QED BY <3>2, <3>3, <3>4
  <2>5. StatusOf(T4, C3, t)
    BY <1>4, <1>6, <1>10 DEF StatusOf
  <2>6. /\ Core(T, C3) /\ IsTh(T4) /\ T[t].status # "ERR" /\ \A x \in Threads \ {t} : T4[x] = T[x]
    BY <1>2, <1>7, <1>8 DEF Others
  <2>7. \A i \in Len(C3) + 1 .. Len(C3) : C3[i].t = t /\ C3[i].depth >= Len(T4[t].ci)
    <3> HIDE DEF C3
    <3> QED BY <1>9
  <2> HIDE DEF T, T4, C3, k
  <2>8. Core(T4, C3)
    BY <1>9, <1>10, <2>3, <2>4, <2>5, <2>6, <2>7, CoreShrink
  <2> QED BY <2>8 DEF T4
<1>13. Live(m4.th, C3)
  <2>1. m4.th[t].nny = m2.th[t].nny /\ m4.th[t].nCcalls = m2.th[t].nCcalls
    BY <1>2, <1>6
  <2> HIDE DEF C3
  <2> QED BY <1>8, <1>10, <2>1 DEF Live, CountedTo
<1>14. /\ Blank(t) \in Activation /\ Blank(t).t = t /\ Blank(t).k = "unroll"
       /\ Blank(t).inc = "none" /\ Blank(t).depth = 0
  BY DEF Blank, Activation, None
<1> DEFINE a  == Blank(t)
           C5 == Append(C3, a)
<1> HIDE DEF a
<1>15. Core(m4.th, C5) /\ Live(m4.th, C5)
  <2> DEFINE T == m4.th
  <2>1. /\ a \in Activation /\ a.t = C3[Len(C3)].t /\ a.k # "call" /\ a.k # "prot"
        /\ a.inc = "none" /\ ~Resumes(a) /\ Resumes(C3[Len(C3)]) /\ C3[Len(C3)].k # "call"
    BY <1>10, <1>14 DEF Resumes, a
  <2>2. Linked(T[a.t].ci, a, C3[Len(C3)])
    BY <1>14, <2>1 DEF Linked, LinkedProt, LinkedClose, LinkedCall, LinkedUnroll, a
  <2>3. T[a.t].status = "OK" /\ Core(T, C3) /\ Live(T, C3) /\ Len(C3) > 0
    BY <1>6, <1>9, <1>12, <1>13, <1>14 DEF a
  <2> HIDE DEF T, C3
  <2>4. Core(T, C5) /\ Live(T, C5)
    BY <2>1, <2>2, <2>3, ActBegins
  <2> QED BY <2>4 DEF T
<1>16. IsM(m5) /\ m5.th = m4.th /\ m5.cs = C5
  <2>1. a \in Activation
    BY <1>14 DEF a
  <2> QED BY <1>6, <2>1, PushCFacts DEF a
<1> HIDE DEF m5
<1>17. In(m5, "return").th = m4.th /\ In(m5, "return").cs = C5 /\ In(m5, "return").mode = "return"
  BY <1>16, InFacts
<1>18. Len(C5) > 0 /\ C5[Len(C5)] = a /\ a.t = t
  <2> HIDE DEF C3
  <2> QED BY <1>9, <1>14 DEF a
<1>19. OnTop(m4.th[t].ci, a, Acts(C5, t), "return")
  <2>1. Len(m4.th[t].ci) > 0 => Len(ci) - 1 \in 1 .. Len(ci) - 1
    BY <1>1, <1>11
  <2>2. Len(m4.th[t].ci) > 0 => Continues(m4.th[t].ci[Len(m4.th[t].ci)])
    BY <1>5, <1>11, <2>1
  <2>3. a.k = "unroll"
    BY <1>14 DEF a
  <2> QED BY <2>2, <2>3 DEF OnTop
<1>20. Inv(m4.th, C5, "return")
  <2> HIDE DEF C5
  <2> QED BY <1>6, <1>15, <1>18, <1>19 DEF Inv, TopOf
<1> QED BY <1>17, <1>20 DEF InvM, m5, m4, m3, m2

-----------------------------------------------------------------------------
(* Returns: of C functions, and of Lua functions *)

LEMMA NotInner ==
  ASSUME NEW ci, NEW n \in Nat, NEW x, n > 0, IsInner(ci, n, x), ci[n].func # "pcall"
  PROVE  IsInner(ci, n - 1, x)
<1>1. x \in 0 .. n /\ x # n
  BY DEF IsInner
<1>2. x \in 0 .. n - 1 /\ \A j \in 1 .. n - 1 : j \in 1 .. n
  BY <1>1
<1> QED BY <1>2 DEF IsInner

\* a C function other than pcall returns
LEMMA CReturns ==
  ASSUME NEW m, IsM(m), Core(m.th, m.cs), Live(m.th, m.cs), NEW u, NEW b, NEW n,
         TopIs(m, u, b, n), Runs(b), n > b.depth, m.th[u].status = "OK",
         Last(m.th[u].ci).func \notin {"lua", "pcall"}
  PROVE  InvM(In(PopCI(m, u), "run"))
<1> DEFINE T  == m.th
           C  == m.cs
           m2 == PopCI(m, u)
           T2 == m2.th
<1>1. /\ b \in Activation /\ b.depth \in Nat /\ u \in Threads /\ n \in Nat
      /\ T[u].ci \in Seq(CallInfo) /\ n > 0
  <2>1. b.depth \in Nat /\ n \in Nat
    BY TopFacts
  <2> QED BY <2>1, TopFacts
<1>2. Len(C) > 0 /\ b = C[Len(C)] /\ u = b.t /\ n = Len(T[u].ci)
  BY DEF TopIs
<1>3. /\ OnlyCI(m, m2, u) /\ T2[u].ci = Front(T[u].ci) /\ T2[u].errfunc = T[u].errfunc
  BY <1>1, <1>2, PopCIFacts, Zenon
<1>4. IsM(m2) /\ IsTh(T2) /\ m2.cs = C
  BY <1>3, MachineParts DEF OnlyCI
<1>5. IsInner(T[u].ci, n - 1, T2[u].errfunc)
  <2>1. IsInner(T[u].ci, n, T[u].errfunc)
    BY <1>1, <1>2, Zenon DEF Core, Frames
  <2>2. T[u].ci[n].func # "pcall"
    BY <1>2, ZenonT(40) DEF Last
  <2> QED BY <1>1, <1>3, <2>1, <2>2, NotInner
<1>6. Inv(T2, C, "run")
  <2>1. /\ Others(T, T2, u) /\ T2[u].status = T[u].status /\ T2[u].body = T[u].body
        /\ T2[u].nny = T[u].nny /\ T2[u].nCcalls = T[u].nCcalls
    BY <1>3 DEF OnlyCI
  <2>2. Core(T, C) /\ Live(T, C) /\ u = C[Len(C)].t /\ Runs(C[Len(C)]) /\ T[u].status = "OK"
        /\ Len(T[u].ci) > C[Len(C)].depth /\ Last(T[u].ci).func # "lua"
        /\ IsInner(T[u].ci, Len(T[u].ci) - 1, T2[u].errfunc)
    BY <1>2, <1>5, Zenon
  <2> HIDE DEF T, T2, C, m2
  <2> QED BY <1>2, <1>3, <1>4, <2>1, <2>2, FrameReturns
<1> HIDE DEF m2
<1>7. In(m2, "run").th = m2.th /\ In(m2, "run").cs = m2.cs /\ In(m2, "run").mode = "run"
  BY <1>4, InFacts
<1> QED BY <1>4, <1>6, <1>7 DEF InvM, m2

\* lua_resume returns
LEMMA ResumeEnds ==
  ASSUME NEW m, IsM(m), NEW T, NEW C, Core(T, C), NEW h \in 1 .. Len(C), Resumes(C[h]),
         Len(m.cs) = h - 1, \A i \in 1 .. h - 1 : m.cs[i] = C[i], Core(m.th, m.cs),
         Others(T, m.th, C[h].t), NEW status
  PROVE  InvM(Resumed(m, C[h].t, status))
<1> DEFINE t == C[h].t
<1>1. /\ C \in Seq(Activation) /\ Len(C) \in Nat /\ Stack(T, C) /\ m.cs \in Seq(Activation)
      /\ h \in Nat
  BY MachineParts DEF Core, Types
<1>2. First(C, h) /\ t # MainThread /\ t \in Threads
  <2>1. First(C, h)
    BY <1>1, ResumeFirst
  <2>2. BlockStarts(T, C, h)
    BY <2>1 DEF Stack, Core, Good
  <2>3. t \in Threads
    BY <1>1, ActivationsFields
  <2> QED BY <1>1, <2>1, <2>2, <2>3 DEF BlockStarts, Resumes, IsPcall
<1>3. CASE h = 1
  <2>1. m.cs = <<>>
    BY <1>1, <1>3
  <2>2. Resumed(m, t, status) = In(m, "run")
    BY <2>1 DEF Resumed
  <2>3. In(m, "run").th = m.th /\ In(m, "run").cs = m.cs /\ In(m, "run").mode = "run"
    BY InFacts
  <2>4. Inv(m.th, m.cs, "run")
    BY <2>1 DEF Inv, TopOf, Live
  <2> QED BY <2>2, <2>3, <2>4 DEF InvM
<1>4. CASE h > 1
  <2> DEFINE u == C[h - 1].t
             b == C[h - 1]
             n == Len(m.th[u].ci)
  <2>1. h - 1 \in 1 .. h - 1 /\ h - 1 \in 1 .. Len(C)
    BY <1>1, <1>4
  <2>2. u \in Threads /\ u # t /\ T[u] = m.th[u]
    <3>1. u \in Threads
      BY <1>1, <2>1, ActivationsFields
    <3>2. u # t
      BY <1>2, <1>4 DEF First
    <3> QED BY <3>1, <3>2 DEF Others
  <2>3. m.cs[Len(m.cs)] = b /\ Len(m.cs) > 0
    BY <2>1, <1>4, <1>1
  <2>4. TopIs(m, u, b, n)
    BY <2>3 DEF TopIs
  <2>5. /\ Live(m.th, m.cs) /\ Runs(b) /\ m.th[u].status = "OK" /\ n > b.depth
        /\ Last(m.th[u].ci).func \in {"resume", "wrap"}
    <3> DEFINE T2 == m.th
               C2 == m.cs
    <3>1. u = C[h - 1].t /\ T2[u] = T[u] /\ Core(T2, C2) /\ C2 \in Seq(Activation)
          /\ Len(C2) = h - 1 /\ \A i \in 1 .. h - 1 : C2[i] = C[i]
      BY <1>1, <2>2
    <3> HIDE DEF T2, C2, u
    <3>2. /\ Live(T2, C2) /\ Runs(C[h - 1]) /\ T[u].status = "OK"
          /\ Len(T[u].ci) > C[h - 1].depth
          /\ IF Resumes(C[h]) THEN Last(T[u].ci).func \in {"resume", "wrap"}
                              ELSE C[h].then \in {"close", "wrap"} /\ Last(T[u].ci).func = C[h].then
      BY SMTT(20), <1>2, <1>4, <3>1, BlockEnds
    <3> QED BY <3>1, <3>2 DEF T2, C2
  <2>6. t \notin ChainOf(m.cs)
    <3>1. \A e \in 1 .. h - 1 : C[e].t # t
      BY <1>1, <1>2, FirstIsProt
    <3> QED BY <3>1 DEF ChainOf
  <2>7. Last(m.cs).t = u /\ m.cs # <<>>
    BY <2>3 DEF Last
  <2>8. CASE Last(m.th[u].ci).func = "wrap" /\ status = "ERR"
    <3>1. Resumed(m, t, status) = ResetThread(m, t, u, "wrap")
      BY <2>7, <2>8 DEF Resumed
    <3> HIDE DEF t, u, b, n
    <3>2. InvM(ResetThread(m, t, u, "wrap"))
      BY <1>2, <2>4, <2>5, <2>6, <2>8, ResetBegins
    <3> QED BY <3>1, <3>2 DEF t
  <2>9. CASE ~(Last(m.th[u].ci).func = "wrap" /\ status = "ERR")
    <3>1. Resumed(m, t, status) = In(PopCI(m, u), "run")
      BY <2>7, <2>9 DEF Resumed
    <3>2. Last(m.th[u].ci).func \notin {"lua", "pcall"}
      BY <2>5
    <3> HIDE DEF t, u, b, n
    <3>3. InvM(In(PopCI(m, u), "run"))
      BY <2>4, <2>5, <3>2, CReturns
    <3> QED BY <3>1, <3>3 DEF t
  <2> QED BY <2>8, <2>9
<1> QED BY <1>1, <1>3, <1>4

\* lua_closethread returns
LEMMA ResetEnds ==
  ASSUME NEW m, IsM(m), NEW T, NEW C, Core(T, C), NEW h \in 1 .. Len(C), First(C, h), h > 1,
         ~Resumes(C[h]), Len(m.cs) = h - 1, \A i \in 1 .. h - 1 : m.cs[i] = C[i],
         Core(m.th, m.cs), Others(T, m.th, C[h].t)
  PROVE  InvM(EndReset(m, C[h]))
<1> DEFINE t == C[h].t
           u == C[h - 1].t
           b == C[h - 1]
           n == Len(m.th[u].ci)
<1>1. /\ C \in Seq(Activation) /\ Len(C) \in Nat /\ Stack(T, C) /\ m.cs \in Seq(Activation)
      /\ h \in Nat /\ h - 1 \in 1 .. h - 1 /\ h - 1 \in 1 .. Len(C)
  BY MachineParts DEF Core, Types
<1>2. u \in Threads /\ u # t /\ T[u] = m.th[u]
  <2>1. u \in Threads
    BY <1>1, ActivationsFields
  <2>2. u # t
    BY DEF First
  <2> QED BY <2>1, <2>2 DEF Others
<1>3. m.cs[Len(m.cs)] = b /\ Len(m.cs) > 0
  BY <1>1
<1>4. TopIs(m, u, b, n)
  BY <1>3 DEF TopIs
<1>5. /\ Live(m.th, m.cs) /\ Inv(m.th, m.cs, "ERR")
      /\ Runs(b) /\ m.th[u].status = "OK" /\ n > b.depth
      /\ C[h].then \in {"close", "wrap"} /\ Last(m.th[u].ci).func = C[h].then
  <2> DEFINE T2 == m.th
             C2 == m.cs
  <2>1. u = C[h - 1].t /\ T2[u] = T[u] /\ Core(T2, C2) /\ C2 \in Seq(Activation)
        /\ Len(C2) = h - 1 /\ \A i \in 1 .. h - 1 : C2[i] = C[i]
    BY <1>1, <1>2
  <2> HIDE DEF T2, C2, u
  <2>2. /\ Live(T2, C2) /\ Inv(T2, C2, "ERR") /\ Runs(C[h - 1]) /\ T[u].status = "OK"
        /\ Len(T[u].ci) > C[h - 1].depth
        /\ IF Resumes(C[h]) THEN Last(T[u].ci).func \in {"resume", "wrap"}
                            ELSE C[h].then \in {"close", "wrap"} /\ Last(T[u].ci).func = C[h].then
    BY <2>1, BlockEnds
  <2> QED BY <2>1, <2>2 DEF T2, C2
<1>6. CASE C[h].then = "wrap"
  <2>1. In(m, "ERR").th = m.th /\ In(m, "ERR").cs = m.cs /\ In(m, "ERR").mode = "ERR"
    BY InFacts
  <2> QED BY <1>5, <1>6, <2>1 DEF EndReset, InvM
<1>7. CASE C[h].then # "wrap"
  <2>1. Last(m.cs).t = u
    BY <1>3 DEF Last
  <2>2. EndReset(m, C[h]) = In(PopCI(m, u), "run")
    BY <1>7, <2>1 DEF EndReset
  <2>3. Last(m.th[u].ci).func \notin {"lua", "pcall"}
    BY <1>5
  <2> HIDE DEF t, u, b, n
  <2>4. InvM(In(PopCI(m, u), "run"))
    BY <1>4, <1>5, <2>3, CReturns
  <2> QED BY <2>2, <2>4
<1> QED BY <1>6, <1>7

-----------------------------------------------------------------------------
(* The operations of a Lua function keep the invariant *)

LEMMA TopReady ==
  ASSUME NEW m, IsM(m), InvM(m), NEW t, NEW b, NEW n, TopIs(m, t, b, n)
  PROVE  /\ Core(m.th, m.cs) /\ OnTop(m.th[t].ci, b, Acts(m.cs, t), m.mode)
         /\ m.mode \in {"run", "return"} => Live(m.th, m.cs)
         /\ m.mode # "YIELD" => m.th[t].status = "OK"
         /\ m.mode = "YIELD" => m.th[t].status = "YIELD"
         /\ Good(m.th, m.cs, Len(m.cs))
         /\ FramesOK(m.th[t].ci, Acts(m.cs, t)) /\ IsInner(m.th[t].ci, n, m.th[t].errfunc)
         /\ StatusOf(m.th, m.cs, t) /\ m.th[t].status # "ERR" /\ ~m.th[t].body
         /\ b \in Acts(m.cs, t)
<1> DEFINE T == m.th
           C == m.cs
<1>1. /\ Len(C) \in Nat /\ Len(C) \in 1 .. Len(C) /\ t \in Threads /\ t \in ChainOf(C)
  BY TopFacts
<1>2. Len(C) > 0 /\ b = C[Len(C)] /\ t = b.t /\ n = Len(T[t].ci)
  BY DEF TopIs
<1>3. Inv(T, C, m.mode)
  BY DEF InvM
<1>4. Core(T, C) /\ TopOf(T, C, m.mode)
  BY SMTT(20), <1>3 DEF Inv
<1>5. OnTop(T[t].ci, b, Acts(C, t), m.mode) /\ (m.mode = "YIELD" <=> T[t].status = "YIELD")
  BY <1>2, <1>4 DEF TopOf
<1>6. StatusOf(T, C, t)
  BY <1>1, <1>4 DEF Core, States
<1>7. T[t].status \in {"OK", "YIELD"} /\ ~T[t].body
  BY <1>1, <1>6 DEF StatusOf
<1>8. Good(T, C, Len(C))
  BY <1>1, <1>4 DEF Core, Stack
<1>9. b \in Acts(C, t)
  BY SMTT(20), <1>1, <1>2 DEF Acts
<1>10. FramesOK(T[t].ci, Acts(C, t)) /\ IsInner(T[t].ci, n, T[t].errfunc)
  BY <1>1, <1>2, <1>4, <1>7 DEF Core, Frames
<1> QED BY <1>3, <1>4, <1>5, <1>6, <1>7, <1>8, <1>9, <1>10 DEF Inv

\* the other way round
LEMMA InvHolds ==
  ASSUME NEW m, IsM(m), NEW t, NEW b, NEW n, TopIs(m, t, b, n), Core(m.th, m.cs),
         NEW md \in {"run", "return", "ERR", "YIELD"},
         OnTop(m.th[t].ci, b, Acts(m.cs, t), md), md = "YIELD" <=> m.th[t].status = "YIELD",
         md \in {"run", "return"} => Live(m.th, m.cs)
  PROVE  Inv(m.th, m.cs, md) /\ InvM(In(m, md))
<1> DEFINE T == m.th
           C == m.cs
<1>1. Len(C) > 0 /\ b = C[Len(C)] /\ t = b.t
  BY DEF TopIs
<1>2. OnTop(T[t].ci, b, Acts(C, t), md)
  BY SMTT(20)
<1>3. Inv(T, C, md)
  BY <1>1, <1>2 DEF Inv, TopOf
<1>4. In(m, md).th = m.th /\ In(m, md).cs = m.cs /\ In(m, md).mode = md
  BY InFacts
<1> QED BY <1>3, <1>4 DEF InvM

LuaTop(m, t, b, n) ==
  IsM(m) /\ InvM(m) /\ m.mode = "run" /\ TopIs(m, t, b, n) /\ Runs(b)

LEMMA LuaReady ==
  ASSUME NEW m, NEW t, NEW b, NEW n, LuaTop(m, t, b, n)
  PROVE  /\ IsM(m) /\ InvM(m) /\ m.mode = "run" /\ TopIs(m, t, b, n) /\ Runs(b)
         /\ Core(m.th, m.cs) /\ Live(m.th, m.cs) /\ m.th[t].status = "OK" /\ ~m.th[t].body
         /\ n \in Nat /\ n > 0 /\ n > b.depth /\ t \in Threads /\ t \in ChainOf(m.cs)
         /\ m.th[t].ci[n].func = "lua" /\ Last(m.th[t].ci).func = "lua"
         /\ m.th[t].ci \in Seq(CallInfo) /\ IsTh(m.th) /\ b \in Activation /\ b.depth \in Nat
         /\ m.cs \in Seq(Activation) /\ m.th[t] \in LuaState
<1>1. IsM(m) /\ InvM(m) /\ m.mode = "run" /\ TopIs(m, t, b, n) /\ Runs(b)
  BY DEF LuaTop
<1>2. /\ Core(m.th, m.cs) /\ Live(m.th, m.cs) /\ m.th[t].status = "OK" /\ ~m.th[t].body
      /\ OnTop(m.th[t].ci, b, Acts(m.cs, t), m.mode)
  BY <1>1, TopReady
<1>3. /\ b \in Activation /\ b.depth \in Nat /\ t \in Threads /\ n \in Nat
      /\ m.th[t].ci \in Seq(CallInfo) /\ t \in ChainOf(m.cs)
  BY <1>1, TopFacts
<1>4. n = Len(m.th[t].ci)
  BY <1>1 DEF TopIs
<1>5. n > b.depth /\ m.th[t].ci[n].func = "lua"
  BY <1>1, <1>2, <1>4 DEF OnTop
<1>6. n > 0
  BY <1>3, <1>5
<1>7. IsTh(m.th) /\ m.th[t] \in LuaState /\ m.cs \in Seq(Activation)
  BY <1>1, <1>3, MachineParts DEF IsTh
<1>8. Last(m.th[t].ci).func = "lua"
  BY <1>4, <1>5 DEF Last
<1> QED BY <1>1, <1>2, <1>3, <1>5, <1>6, <1>7, <1>8

\* an operation that leaves the C stack and the calls as they are
LEMMA Quiet ==
  ASSUME NEW m, NEW t, NEW b, NEW n, LuaTop(m, t, b, n), NEW s \in LuaState,
         Len(s.ci) = n, Alike(m.th[t].ci, s.ci, n), s.status = m.th[t].status,
         s.body = m.th[t].body, s.errfunc = m.th[t].errfunc, s.nny = m.th[t].nny,
         s.nCcalls = m.th[t].nCcalls
  PROVE  InvM(SetT(m, t, s))
<1> DEFINE T  == m.th
           C  == m.cs
           T2 == SetT(m, t, s).th
<1>1. /\ IsM(m) /\ m.mode = "run" /\ TopIs(m, t, b, n) /\ Runs(b)
      /\ Core(T, C) /\ Live(T, C) /\ T[t].status = "OK"
      /\ n \in Nat /\ n > 0 /\ n > b.depth /\ t \in Threads /\ T[t].ci[n].func = "lua"
  BY LuaReady
<1>2. /\ Len(C) > 0 /\ b = C[Len(C)] /\ t = b.t /\ n = Len(T[t].ci)
  BY <1>1, Zenon DEF TopIs
<1>3. /\ IsM(SetT(m, t, s)) /\ SetT(m, t, s).cs = C /\ SetT(m, t, s).mode = "run"
      /\ T2[t] = s /\ Others(T, T2, t)
  BY <1>1, SetTFacts
<1>4. IsTh(T2)
  BY SMTT(20), <1>3, MachineParts
<1>5. Core(T2, C)
  <2>1. /\ t = C[Len(C)].t /\ C[Len(C)].depth <= Len(T[t].ci)
        /\ \A x \in Threads \ {t} : T2[x] = T[x]
        /\ Len(T2[t].ci) = Len(T[t].ci) /\ Alike(T[t].ci, T2[t].ci, Len(T[t].ci))
        /\ T2[t].status = T[t].status /\ T2[t].body = T[t].body /\ T2[t].errfunc = T[t].errfunc
        /\ T2[t].nny = T[t].nny /\ T2[t].nCcalls = T[t].nCcalls
    <3>1. b.depth \in Nat
      BY <1>1, TopFacts
    <3>2. b.depth <= n
      BY <1>1, <3>1
    <3>3. t = C[Len(C)].t /\ C[Len(C)].depth <= Len(T[t].ci)
      BY <1>2, <3>2, Zenon
    <3>4. Len(s.ci) = Len(T[t].ci) /\ Alike(T[t].ci, s.ci, Len(T[t].ci))
      BY <1>2, Zenon
    <3> QED BY <1>3, <3>3, <3>4, Zenon DEF Others
  <2> HIDE DEF T, T2, C
  <2> QED BY <1>1, <1>4, <2>1, CoreQuiet
<1>6. Live(T2, C)
  BY <1>1, <1>2, <1>3, Zenon DEF Live, CountedTo
<1>7. OnTop(s.ci, b, Acts(C, t), "run")
  <2>1. s.ci[n].func = "lua" /\ b.k # "close"
    BY <1>1 DEF Alike, Runs
  <2> QED BY <1>1, <2>1 DEF OnTop, Runs
<1>8. Inv(T2, C, "run")
  BY <1>1, <1>2, <1>3, <1>5, <1>6, <1>7, Zenon DEF Inv, TopOf
<1> QED BY <1>3, <1>8 DEF InvM

\* OP_CLOSE and OP_RETURN begin, OP_CLOSE ends
SetOp(s, n, op, upto) ==
  [s EXCEPT !.ci = [s.ci EXCEPT ![n] = [s.ci[n] EXCEPT !.op = op, !.upto = upto]]]
LEMMA OpChanges ==
  ASSUME NEW m, NEW t, NEW b, NEW n, LuaTop(m, t, b, n), NEW op \in {None, "close", "return"},
         NEW upto \in Nat
  PROVE  InvM(SetT(m, t, SetOp(m.th[t], n, op, upto)))
<1> DEFINE s  == m.th[t]
           f  == [s.ci[n] EXCEPT !.op = op, !.upto = upto]
           ci == [s.ci EXCEPT ![n] = f]
           s2 == [s EXCEPT !.ci = ci]
<1>1. n \in Nat /\ n > 0 /\ s \in LuaState /\ s.ci \in Seq(CallInfo) /\ n = Len(s.ci)
  BY LuaReady DEF TopIs
<1>2. s.ci[n] \in CallInfo
  BY <1>1
<1>3. /\ f \in CallInfo /\ f.func = s.ci[n].func /\ f.fresh = s.ci[n].fresh
      /\ f.ypcall = s.ci[n].ypcall /\ f.old_errfunc = s.ci[n].old_errfunc
  BY <1>2 DEF CallInfo
<1> HIDE DEF f
<1>4. /\ ci \in Seq(CallInfo) /\ Len(ci) = n /\ ci[n] = f
      /\ \A j \in 1 .. n : j # n => ci[j] = s.ci[j]
  BY <1>1, <1>3
<1> HIDE DEF ci
<1>5. Alike(s.ci, ci, n)
  <2>1. \A j \in 1 .. n : /\ ci[j].func = s.ci[j].func /\ ci[j].fresh = s.ci[j].fresh
                           /\ ci[j].ypcall = s.ci[j].ypcall
                           /\ ci[j].old_errfunc = s.ci[j].old_errfunc
    BY <1>3, <1>4
  <2>2. n <= Len(s.ci) /\ n <= Len(ci)
    BY <1>1, <1>4
  <2> HIDE DEF s
  <2> QED BY <2>1, <2>2 DEF Alike
<1>6. /\ s2 \in LuaState /\ s2.ci = ci /\ s2.status = s.status /\ s2.body = s.body
      /\ s2.errfunc = s.errfunc /\ s2.nny = s.nny /\ s2.nCcalls = s.nCcalls
  BY <1>1, <1>4 DEF LuaState
<1>7. InvM(SetT(m, t, s2))
  <2> HIDE DEF s2
  <2> QED BY <1>4, <1>5, <1>6, Quiet
<1>8. s2 = SetOp(m.th[t], n, op, upto)
  BY DEF SetOp, ci, f
<1> QED BY <1>7, <1>8

\* a variable becomes pending
LEMMA TbcChanges ==
  ASSUME NEW m, NEW t, NEW b, NEW n, LuaTop(m, t, b, n), NEW tbc \in Seq(Variables)
  PROVE  InvM(SetT(m, t, [m.th[t] EXCEPT !.tbclist = tbc]))
<1> DEFINE s  == m.th[t]
           s2 == [s EXCEPT !.tbclist = tbc]
<1>1. n \in Nat /\ s \in LuaState /\ s.ci \in Seq(CallInfo) /\ n = Len(s.ci)
  BY LuaReady DEF TopIs
<1>2. /\ s2 \in LuaState /\ s2.ci = s.ci /\ s2.status = s.status /\ s2.body = s.body
      /\ s2.errfunc = s.errfunc /\ s2.nny = s.nny /\ s2.nCcalls = s.nCcalls
  BY <1>1 DEF LuaState
<1>3. Alike(s.ci, s2.ci, n)
  BY <1>1, <1>2 DEF Alike
<1> HIDE DEF s2
<1>4. InvM(SetT(m, t, s2))
  BY <1>1, <1>2, <1>3, Quiet
<1> QED BY <1>4 DEF s2

LEMMA ErrorThrown ==
  ASSUME NEW m, NEW t, NEW b, NEW n, LuaTop(m, t, b, n)
  PROVE  InvM(In(m, "ERR"))
<1>1. /\ IsM(m) /\ TopIs(m, t, b, n) /\ Runs(b) /\ Core(m.th, m.cs)
      /\ m.th[t].status = "OK" /\ m.th[t].ci[n].func = "lua" /\ t \in Threads
  BY LuaReady
<1>2. /\ Len(m.cs) > 0 /\ b = m.cs[Len(m.cs)] /\ t = b.t /\ n = Len(m.th[t].ci)
  BY <1>1, Zenon DEF TopIs
<1>3. OnTop(m.th[t].ci, b, Acts(m.cs, t), "ERR")
  <2>1. m.th[t].ci[Len(m.th[t].ci)].func # "pcall" /\ b.k \in {"call", "unroll"}
    BY <1>1, <1>2, Zenon DEF Runs
  <2> QED BY <2>1 DEF OnTop
<1> QED BY <1>1, <1>3, InvHolds

LEMMA FrameFields ==
  ASSUME NEW func \in {"lua", "yield"} \cup CFunctions, NEW level \in Nat
  PROVE  /\ Frame(func, level) \in CallInfo /\ Frame(func, level).func = func
         /\ ~Frame(func, level).fresh /\ ~Frame(func, level).ypcall
         /\ Frame(func, level).old_errfunc = 0 /\ Frame(func, level).level = level
         /\ Frame(func, level).recst = "OK"
  BY DEF Frame, CallInfo, None

\* a Lua function has called another function
Called1(m, m2, t, b, n, f) ==
  /\ IsM(m2) /\ m2.cs = m.cs /\ m2.mode = m.mode /\ Others(m.th, m2.th, t)
  /\ Core(m2.th, m2.cs) /\ Live(m2.th, m2.cs) /\ TopIs(m2, t, b, n + 1) /\ Runs(b)
  /\ m2.th[t].ci[n + 1] = f /\ Last(m2.th[t].ci) = f /\ m2.th[t].status = "OK"
  /\ m2.th[t].nny = m.th[t].nny /\ m2.th[t].nCcalls = m.th[t].nCcalls
  /\ n + 1 > b.depth /\ n + 1 \in Nat

LEMMA FramePushed ==
  ASSUME NEW m, NEW t, NEW b, NEW n, LuaTop(m, t, b, n), NEW f \in CallInfo, ~f.fresh,
         NEW m2, IsM(m2), m2.cs = m.cs, m2.mode = m.mode, Others(m.th, m2.th, t),
         m2.th[t].ci = Append(m.th[t].ci, f), m2.th[t].status = m.th[t].status,
         m2.th[t].body = m.th[t].body, m2.th[t].nny = m.th[t].nny,
         m2.th[t].nCcalls = m.th[t].nCcalls,
         m2.th[t].errfunc = (IF f.func = "pcall" THEN n + 1 ELSE m.th[t].errfunc),
         f.ypcall => /\ f.func = "pcall" /\ f.old_errfunc = m.th[t].errfunc
                     /\ \A a \in Acts(m.cs, t) : a.inc # "nyci"
  PROVE  Called1(m, m2, t, b, n, f)
<1> DEFINE T  == m.th
           C  == m.cs
           T2 == m2.th
<1>1. /\ IsM(m) /\ InvM(m) /\ TopIs(m, t, b, n) /\ Runs(b)
      /\ Core(T, C) /\ Live(T, C) /\ T[t].status = "OK" /\ ~T[t].body /\ T[t].ci \in Seq(CallInfo)
      /\ n \in Nat /\ n > b.depth /\ t \in Threads /\ Last(T[t].ci).func = "lua" /\ b.depth \in Nat
      /\ t \in ChainOf(C)
  BY LuaReady
<1>2. /\ Len(C) > 0 /\ b = C[Len(C)] /\ t = b.t /\ n = Len(T[t].ci)
  BY <1>1, Zenon DEF TopIs
<1>3. IsTh(T2)
  BY MachineParts
<1>4. StatusOf(T, C, t)
  BY <1>1, TopReady
<1>5. StatusOf(T2, C, t)
  BY <1>1, <1>4 DEF StatusOf
<1>6. Core(T2, C)
  <2>1. /\ t = C[Len(C)].t /\ Runs(C[Len(C)]) /\ Len(T[t].ci) > C[Len(C)].depth
        /\ \A x \in Threads \ {t} : T2[x] = T[x]
        /\ T2[t].errfunc = (IF f.func = "pcall" THEN Len(T[t].ci) + 1 ELSE T[t].errfunc)
    BY <1>1, <1>2, Zenon DEF Others
  <2>2. /\ T2[t].ci = Append(T[t].ci, f)
        /\ f.ypcall => /\ f.func = "pcall" /\ f.old_errfunc = T[t].errfunc
                       /\ \A a \in Acts(C, t) : a.inc # "nyci"
    OBVIOUS
  <2>3. T[t].status # "ERR" /\ Len(C) > 0
    BY <1>1, <1>2, Zenon
  <2> HIDE DEF T, C, T2
  <2> QED BY <1>1, <1>3, <1>5, <2>1, <2>2, <2>3, CorePushFrame, Zenon
<1>7. Live(T2, C)
  BY <1>1, <1>2, Zenon DEF Live, CountedTo
<1>8. /\ Len(T2[t].ci) = n + 1 /\ T2[t].ci[n + 1] = f /\ Last(T2[t].ci) = f
  <2>1. /\ Len(T2[t].ci) = Len(T[t].ci) + 1 /\ T2[t].ci[Len(T[t].ci) + 1] = f
    BY SMTT(20), <1>1
  <2> QED BY <1>2, <2>1, Zenon DEF Last
<1>9. TopIs(m2, t, b, n + 1)
  BY <1>2, <1>8, Zenon DEF TopIs
<1>10. n + 1 > b.depth /\ n + 1 \in Nat
  BY <1>1
<1> QED BY <1>1, <1>6, <1>7, <1>8, <1>9, <1>10 DEF Called1

LEMMA CPushed ==
  ASSUME NEW m, NEW t, NEW b, NEW n, LuaTop(m, t, b, n),
         NEW func \in {"lua", "yield"} \cup CFunctions, func # "pcall", NEW level \in Nat
  PROVE  Called1(m, PushCI(m, t, Frame(func, level)), t, b, n, Frame(func, level))
<1> DEFINE f  == Frame(func, level)
           m2 == PushCI(m, t, f)
<1>1. f \in CallInfo /\ f.func = func /\ ~f.fresh /\ ~f.ypcall
  BY FrameFields
<1> HIDE DEF f
<1>2. IsM(m) /\ t \in Threads
  BY LuaReady
<1>3. /\ OnlyCI(m, m2, t) /\ m2.th[t].ci = Append(m.th[t].ci, f)
      /\ m2.th[t].errfunc = m.th[t].errfunc
  BY <1>1, <1>2, PushCIFacts
<1> HIDE DEF m2
<1>4. Called1(m, m2, t, b, n, f)
  BY <1>1, <1>3, FramePushed DEF OnlyCI
<1> QED BY <1>4 DEF m2, f

\* OP_CALL of a Lua function
LEMMA LuaCalled ==
  ASSUME NEW m, NEW t, NEW b, NEW n, LuaTop(m, t, b, n), NEW level \in Nat
  PROVE  InvM(PushCI(m, t, Frame("lua", level)))
<1> DEFINE f  == Frame("lua", level)
           m2 == PushCI(m, t, f)
<1>1. f.func = "lua"
  BY FrameFields
<1> HIDE DEF f
<1>2. Called1(m, m2, t, b, n, f)
  BY CPushed DEF f
<1> HIDE DEF m2
<1>3. m.mode = "run"
  BY LuaReady
<1>4. /\ IsM(m2) /\ m2.mode = "run" /\ Core(m2.th, m2.cs) /\ Live(m2.th, m2.cs)
      /\ TopIs(m2, t, b, n + 1) /\ Runs(b) /\ m2.th[t].status = "OK"
      /\ m2.th[t].ci[n + 1].func = "lua" /\ n + 1 > b.depth
  BY <1>1, <1>2, <1>3 DEF Called1
<1>5. n + 1 = Len(m2.th[t].ci)
  BY <1>4 DEF TopIs
<1>6. OnTop(m2.th[t].ci, b, Acts(m2.cs, t), "run")
  BY <1>4, <1>5 DEF OnTop, Runs
<1>7. Inv(m2.th, m2.cs, "run")
  BY <1>4, <1>6, InvHolds
<1> QED BY <1>4, <1>7 DEF InvM, m2, f

LEMMA RunsReady ==
  ASSUME NEW m, NEW t, NEW b, NEW n, TopIs(m, t, b, n), m.th[t].status = "OK", Runs(b),
         n > b.depth, NEW inc,
         \/ inc = "nyci" /\ m.th[t].ci[n].func = "call"
         \/ inc = "yieldable" /\ Continues(m.th[t].ci[n])
  PROVE  CallReady(m.th, m.cs, inc)
<1>1. /\ Len(m.cs) > 0 /\ m.cs[Len(m.cs)] = b /\ b.t = t /\ Len(m.th[t].ci) = n
  BY DEF TopIs
<1>2. b.k # "prot" /\ b.k # "close"
  BY DEF Runs
<1> QED BY SMTT(20), <1>1, <1>2 DEF CallReady

\* an instruction calls a metamethod
LEMMA MetamethodCalled ==
  ASSUME NEW m, NEW t, NEW b, NEW n, LuaTop(m, t, b, n)
  PROVE  InvM(Ccall(m, t, "yieldable", None))
<1>1. /\ IsM(m) /\ TopIs(m, t, b, n) /\ Runs(b)
      /\ Core(m.th, m.cs) /\ Live(m.th, m.cs) /\ m.th[t].status = "OK"
      /\ n > b.depth /\ m.th[t].ci[n].func = "lua"
  BY LuaReady
<1>2. /\ Len(m.cs) > 0 /\ b = m.cs[Len(m.cs)] /\ t = b.t /\ n = Len(m.th[t].ci)
  BY <1>1, Zenon DEF TopIs
<1>3. CallReady(m.th, m.cs, "yieldable")
  <2>1. Continues(m.th[t].ci[n])
    BY <1>1 DEF Continues
  <2> QED BY <1>1, <2>1, RunsReady
<1>4. t = m.cs[Len(m.cs)].t
  BY <1>2
<1> QED BY <1>1, <1>3, <1>4, CcallBegins

\* a C function calls back
LEMMA CallbackCalled ==
  ASSUME NEW m, NEW t, NEW b, NEW n, LuaTop(m, t, b, n), NEW level \in Nat
  PROVE  InvM(Ccall(PushCI(m, t, Frame("call", level)), t, "nyci", None))
<1> DEFINE f  == Frame("call", level)
           m2 == PushCI(m, t, f)
<1>1. f.func = "call"
  BY FrameFields DEF CFunctions
<1> HIDE DEF f
<1>2. Called1(m, m2, t, b, n, f)
  BY CPushed DEF f, CFunctions
<1> HIDE DEF m2
<1>4. /\ IsM(m2) /\ Core(m2.th, m2.cs) /\ Live(m2.th, m2.cs)
      /\ TopIs(m2, t, b, n + 1) /\ Runs(b) /\ m2.th[t].status = "OK"
      /\ m2.th[t].ci[n + 1].func = "call" /\ n + 1 > b.depth
  BY <1>1, <1>2 DEF Called1
<1>5. /\ Len(m2.cs) > 0 /\ b = m2.cs[Len(m2.cs)] /\ t = b.t /\ n + 1 = Len(m2.th[t].ci)
  BY <1>4 DEF TopIs
<1>6. CallReady(m2.th, m2.cs, "nyci")
  <2>1. b.k # "prot" /\ b.k # "close"
    BY <1>4 DEF Runs
  <2> QED BY <1>4, <1>5, <2>1, Zenon DEF CallReady
<1>7. t = m2.cs[Len(m2.cs)].t
  BY <1>5
<1>8. InvM(Ccall(m2, t, "nyci", None))
  BY <1>4, <1>6, <1>7, CcallBegins
<1> QED BY <1>8 DEF m2, f

\* where a thread can yield, its handler is lua_resume's
LEMMA YieldHandler ==
  ASSUME NEW m, NEW t, NEW b, NEW n, LuaTop(m, t, b, n), NEW h \in 1 .. Len(m.cs),
         m.cs[h].k = "prot", m.cs[h].t = t,
         \A j \in h + 1 .. Len(m.cs) : m.cs[j].k # "prot" /\ m.cs[j].t = t,
         \A a \in Acts(m.cs, t) : a.inc # "nyci"
  PROVE  Resumes(m.cs[h])
<1> DEFINE T == m.th
           C == m.cs
<1>1. /\ IsM(m) /\ InvM(m) /\ TopIs(m, t, b, n) /\ Runs(b) /\ m.mode = "run"
      /\ Core(T, C) /\ n \in Nat /\ n > b.depth /\ t \in Threads /\ b.depth \in Nat
      /\ C \in Seq(Activation)
  BY SMTT(20), LuaReady
<1>2. /\ Len(C) > 0 /\ b = C[Len(C)] /\ t = b.t /\ n = Len(T[t].ci)
  BY <1>1 DEF TopIs
<1>3. Len(C) \in Nat /\ Len(C) \in 1 .. Len(C) /\ h # Len(C)
  <2>1. C[Len(C)].k # "prot"
    BY <1>1, <1>2, Zenon DEF Runs
  <2>2. C[h].k = "prot"
    OBVIOUS
  <2>3. Len(C) \in Nat /\ Len(C) \in 1 .. Len(C)
    BY <1>1, TopFacts
  <2> HIDE DEF C
  <2> QED BY <2>1, <2>2, <2>3
<1>4. OnTop(T[t].ci, C[Len(C)], Acts(C, t), "run")
  BY <1>1, <1>2, TopReady, Zenon
<1>5. SUFFICES ASSUME ~Resumes(C[h])
               PROVE  FALSE
  OBVIOUS
<1>6. \/ Len(T[t].ci) = C[h].depth
      \/ \E e \in h + 1 .. Len(C) : C[e].inc = "nyci" /\ C[e].depth = C[h].depth
  <2>1. C[h].t = t /\ C[h].t = C[Len(C)].t
    BY <1>2
  <2>2. \A j \in h + 1 .. Len(C) : C[j].k # "prot" /\ C[j].t = C[Len(C)].t
    BY <1>2
  <2>3. C[h].k = "prot" /\ h \in 1 .. Len(C)
    OBVIOUS
  <2> HIDE DEF T, C
  <2>4. OnTop(T[C[h].t].ci, C[Len(C)], Acts(C, t), "run")
    BY <1>4, <2>1
  <2>5. \/ Len(T[C[h].t].ci) = C[h].depth
        \/ \E e \in h + 1 .. Len(C) : C[e].inc = "nyci" /\ C[e].depth = C[h].depth
    BY ZenonT(40), <1>1, <1>5, <2>1, <2>2, <2>3, <2>4, AboveProt
  <2> QED BY <2>1, <2>5
<1>7. \A e \in h + 1 .. Len(C) : C[e] \in Acts(C, t)
  BY <1>3 DEF Acts
<1>8. C[h].depth <= b.depth
  <2>1. Deeper(C, Len(C))
    BY <1>1, <1>3 DEF Core, Stack, Good
  <2>2. h \in 1 .. Len(C) - 1 /\ C[h].t = C[Len(C)].t
    BY <1>2, <1>3
  <2> QED BY <1>2, <1>5, <2>1, <2>2 DEF Deeper
<1>9. C[h].depth \in Nat
  BY <1>1, ActivationsFields
<1>10. ~ \E e \in h + 1 .. Len(C) : C[e].inc = "nyci" /\ C[e].depth = C[h].depth
  BY SMTT(20), <1>7
<1>11. n = C[h].depth
  BY <1>2, <1>6, <1>10
<1> HIDE DEF C, T
<1>12. n <= b.depth
  BY <1>8, <1>11
<1> QED BY <1>1, <1>12

LEMMA NoNyci ==
  ASSUME NEW C \in Seq(Activation), NEW t, Nyci(C, t, Len(C)) = 0
  PROVE  t # MainThread /\ \A a \in Acts(C, t) : a.inc # "nyci"
<1> DEFINE S == {i \in 1 .. Len(C) : C[i].t = t /\ C[i].inc = "nyci"}
<1>1. IsFiniteSet(S)
  <2>1. IsFiniteSet(1 .. Len(C))
    BY FS_Interval
  <2> QED BY <2>1, FS_Subset
<1>2. Nyci(C, t, Len(C)) = Cardinality(S) + (IF t = MainThread THEN 1 ELSE 0)
  BY DEF Nyci
<1> HIDE DEF S
<1>3. Cardinality(S) \in Nat
  BY <1>1, FS_CardinalityType
<1>4. t # MainThread /\ Cardinality(S) = 0
  BY <1>2, <1>3
<1>5. S = {}
  BY <1>1, <1>4, FS_EmptySet
<1> QED BY <1>4, <1>5 DEF S, Acts

LEMMA YieldFacts ==
  ASSUME NEW m, NEW t, NEW b, NEW n, LuaTop(m, t, b, n), m.th[t].nny = 0
  PROVE  /\ t # MainThread /\ \A a \in Acts(m.cs, t) : a.inc # "nyci"
         /\ \A j \in 1 .. n : Continues(m.th[t].ci[j])
<1> DEFINE T == m.th
           C == m.cs
<1>1. /\ IsM(m) /\ InvM(m) /\ TopIs(m, t, b, n)
      /\ Core(T, C) /\ Live(T, C) /\ C \in Seq(Activation) /\ m.th[t].ci[n].func = "lua"
  BY LuaReady
<1>2. /\ Len(C) > 0 /\ b = C[Len(C)] /\ t = b.t /\ n = Len(T[t].ci)
  BY <1>1, Zenon DEF TopIs
<1>3. t # MainThread /\ \A a \in Acts(C, t) : a.inc # "nyci"
  <2>1. Nyci(C, t, Len(C)) = 0
    BY <1>1, <1>2, ZenonT(40) DEF Live, CountedTo
  <2> HIDE DEF C
  <2> QED BY <1>1, <2>1, NoNyci
<1>4. PICK h \in 1 .. Len(C) :
        /\ C[h].k = "prot" /\ C[h].t = C[Len(C)].t
        /\ \A j \in h + 1 .. Len(C) : C[j].k # "prot" /\ C[j].t = C[Len(C)].t
  <2> HIDE DEF C, T
  <2> QED BY <1>1, <1>2, HandlerExists
<1>5. Resumes(C[h])
  BY <1>2, <1>3, <1>4, YieldHandler
<1>6. \A a \in Acts(C, t) : ~IsPcall(a)
  <2>1. C[h].t = t /\ C[h].t = C[Len(C)].t
    BY <1>2, <1>4
  <2> HIDE DEF C, T
  <2> QED BY <1>1, <1>4, <1>5, <2>1, AboveResume
<1>7. FramesOK(T[t].ci, Acts(C, t))
  BY <1>1, TopReady
<1>8. ASSUME NEW j \in 1 .. n
      PROVE  Continues(T[t].ci[j])
  <2>1. CASE j = n
    BY <1>1, <2>1 DEF Continues
  <2>2. CASE j # n
    <3>1. j \in 1 .. Len(T[t].ci) /\ j # Len(T[t].ci)
      BY <1>2, <2>2
    <3>2. ~Owns(Acts(C, t), T[t].ci, j)
      BY <1>3, <1>6 DEF Owns
    <3> QED BY SMTT(20), <1>7, <3>1, <3>2 DEF FramesOK, Owned
  <2> QED BY <2>1, <2>2
<1> QED BY <1>3, <1>8

\* coroutine.yield
LEMMA Yielded ==
  ASSUME NEW m, NEW t, NEW b, NEW n, LuaTop(m, t, b, n), m.th[t].nny = 0, NEW level \in Nat
  PROVE  InvM(In(PushCI(SetStatus(m, t, "YIELD"), t, Frame("yield", level)), "YIELD"))
<1> DEFINE f  == Frame("yield", level)
           m1 == SetStatus(m, t, "YIELD")
           m2 == PushCI(m1, t, f)
           T  == m.th
           C  == m.cs
           T2 == m2.th
<1>1. /\ IsM(m) /\ InvM(m) /\ TopIs(m, t, b, n) /\ Runs(b)
      /\ Core(T, C) /\ T[t].status = "OK" /\ ~T[t].body /\ T[t].ci \in Seq(CallInfo)
      /\ n \in Nat /\ n > b.depth /\ t \in Threads /\ Last(T[t].ci).func = "lua" /\ b.depth \in Nat
      /\ t \in ChainOf(C)
  BY LuaReady
<1>2. /\ Len(C) > 0 /\ b = C[Len(C)] /\ t = b.t /\ n = Len(T[t].ci)
  BY <1>1, Zenon DEF TopIs
<1>3. f \in CallInfo /\ f.func = "yield" /\ ~f.fresh /\ ~f.ypcall
  BY FrameFields
<1> HIDE DEF f
<1>4. /\ IsM(m1) /\ m1.cs = C /\ Others(T, m1.th, t) /\ m1.th[t].status = "YIELD"
      /\ m1.th[t].body = T[t].body /\ m1.th[t].ci = T[t].ci /\ m1.th[t].errfunc = T[t].errfunc
  BY <1>1, SetStatusFacts
<1> HIDE DEF m1
<1>5. /\ OnlyCI(m1, m2, t) /\ m2.th[t].ci = Append(m1.th[t].ci, f)
      /\ m2.th[t].errfunc = m1.th[t].errfunc
  BY <1>1, <1>3, <1>4, PushCIFacts
<1>6. /\ IsM(m2) /\ m2.cs = C /\ Others(T, T2, t) /\ T2[t].status = "YIELD" /\ ~T2[t].body
      /\ T2[t].ci = Append(T[t].ci, f) /\ T2[t].errfunc = T[t].errfunc
  BY <1>1, <1>4, <1>5 DEF OnlyCI, Others
<1> HIDE DEF m2
<1>7. IsTh(T2)
  BY <1>6, MachineParts
<1>8. t # MainThread /\ \A j \in 1 .. n : Continues(T[t].ci[j])
  BY YieldFacts
<1>9. /\ Len(T2[t].ci) = n + 1 /\ T2[t].ci[n + 1] = f
      /\ \A j \in 1 .. n : T2[t].ci[j] = T[t].ci[j]
  <2>1. /\ Len(T2[t].ci) = Len(T[t].ci) + 1 /\ T2[t].ci[Len(T[t].ci) + 1] = f
        /\ \A j \in 1 .. Len(T[t].ci) : T2[t].ci[j] = T[t].ci[j]
    BY SMTT(20), <1>1, <1>6
  <2> QED BY <1>2, <2>1, Zenon
<1>10. StatusOf(T2, C, t)
  <2>1. Suspended(T2[t])
    <3>1. (n + 1) - 1 = n /\ n + 1 > 0
      BY <1>1
    <3> QED BY <1>3, <1>8, <1>9, <3>1 DEF Suspended
  <2>2. t = Last(C).t
    BY SMTT(20), <1>2 DEF Last
  <2> QED BY <1>1, <1>6, <1>8, <2>1, <2>2, Zenon DEF StatusOf
<1>11. Core(T2, C)
  <2>1. /\ t = C[Len(C)].t /\ Runs(C[Len(C)]) /\ Len(T[t].ci) > C[Len(C)].depth
        /\ \A x \in Threads \ {t} : T2[x] = T[x]
        /\ T2[t].errfunc = (IF f.func = "pcall" THEN Len(T[t].ci) + 1 ELSE T[t].errfunc)
    BY <1>1, <1>2, <1>3, <1>6, Zenon DEF Others
  <2>2. T[t].status # "ERR" /\ Len(C) > 0
    BY <1>1, <1>2, Zenon
  <2> HIDE DEF T, C, T2
  <2> QED BY <1>1, <1>3, <1>6, <1>7, <1>10, <2>1, <2>2, CorePushFrame
<1>12. TopIs(m2, t, b, n + 1)
  BY <1>2, <1>6, <1>9, Zenon DEF TopIs
<1>13. OnTop(T2[t].ci, b, Acts(m2.cs, t), "YIELD")
  BY <1>1 DEF OnTop, Runs
<1>14. InvM(In(m2, "YIELD"))
  BY <1>6, <1>11, <1>12, <1>13, InvHolds
<1> QED BY <1>14 DEF m2, m1, f

\* xpcall, where a yield is allowed
PcallFrame(level, e) == [Frame("pcall", level) EXCEPT !.ypcall = TRUE, !.old_errfunc = e]
LEMMA PcallFrameFields ==
  ASSUME NEW level \in Nat, NEW e \in Nat
  PROVE  /\ PcallFrame(level, e) \in CallInfo /\ PcallFrame(level, e).func = "pcall"
         /\ ~PcallFrame(level, e).fresh /\ PcallFrame(level, e).ypcall
         /\ PcallFrame(level, e).old_errfunc = e
  BY DEF PcallFrame, Frame, CallInfo, None, CFunctions

LEMMA PcallPushed ==
  ASSUME NEW m, NEW t, NEW b, NEW n, LuaTop(m, t, b, n), NEW f \in CallInfo,
         f.func = "pcall", ~f.fresh,
         f.ypcall => /\ f.old_errfunc = m.th[t].errfunc
                     /\ \A a \in Acts(m.cs, t) : a.inc # "nyci"
  PROVE  /\ Called1(m, SetErr(PushCI(m, t, f), t, n + 1), t, b, n, f)
         /\ SetErr(PushCI(m, t, f), t, n + 1).th[t].ci = Append(m.th[t].ci, f)
<1> DEFINE m1 == PushCI(m, t, f)
           m2 == SetErr(m1, t, n + 1)
<1>1. IsM(m) /\ t \in Threads /\ n \in Nat
  BY LuaReady
<1>2. /\ OnlyCI(m, m1, t) /\ m1.th[t].ci = Append(m.th[t].ci, f)
  BY <1>1, PushCIFacts
<1> HIDE DEF m1
<1>3. IsM(m1)
  BY <1>2 DEF OnlyCI
<1>4. /\ OnlyCI(m1, m2, t) /\ m2.th[t].ci = m1.th[t].ci /\ m2.th[t].errfunc = n + 1
  BY <1>1, <1>3, SetErrFacts
<1> HIDE DEF m2
<1>5. /\ IsM(m2) /\ m2.cs = m.cs /\ m2.mode = m.mode /\ Others(m.th, m2.th, t)
      /\ m2.th[t].ci = Append(m.th[t].ci, f) /\ m2.th[t].status = m.th[t].status
      /\ m2.th[t].body = m.th[t].body /\ m2.th[t].nny = m.th[t].nny
      /\ m2.th[t].nCcalls = m.th[t].nCcalls
  BY SMTT(20), <1>2, <1>4 DEF OnlyCI, Others
<1>6. Called1(m, m2, t, b, n, f)
  BY <1>4, <1>5, FramePushed
<1> QED BY <1>5, <1>6 DEF m2, m1

LEMMA PcallkCalled ==
  ASSUME NEW m, NEW t, NEW b, NEW n, LuaTop(m, t, b, n), m.th[t].nny = 0, NEW level \in Nat
  PROVE  InvM(Ccall(SetErr(PushCI(m, t, PcallFrame(level, m.th[t].errfunc)), t, n + 1),
                    t, "yieldable", None))
<1> DEFINE f  == PcallFrame(level, m.th[t].errfunc)
           m2 == SetErr(PushCI(m, t, f), t, n + 1)
<1>1. m.th[t] \in LuaState
  BY LuaReady
<1>2. m.th[t].errfunc \in Nat
  BY <1>1 DEF LuaState
<1>3. /\ f \in CallInfo /\ f.func = "pcall" /\ ~f.fresh /\ f.ypcall
      /\ f.old_errfunc = m.th[t].errfunc
  BY <1>2, PcallFrameFields
<1> HIDE DEF f
<1>4. \A a \in Acts(m.cs, t) : a.inc # "nyci"
  BY YieldFacts
<1>5. Called1(m, m2, t, b, n, f)
  BY <1>3, <1>4, PcallPushed
<1> HIDE DEF m2
<1>6. /\ IsM(m2) /\ Core(m2.th, m2.cs) /\ Live(m2.th, m2.cs) /\ TopIs(m2, t, b, n + 1) /\ Runs(b)
      /\ m2.th[t].status = "OK" /\ n + 1 > b.depth /\ m2.th[t].ci[n + 1] = f
  BY <1>5 DEF Called1
<1>7. CallReady(m2.th, m2.cs, "yieldable")
  <2>1. Continues(m2.th[t].ci[n + 1])
    BY <1>3, <1>6 DEF Continues
  <2> QED BY <1>6, <2>1, RunsReady
<1>8. t = m2.cs[Len(m2.cs)].t
  BY <1>6 DEF TopIs
<1>9. InvM(Ccall(m2, t, "yieldable", None))
  BY <1>6, <1>7, <1>8, CcallBegins
<1> QED BY <1>9 DEF m2, f

\* ... and where it is not
PcallProt(m, t, e) == [Protect(m, t, "pcall") EXCEPT !.errfunc = e]
LEMMA PcallProtFields ==
  ASSUME NEW m, IsM(m), NEW t \in Threads, NEW e \in Nat
  PROVE  LET p == PcallProt(m, t, e)
         IN  /\ p \in Activation /\ p.k = "prot" /\ p.t = t /\ p.use = "pcall"
             /\ p.depth = Len(m.th[t].ci) /\ p.inc = "none" /\ p.nny = m.th[t].nny
             /\ p.nCcalls = m.th[t].nCcalls /\ p.errfunc = e
<1> DEFINE q == Protect(m, t, "pcall")
<1>1. /\ q \in Activation /\ q.k = "prot" /\ q.t = t /\ q.use = "pcall"
      /\ q.depth = Len(m.th[t].ci) /\ q.inc = "none" /\ q.nny = m.th[t].nny
      /\ q.nCcalls = m.th[t].nCcalls
  BY ProtectFacts
<1> HIDE DEF q
<1>2. [q EXCEPT !.errfunc = e] \in Activation
  BY <1>1 DEF Activation
<1> QED BY <1>1, <1>2 DEF PcallProt, q, Activation

LEMMA PcallBegins ==
  ASSUME NEW m, NEW t, NEW b, NEW n, LuaTop(m, t, b, n), NEW level \in Nat
  PROVE  LET m1 == PushCI(m, t, Frame("pcall", level))
         IN  Begins(PushC(SetErr(m1, t, n + 1), PcallProt(m1, t, m.th[t].errfunc)), t, "nyci")
<1> DEFINE f  == Frame("pcall", level)
           m1 == PushCI(m, t, f)
           e  == m.th[t].errfunc
           m2 == SetErr(m1, t, n + 1)
           p  == PcallProt(m1, t, e)
           m3 == PushC(m2, p)
           C  == m2.cs
           T  == m2.th
<1>1. /\ m.th[t] \in LuaState /\ IsM(m) /\ InvM(m) /\ TopIs(m, t, b, n) /\ t \in Threads /\ n \in Nat
      /\ m.th[t].ci \in Seq(CallInfo)
  BY LuaReady
<1>2. e \in Nat
  BY <1>1 DEF LuaState
<1>3. f \in CallInfo /\ f.func = "pcall" /\ ~f.fresh /\ ~f.ypcall
  BY FrameFields DEF CFunctions
<1> HIDE DEF f, e
<1>4. OnlyCI(m, m1, t) /\ m1.th[t].ci = Append(m.th[t].ci, f)
  BY <1>1, <1>3, PushCIFacts
<1>5. Called1(m, m2, t, b, n, f) /\ T[t].ci = Append(m.th[t].ci, f)
  BY <1>3, PcallPushed
<1> HIDE DEF m1, m2
<1>6. IsM(m1) /\ m1.th[t].nny = m.th[t].nny /\ m1.th[t].nCcalls = m.th[t].nCcalls
  BY <1>4 DEF OnlyCI
<1>7. /\ p \in Activation /\ p.k = "prot" /\ p.t = t /\ p.use = "pcall"
      /\ p.depth = Len(m1.th[t].ci) /\ p.inc = "none" /\ p.nny = m1.th[t].nny
      /\ p.nCcalls = m1.th[t].nCcalls /\ p.errfunc = e
  BY <1>1, <1>2, <1>6, PcallProtFields
<1> HIDE DEF p
<1>8. /\ IsM(m2) /\ Core(T, C) /\ Live(T, C) /\ TopIs(m2, t, b, n + 1) /\ Runs(b)
      /\ T[t].status = "OK" /\ n + 1 > b.depth /\ T[t].ci[n + 1] = f
      /\ T[t].nny = m.th[t].nny /\ T[t].nCcalls = m.th[t].nCcalls
  BY <1>5 DEF Called1
<1>9. /\ Len(C) > 0 /\ b = C[Len(C)] /\ t = b.t /\ n + 1 = Len(T[t].ci)
  BY <1>8 DEF TopIs
<1>10. p.depth = n + 1
  BY <1>4, <1>5, <1>7, <1>9, Zenon
<1>11. /\ C \in Seq(Activation) /\ Len(C) \in Nat /\ Len(C) \in 1 .. Len(C) /\ b.depth \in Nat
       /\ T[t].ci \in Seq(CallInfo)
  BY <1>8, MachineParts, TopFacts
<1>12. IsInner(T[t].ci, n, e)
  <2>1. IsInner(m.th[t].ci, n, e)
    BY <1>1, TopReady DEF e
  <2>2. Alike(m.th[t].ci, T[t].ci, n)
    <3>1. /\ \A j \in 1 .. Len(m.th[t].ci) : T[t].ci[j] = m.th[t].ci[j]
      BY <1>1, <1>3, <1>5
    <3>2. n = Len(m.th[t].ci)
      BY <1>1 DEF TopIs
    <3>3. \A j \in 1 .. n : T[t].ci[j] = m.th[t].ci[j]
      BY <3>1, <3>2
    <3>4. n <= Len(m.th[t].ci)
      BY <1>1, <3>2
    <3> HIDE DEF T
    <3>5. n <= Len(T[t].ci)
      BY <1>1, <1>9
    <3> QED BY <3>3, <3>4, <3>5 DEF Alike
  <2>3. n \in 0 .. n
    BY <1>1
  <2> HIDE DEF T
  <2> QED BY <1>1, <2>1, <2>2, <2>3, InnerAlike
<1>13. Linked(T[t].ci, p, b)
  <2>1. LinkedProt(T[t].ci, p, b)
    <3>1. p.depth \in 1 .. Len(T[t].ci) /\ p.depth - 1 = n
      BY <1>1, <1>9, <1>10
    <3>2. IsPcall(p)
      BY <1>7 DEF IsPcall
    <3>3. T[t].ci[p.depth].func = "pcall" /\ ~T[t].ci[p.depth].ypcall
      BY SMTT(20), <1>3, <1>8, <1>10
    <3> QED BY <1>7, <1>8, <1>12, <3>1, <3>2, <3>3 DEF LinkedProt
  <2> QED BY SMTT(20), <1>7, <2>1 DEF Linked, LinkedClose, LinkedCall, LinkedUnroll
<1>14. Core(T, Append(C, p)) /\ Live(T, Append(C, p))
  <2>1. /\ p.t = C[Len(C)].t /\ T[p.t].status = "OK" /\ ~Resumes(p)
        /\ C[Len(C)].depth <= p.depth /\ (C[Len(C)].k = "call" => C[Len(C)].depth < p.depth)
    BY SMTT(20), <1>1, <1>7, <1>8, <1>9, <1>10, <1>11 DEF Resumes
  <2>2. Linked(T[p.t].ci, p, C[Len(C)])
    BY SMTT(20), <1>7, <1>9, <1>13
  <2>3. CountedTo(T, C, Len(C)) /\ p.nny = T[p.t].nny /\ p.nCcalls = T[p.t].nCcalls
    BY <1>6, <1>7, <1>8, <1>9 DEF Live
  <2> HIDE DEF T, C
  <2> QED BY SMTT(20), <1>7, <1>8, <1>9, <2>1, <2>2, <2>3, ActBegins
<1>15. IsM(m3) /\ m3.th = T /\ m3.cs = Append(C, p)
  BY <1>7, <1>8, PushCFacts
<1>16. Len(m3.cs) > 0 /\ m3.cs[Len(m3.cs)] = p /\ p \in Acts(m3.cs, t)
  <2> DEFINE C3 == Append(C, p)
  <2>1. Len(C3) = Len(C) + 1 /\ C3[Len(C) + 1] = p
    <3> HIDE DEF C
    <3> QED BY <1>7, <1>11
  <2>2. Len(C) + 1 \in 1 .. Len(C) + 1 /\ Len(C) + 1 > 0
    BY <1>11
  <2> HIDE DEF C3
  <2>3. m3.cs = C3
    BY <1>15 DEF C3
  <2> HIDE DEF m3, C
  <2> QED BY <1>7, <2>1, <2>2, <2>3 DEF Acts
<1> HIDE DEF m3
<1>17. CallReady(m3.th, m3.cs, "nyci")
  <2> DEFINE q  == m3.cs[Len(m3.cs)]
             ci == m3.th[q.t].ci
             k  == Len(ci)
  <2>1. q = p /\ q.t = t /\ ci = T[t].ci /\ k = n + 1 /\ m3.th[q.t].status = "OK"
    BY <1>7, <1>8, <1>9, <1>15, <1>16
  <2>2. Owns(Acts(m3.cs, t), T[t].ci, n + 1)
    BY <1>3, <1>7, <1>8, <1>10, <1>16 DEF Owns, IsPcall
  <2> HIDE DEF q, ci, k
  <2>3. /\ q.k = "prot" /\ q.use = "pcall" /\ k = q.depth /\ ~Runs(q)
        /\ Owns(Acts(m3.cs, q.t), ci, k)
    BY <1>7, <1>10, <2>1, <2>2 DEF Runs
  <2>4. Len(m3.cs) > 0
    BY <1>16
  <2> QED BY SMTT(20), <2>1, <2>3, <2>4 DEF CallReady, q, ci, k
<1>18. t = m3.cs[Len(m3.cs)].t
  BY <1>7, <1>16
<1>19. Core(m3.th, m3.cs) /\ Live(m3.th, m3.cs)
  BY <1>14, <1>15
<1>20. Begins(m3, t, "nyci")
  BY <1>15, <1>17, <1>18, <1>19 DEF Begins
<1> QED BY <1>20 DEF m3, m2, m1, p, e, f

\* OP_CLOSE and OP_RETURN close variables
LEMMA OpCloses ==
  ASSUME NEW m, NEW t, NEW b, NEW n, LuaTop(m, t, b, n), NEW level \in Nat
  PROVE  InvM(Close(m, t, level, "OK", TRUE))
<1>1. /\ IsM(m) /\ TopIs(m, t, b, n) /\ Runs(b) /\ Core(m.th, m.cs) /\ Live(m.th, m.cs)
      /\ m.th[t].status = "OK" /\ n > b.depth /\ m.th[t].ci[n].func = "lua"
  BY LuaReady
<1>2. CloseReady(m.th[t].ci, b, n, TRUE)
  BY <1>1 DEF CloseReady
<1> QED BY <1>1, <1>2, CloseBegins

LEMMA LastTwo ==
  ASSUME NEW n \in Nat, n > 1
  PROVE  /\ n - 1 \in 1 .. n /\ n - 1 \in Nat
         /\ \A i \in 1 .. n : i = n \/ i = n - 1 \/ i \in 1 .. (n - 1) - 1
  OBVIOUS

\* nothing but a resumed coroutine's lua_resume is below its unroll
LEMMA UnrollAlone ==
  ASSUME NEW T, NEW C, Core(T, C), Len(C) > 0, C[Len(C)].k = "unroll", NEW t, t = C[Len(C)].t
  PROVE  /\ \A a \in Acts(C, t) : a.inc # "nyci" /\ ~IsPcall(a) /\ a.k # "call"
         /\ C[Len(C)].depth = 0 /\ Len(C) > 1 /\ Resumes(C[Len(C) - 1])
         /\ C[Len(C) - 1].t = t
<1> DEFINE k == Len(C) - 1
           b == C[Len(C)]
<1>1. C \in Seq(Activation) /\ Len(C) \in Nat /\ Stack(T, C) /\ Len(C) \in 1 .. Len(C)
  BY DEF Core, Types
<1>2. Good(T, C, Len(C))
  BY <1>1 DEF Stack
<1>3. ~First(C, Len(C))
  BY <1>2 DEF Good, BlockStarts
<1>10. Len(C) # 1 /\ C[k].t = t
  BY <1>3 DEF First
<1>4. /\ k \in 1 .. Len(C) /\ k \in Nat /\ C[k].t = t /\ Len(C) > 1
      /\ \A i \in 1 .. Len(C) : i = Len(C) \/ i = k \/ i \in 1 .. k - 1
  <2>1. Len(C) > 1
    <3> DEFINE x == Len(C)
    <3>1. x \in Nat /\ x \in 1 .. x /\ x # 1
      BY <1>1, <1>10
    <3> HIDE DEF x
    <3>2. x > 1
      BY <3>1
    <3> QED BY <3>2 DEF x
  <2> HIDE DEF b
  <2> QED BY <1>1, <1>10, <2>1, LastTwo
<1>5. Resumes(C[k]) /\ b.depth = 0
  BY <1>2, <1>3 DEF Good, Linked, LinkedUnroll
<1> HIDE DEF k
<1>6. First(C, k)
  BY <1>1, <1>4, <1>5, ResumeFirst
<1>7. \A e \in 1 .. k - 1 : C[e].t # C[k].t
  BY <1>1, <1>4, <1>6, FirstIsProt
<1>8. C[k].inc = "none" /\ b.inc = "none"
  <2>1. Good(T, C, k)
    BY <1>1, <1>4 DEF Stack
  <2> QED BY <1>2, <1>5, <2>1 DEF Good, Resumes
<1>9. ASSUME NEW a \in Acts(C, t)
      PROVE  a.inc # "nyci" /\ ~IsPcall(a) /\ a.k # "call"
  <2>1. PICK i \in 1 .. Len(C) : a = C[i] /\ C[i].t = t
    BY <1>9 DEF Acts
  <2>2. i = Len(C) \/ i = k
    BY <1>4, <1>7, <2>1
  <2> QED BY <1>5, <1>8, <2>1, <2>2 DEF Resumes, IsPcall
<1> QED BY <1>4, <1>5, <1>9 DEF k, b

\* a Lua function returns
LEMMA LuaReturns ==
  ASSUME NEW m, NEW t, NEW b, NEW n, LuaTop(m, t, b, n)
  PROVE  InvM(In(PopCI(m, t), IF Last(m.th[t].ci).fresh THEN "return" ELSE "run"))
<1> DEFINE T  == m.th
           C  == m.cs
           m2 == PopCI(m, t)
           T2 == m2.th
           ci == T[t].ci
           c2 == T2[t].ci
<1>1. /\ IsM(m) /\ InvM(m) /\ TopIs(m, t, b, n) /\ Runs(b) /\ Core(T, C) /\ Live(T, C)
      /\ T[t].status = "OK" /\ ~T[t].body /\ n \in Nat /\ n > 0 /\ n > b.depth /\ t \in Threads
      /\ t \in ChainOf(C) /\ ci[n].func = "lua" /\ ci \in Seq(CallInfo) /\ b.depth \in Nat
      /\ C \in Seq(Activation)
  BY LuaReady
<1>2. /\ Len(C) > 0 /\ b = C[Len(C)] /\ t = b.t /\ n = Len(ci)
  BY <1>1, Zenon DEF TopIs
<1>15. /\ n \in 1 .. Len(ci) /\ n - 1 <= Len(ci) /\ n - 1 \in Nat /\ n - 1 \in 0 .. n - 1
       /\ b.depth + 1 \in 1 .. Len(ci) /\ b.depth + 1 > b.depth
       /\ n - 1 > 0 => /\ n - 1 \in 1 .. Len(ci) /\ n - 1 # Len(ci) /\ n - 1 \in 1 .. n - 1
  <2>1. Len(ci) = n /\ n \in Nat /\ n > 0 /\ n > b.depth /\ b.depth \in Nat
    BY <1>1, <1>2, Zenon
  <2> HIDE DEF ci
  <2> QED BY <2>1
<1>16. /\ C[Len(C)].t = t /\ C[Len(C)].depth = b.depth /\ Len(C) \in Nat /\ Len(C) > 0
  <2>1. Len(C) \in Nat
    BY <1>1, TopFacts
  <2> QED BY <1>2, <2>1
<1>3. OnlyCI(m, m2, t) /\ c2 = Front(ci) /\ T2[t].errfunc = T[t].errfunc
  BY <1>1, <1>2, PopCIFacts, Zenon
<1> HIDE DEF m2
<1>4. IsM(m2) /\ IsTh(T2) /\ m2.cs = C /\ Others(T, T2, t) /\ T2[t].status = "OK" /\ ~T2[t].body
  BY <1>1, <1>3, MachineParts DEF OnlyCI
<1>5. /\ c2 \in Seq(CallInfo) /\ Len(c2) = n - 1 /\ \A j \in 1 .. n - 1 : c2[j] = ci[j]
  <2>1. /\ Front(ci) \in Seq(CallInfo) /\ Len(Front(ci)) = Len(ci) - 1
        /\ \A j \in 1 .. Len(ci) - 1 : Front(ci)[j] = ci[j]
    <3>1. Len(ci) > 0
      BY <1>1, <1>2, Zenon
    <3> HIDE DEF ci
    <3> QED BY <1>1, <3>1, FrontFacts
  <2> QED BY <1>2, <1>3, <2>1, Zenon
<1>6. /\ FramesOK(ci, Acts(C, t)) /\ IsInner(ci, n, T[t].errfunc) /\ b \in Acts(C, t)
      /\ StatusOf(T, C, t)
  BY <1>1, TopReady
<1>7. Alike(ci, c2, n - 1)
  <2> HIDE DEF ci, c2
  <2> QED BY <1>1, <1>5, <1>15 DEF Alike
<1>8. IsInner(c2, n - 1, T2[t].errfunc)
  <2>1. IsInner(ci, n - 1, T[t].errfunc)
    BY <1>1, <1>6, NotInner
  <2> HIDE DEF ci, c2
  <2> QED BY <1>3, <1>7, <1>15, <2>1, InnerAlike
<1>9. Core(T2, C)
  <2>1. StatusOf(T2, C, t)
    BY <1>1, <1>4 DEF StatusOf
  <2>2. /\ \A x \in Threads \ {t} : T2[x] = T[x]
        /\ \A i \in Len(C) + 1 .. Len(C) : C[i].t = t /\ C[i].depth >= Len(T2[t].ci)
        /\ t = C[Len(C)].t
    <3> HIDE DEF C
    <3> QED BY <1>4, <1>16 DEF Others
  <2>3. Alike(T[t].ci, T2[t].ci, Len(T2[t].ci)) /\ IsInner(T2[t].ci, Len(T2[t].ci), T2[t].errfunc)
    BY <1>5, <1>7, <1>8
  <2>4. C[Len(C)].depth <= Len(T2[t].ci)
    <3>1. b.depth <= n - 1
      BY <1>1
    <3> HIDE DEF C, T2
    <3> QED BY <1>5, <1>16, <3>1
  <2>5. T[t].status # "ERR"
    BY <1>1
  <2> HIDE DEF T, T2, C, ci, c2
  <2> QED BY <1>1, <1>4, <2>1, <2>2, <2>3, <2>4, <2>5, CoreShrink
<1>10. Live(T2, C)
  BY <1>1, <1>2, <1>3, Zenon DEF Live, CountedTo, OnlyCI
<1>11. TopIs(m2, t, b, n - 1)
  BY <1>2, <1>4, <1>5, Zenon DEF TopIs
<1>12. b.k = "unroll" => /\ \A a \in Acts(C, t) : a.inc # "nyci" /\ ~IsPcall(a)
                         /\ b.depth = 0
  <2>1. t = C[Len(C)].t
    BY <1>2
  <2> HIDE DEF C, T
  <2> QED BY <1>1, <1>2, <2>1, UnrollAlone
<1>13. CASE Last(ci).fresh
  <2>1. ci[n].fresh
    BY <1>2, <1>13, Zenon DEF Last
  <2>2. b.k = "call" => n - 1 = b.depth
    <3> SUFFICES ASSUME b.k = "call"
                 PROVE  n - 1 = b.depth
      OBVIOUS
    <3>1. PICK e \in Acts(C, t) : e.k = "call" /\ e.depth = n - 1
      <4> HIDE DEF ci
      <4> QED BY <1>1, <1>6, <1>15, <2>1 DEF FramesOK, FreshOnes
    <3>2. e.depth <= b.depth
      <4>1. PICK i \in 1 .. Len(C) : e = C[i] /\ C[i].t = t
        BY DEF Acts
      <4>2. CASE i = Len(C)
        <5>1. e.depth = b.depth
          BY <1>16, <4>1, <4>2
        <5> QED BY <1>1, <5>1
      <4>3. CASE i # Len(C)
        <5>1. Deeper(C, Len(C))
          BY <1>1, TopReady DEF Good
        <5>2. i \in 1 .. Len(C) - 1 /\ C[i].t = C[Len(C)].t /\ ~Resumes(C[i])
          <6>1. ~Resumes(C[i]) /\ C[i].t = C[Len(C)].t
            BY <1>2, <3>1, <4>1 DEF Resumes
          <6> QED BY <1>1, <4>1, <4>3, <6>1
        <5> QED BY <1>2, <4>1, <5>1, <5>2 DEF Deeper
      <4> QED BY <4>2, <4>3
    <3> QED BY <1>1, <3>1, <3>2
  <2>3. b.k = "unroll" /\ n - 1 > 0 => Continues(c2[n - 1])
    <3> SUFFICES ASSUME b.k = "unroll", n - 1 > 0
                 PROVE  Continues(c2[n - 1])
      OBVIOUS
    <3>1. ~Owns(Acts(C, t), ci, n - 1)
      BY <1>12 DEF Owns
    <3> QED BY <1>5, <1>6, <1>15, <3>1 DEF FramesOK, Owned
  <2>4. OnTop(c2, b, Acts(m2.cs, t), "return")
    <3> HIDE DEF c2
    <3> QED BY <1>1, <1>5, <2>2, <2>3 DEF OnTop, Runs
  <2>5. InvM(In(m2, "return"))
    BY <1>4, <1>9, <1>10, <1>11, <2>4, InvHolds
  <2> QED BY <1>13, <2>5 DEF m2
<1>14. CASE ~Last(ci).fresh
  <2>1. ~ci[n].fresh
    BY <1>2, <1>14, Zenon DEF Last
  <2>2. n > 1 /\ ci[n - 1].func = "lua"
    BY <1>6, <1>15, <2>1 DEF FramesOK, LuaBelow
  <2>3. n - 1 > b.depth
    <3>1. CASE b.k = "call"
      <4>2. ci[b.depth + 1].fresh
        BY <1>6, <1>15, <3>1 DEF FramesOK, FreshOnes
      <4>3. n # b.depth + 1
        BY <2>1, <4>2, Zenon
      <4>4. n \in Nat /\ n > b.depth /\ b.depth \in Nat
        BY <1>1, Zenon
      <4> QED BY <4>3, <4>4
    <3>2. CASE b.k = "unroll"
      BY <1>1, <1>12, <2>2, <3>2
    <3> QED BY <1>1, <3>1, <3>2 DEF Runs
  <2>4. c2[n - 1].func = "lua"
    BY SMTT(20), <1>1, <1>5, <2>2
  <2>5. OnTop(c2, b, Acts(m2.cs, t), "run")
    <3> HIDE DEF c2
    <3> QED BY <1>1, <1>5, <2>3, <2>4 DEF OnTop, Runs
  <2>6. InvM(In(m2, "run"))
    BY <1>4, <1>9, <1>10, <1>11, <2>5, InvHolds
  <2> QED BY <1>14, <2>6 DEF m2
<1> QED BY <1>13, <1>14

\* a thread that neither runs nor waits changes
LEMMA OtherChanges ==
  ASSUME NEW m, NEW t, NEW b, NEW n, LuaTop(m, t, b, n), NEW u \in Threads, u \notin ChainOf(m.cs),
         NEW m2, IsM(m2), m2.cs = m.cs, m2.mode = m.mode, Others(m.th, m2.th, u),
         Core(m2.th, m2.cs)
  PROVE  InvM(m2)
<1>1. /\ IsM(m) /\ InvM(m) /\ TopIs(m, t, b, n) /\ Live(m.th, m.cs) /\ t \in Threads
      /\ t \in ChainOf(m.cs) /\ m.mode = "run" /\ m.th[t].status = "OK"
  BY LuaReady
<1>2. m2.th[t] = m.th[t]
  BY <1>1 DEF Others
<1>3. TopIs(m2, t, b, n)
  BY <1>1, <1>2 DEF TopIs
<1>4. Live(m2.th, m2.cs)
  <2>1. m.cs[Len(m.cs)].t = t
    BY <1>1 DEF TopIs
  <2> QED BY <1>1, <1>2, <2>1 DEF Live, CountedTo
<1>5. OnTop(m2.th[t].ci, b, Acts(m2.cs, t), "run")
  <2>1. OnTop(m.th[t].ci, b, Acts(m.cs, t), "run")
    BY <1>1, TopReady
  <2> QED BY <1>2, <2>1
<1>6. Inv(m2.th, m2.cs, "run")
  BY <1>1, <1>2, <1>3, <1>4, <1>5, InvHolds
<1> QED BY <1>1, <1>6 DEF InvM

LEMMA NewThreadFields ==
  /\ NewThread \in LuaState /\ NewThread.ci = <<>> /\ NewThread.errfunc = 0
  /\ NewThread.status = "OK" /\ ~NewThread.body /\ NewThread.nny = 0 /\ NewThread.nCcalls = 0
<1>1. <<>> \in Seq(CallInfo) /\ <<>> \in Seq(Variables)
  OBVIOUS
<1> QED BY <1>1 DEF NewThread, LuaState

\* coroutine.create
LEMMA Created ==
  ASSUME NEW m, NEW t, NEW b, NEW n, LuaTop(m, t, b, n), NEW u \in Threads,
         u \notin ChainOf(m.cs), u # MainThread
  PROVE  InvM(SetT(m, u, [NewThread EXCEPT !.body = TRUE]))
<1> DEFINE s  == [NewThread EXCEPT !.body = TRUE]
           m2 == SetT(m, u, s)
<1>1. /\ s \in LuaState /\ s.ci = <<>> /\ s.errfunc = 0 /\ s.status = "OK"
  <2>1. /\ NewThread \in LuaState /\ NewThread.ci = <<>> /\ NewThread.errfunc = 0
        /\ NewThread.status = "OK"
    BY NewThreadFields
  <2> QED BY <2>1 DEF LuaState
<1> HIDE DEF s
<1>2. IsM(m) /\ Core(m.th, m.cs)
  BY LuaReady
<1>3. /\ IsM(m2) /\ m2.cs = m.cs /\ m2.mode = m.mode /\ m2.th[u] = s /\ Others(m.th, m2.th, u)
  BY <1>1, <1>2, SetTFacts
<1> HIDE DEF m2
<1>4. IsTh(m2.th)
  BY <1>3, MachineParts
<1>5. Core(m2.th, m.cs)
  BY <1>1, <1>2, <1>3, <1>4, CoreEmpty
<1>6. InvM(m2)
  BY <1>3, <1>5, OtherChanges
<1> QED BY <1>6 DEF m2, s

ResumeFrom(m1, t) ==
  LET m2 == PushC(m1, Protect(m1, t, "resume"))
  IN  IF th[t].status = "OK"
      THEN Ccall([m2 EXCEPT !.th[t].body = FALSE], t, "none", None)
      ELSE In(PushC(PopCI([m2 EXCEPT !.th[t].status = "OK"], t), Blank(t)), "return")
LEMMA ResumeIs ==
  ASSUME NEW m, IsM(m), NEW t \in Threads, NEW c \in Nat
  PROVE  ResumeThread(m, t, c) =
           IF th[t].status = "OK"
           THEN Ccall(SetBody(ResumeProt(m, t, c), t), t, "none", None)
           ELSE In(PushC(PopCI(SetStatus(ResumeProt(m, t, c), t, "OK"), t), Blank(t)), "return")
<1>1. [m EXCEPT !.th[t].nCcalls = c + 1, !.th[t].nny = 0] = ResumeCalls(m, t, c)
  BY DEF ResumeCalls, SetCounters, SetT, IsM
<1>2. ResumeThread(m, t, c) = ResumeFrom([m EXCEPT !.th[t].nCcalls = c + 1, !.th[t].nny = 0], t)
  BY DEF ResumeThread, ResumeFrom
<1>3. ResumeThread(m, t, c) = ResumeFrom(ResumeCalls(m, t, c), t)
  BY <1>1, <1>2
<1>4. ResumeFrom(ResumeCalls(m, t, c), t) =
        IF th[t].status = "OK"
        THEN Ccall(SetBody(ResumeProt(m, t, c), t), t, "none", None)
        ELSE In(PushC(PopCI(SetStatus(ResumeProt(m, t, c), t, "OK"), t), Blank(t)), "return")
  BY DEF ResumeFrom, ResumeProt, SetBody, SetStatus
<1> QED BY <1>3, <1>4

LEMMA ThreadResumed ==
  ASSUME NEW m, IsM(m), Core(m.th, m.cs), Live(m.th, m.cs), Caller(m),
         NEW t \in Threads, t \notin ChainOf(m.cs), t # MainThread,
         m.th[t].status = "YIELD" \/ m.th[t].body, th[t].status = m.th[t].status,
         NEW c \in Nat, c = Cnt(m.cs, Len(m.cs))
  PROVE  InvM(ResumeThread(m, t, c))
<1>1. m.th[t].body => m.th[t].status = "OK"
  BY DEF Core, States, StatusOf
<1>2. CASE m.th[t].status = "YIELD"
  <2>1. ResumeThread(m, t, c)
          = In(PushC(PopCI(SetStatus(ResumeProt(m, t, c), t, "OK"), t), Blank(t)), "return")
    BY <1>2, ResumeIs
  <2> QED BY <1>2, <2>1, ResumeAgain
<1>3. CASE m.th[t].body
  <2>1. ResumeThread(m, t, c) = Ccall(SetBody(ResumeProt(m, t, c), t), t, "none", None)
    BY <1>1, <1>3, ResumeIs
  <2>2. Begins(SetBody(ResumeProt(m, t, c), t), t, "none")
    BY <1>3, ResumeNew
  <2>3. InvM(Ccall(SetBody(ResumeProt(m, t, c), t), t, "none", None))
    BY <2>2, BegunCall
  <2> QED BY <2>1, <2>3
<1> QED BY <1>2, <1>3

\* coroutine.resume and coroutine.wrap
LEMMA ResumeCalled ==
  ASSUME NEW m, NEW t, NEW b, NEW n, LuaTop(m, t, b, n), NEW func \in {"resume", "wrap"},
         NEW level \in Nat, NEW u \in Threads, u \notin ChainOf(m.cs), u # MainThread,
         m.th[u].status = "YIELD" \/ m.th[u].body, th[u].status = m.th[u].status
  PROVE  InvM(ResumeThread(PushCI(m, t, Frame(func, level)), u, m.th[t].nCcalls))
<1> DEFINE f  == Frame(func, level)
           m2 == PushCI(m, t, f)
           c  == m.th[t].nCcalls
<1>1. f.func = func
  BY FrameFields DEF CFunctions
<1>2. Called1(m, m2, t, b, n, f)
  BY CPushed DEF CFunctions
<1> HIDE DEF f, m2
<1>3. /\ m.th[t] \in LuaState /\ t \in ChainOf(m.cs) /\ Live(m.th, m.cs) /\ TopIs(m, t, b, n)
  BY LuaReady
<1>4. /\ IsM(m2) /\ m2.cs = m.cs /\ Core(m2.th, m2.cs) /\ Live(m2.th, m2.cs)
      /\ TopIs(m2, t, b, n + 1) /\ Runs(b) /\ n + 1 > b.depth /\ m2.th[t].status = "OK"
      /\ Last(m2.th[t].ci) = f /\ m2.th[u] = m.th[u]
  BY <1>2, <1>3 DEF Called1, Others
<1>5. Caller(m2)
  BY <1>1, <1>4 DEF Caller
<1>6. c \in Nat
  BY <1>3 DEF LuaState
<1>7. c = Cnt(m2.cs, Len(m2.cs))
  <2>1. m.cs[Len(m.cs)].t = t /\ Len(m.cs) > 0
    BY <1>3 DEF TopIs
  <2> QED BY <1>3, <1>4, <2>1 DEF Live, CountedTo
<1> HIDE DEF c
<1>8. InvM(ResumeThread(m2, u, c))
  BY <1>4, <1>5, <1>6, <1>7, ThreadResumed
<1> QED BY <1>8 DEF m2, c, f

\* a thread that waits is calling
LEMMA WaitingCalls ==
  ASSUME NEW T, NEW C, Core(T, C), NEW u, u \in ChainOf(C), u # C[Len(C)].t
  PROVE  Len(T[u].ci) > 0
<1> DEFINE N == Len(C)
           I == {i \in 1 .. N : C[i].t = u}
<1>1. C \in Seq(Activation) /\ N \in Nat
  BY DEF Core, Types
<1>2. I \in SUBSET (1 .. N) /\ I # {}
  BY DEF ChainOf
<1>3. PICK i \in I : \A j \in I : j <= i
  <2> HIDE DEF I, N
  <2> QED BY <1>1, <1>2, LastPosition
<1>4. i \in 1 .. N /\ C[i].t = u /\ i # N
  BY <1>2
<1>5. i \in Nat /\ i + 1 \in 1 .. N /\ (i + 1) - 1 = i /\ i + 1 > 1
  <2> HIDE DEF N
  <2> QED BY <1>1, <1>4
<1>6. i + 1 \notin I
  <2> HIDE DEF I
  <2> QED BY <1>3, <1>5
<1>7. First(C, i + 1)
  BY <1>4, <1>5, <1>6 DEF First
<1>8. BlockStarts(T, C, i + 1)
  BY <1>5, <1>7 DEF Core, Stack, Good
<1>9. Len(T[u].ci) > C[i].depth
  BY <1>4, <1>5, <1>8 DEF BlockStarts
<1>10. C[i].depth \in Nat /\ u \in Threads
  BY <1>1, <1>4, ActivationsFields
<1>11. Len(T[u].ci) \in Nat
  BY <1>10, ThreadFields DEF Core, Types
<1> QED BY <1>9, <1>10, <1>11

\* coroutine.close
LEMMA CloseCalled ==
  ASSUME NEW m, NEW t, NEW b, NEW n, LuaTop(m, t, b, n),
         NEW level \in Nat, NEW u \in Threads, u \notin ChainOf(m.cs), u # MainThread
  PROVE  InvM(ResetThread(PushCI(m, t, Frame("close", level)), u, t, "close"))
<1> DEFINE f  == Frame("close", level)
           m2 == PushCI(m, t, f)
<1>1. f.func = "close"
  BY FrameFields DEF CFunctions
<1>2. Called1(m, m2, t, b, n, f)
  BY CPushed DEF CFunctions
<1> HIDE DEF f, m2
<1>3. /\ IsM(m2) /\ m2.cs = m.cs /\ Core(m2.th, m2.cs) /\ Live(m2.th, m2.cs)
      /\ TopIs(m2, t, b, n + 1) /\ Runs(b) /\ n + 1 > b.depth /\ m2.th[t].status = "OK"
      /\ Last(m2.th[t].ci).func = "close"
  BY <1>1, <1>2 DEF Called1
<1>4. InvM(ResetThread(m2, u, t, "close"))
  BY SMTT(20), <1>3, ResetBegins
<1> QED BY <1>4 DEF m2, f

-----------------------------------------------------------------------------
(* What goes on by itself keeps it too *)

\* xpcall called luaD_pcall
LEMMA ProtCall ==
  ASSUME NEW T, NEW C, Core(T, C), NEW i \in 1 .. Len(C), C[i].k = "prot", ~Resumes(C[i]),
         C[i].depth > 0 \/ ~First(C, i)
  PROVE  /\ i > 1 /\ C[i - 1].t = C[i].t /\ IsPcall(C[i]) /\ Runs(C[i - 1])
         /\ C[i].depth \in 1 .. Len(T[C[i].t].ci)
         /\ T[C[i].t].ci[C[i].depth].func = "pcall"
         /\ IsInner(T[C[i].t].ci, C[i].depth - 1, C[i].errfunc)
<1>1. Good(T, C, i) /\ C \in Seq(Activation) /\ Len(C) \in Nat
  BY DEF Core, Stack, Types
<1>2. C[i].depth \in Nat
  BY <1>1, ActivationsFields
<1>3. ~First(C, i)
  BY <1>1, <1>2 DEF Good, BlockStarts, Resumes
<1>4. Linked(T[C[i].t].ci, C[i], C[i - 1])
  BY <1>1, <1>3 DEF Good
<1>5. i # 1 /\ C[i - 1].t = C[i].t
  BY <1>3 DEF First
<1> QED BY <1>1, <1>4, <1>5 DEF Linked, LinkedProt

\* the activation that called the topmost one, in the same thread
BelowIs(m, t, b, b2) ==
  Len(m.cs) > 1 /\ b2 = m.cs[Len(m.cs) - 1] /\ b2.t = t
LEMMA BelowFacts ==
  ASSUME NEW m, IsM(m), Core(m.th, m.cs), NEW t, NEW b, NEW n, TopIs(m, t, b, n),
         ~First(m.cs, Len(m.cs))
  PROVE  /\ BelowIs(m, t, b, m.cs[Len(m.cs) - 1])
         /\ Linked(m.th[t].ci, b, m.cs[Len(m.cs) - 1])
         /\ \A b2 : BelowIs(m, t, b, b2) =>
              /\ b2 \in Activation /\ b2 \in Acts(m.cs, t) /\ Linked(m.th[t].ci, b, b2)
              /\ ~Resumes(b2) => /\ b2.depth <= b.depth
                                 /\ b2.k = "call" => b2.depth < b.depth
<1> DEFINE C == m.cs
           k == Len(C) - 1
<1>1. Len(C) \in Nat /\ Len(C) \in 1 .. Len(C) /\ C \in Seq(Activation)
  BY TopFacts, MachineParts
<1>2. Len(C) > 0 /\ b = C[Len(C)] /\ t = b.t
  BY DEF TopIs
<1>3. Len(C) # 1 /\ C[k].t = t
  BY <1>2 DEF First
<1>4. Len(C) > 1
  <2> DEFINE x == Len(C)
  <2>1. x \in Nat /\ x \in 1 .. x /\ x # 1
    BY <1>1, <1>3
  <2> HIDE DEF x
  <2>2. x > 1
    BY <2>1
  <2> QED BY <2>2 DEF x
<1>5. BelowIs(m, t, b, C[k])
  BY <1>3, <1>4 DEF BelowIs
<1>6. Good(m.th, C, Len(C))
  BY <1>1 DEF Core, Stack
<1>7. Linked(m.th[t].ci, b, C[k])
  BY <1>2, <1>6 DEF Good
<1>8. k \in 1 .. Len(C) /\ k \in 1 .. Len(C) - 1
  <2> HIDE DEF C
  <2> QED BY <1>1, <1>4
<1>9. C[k] \in Activation /\ C[k] \in Acts(C, t)
  BY <1>1, <1>3, <1>8 DEF Acts
<1>10. ~Resumes(C[k]) => C[k].depth <= b.depth /\ (C[k].k = "call" => C[k].depth < b.depth)
  BY <1>2, <1>3, <1>6, <1>8 DEF Good, Deeper
<1>11. \A b2 : BelowIs(m, t, b, b2) => b2 = C[k]
  BY DEF BelowIs
<1> QED BY <1>5, <1>7, <1>9, <1>10, <1>11

\* luaF_close calls a __close method
LEMMA CloseBegun ==
  ASSUME NEW m, IsM(m), InvM(m), m.mode = "run", NEW t, NEW b, NEW n, TopIs(m, t, b, n),
         b.k = "close", NEW tbc \in Seq(Variables)
  PROVE  Begins(SetT(m, t, [m.th[t] EXCEPT !.tbclist = tbc]), t,
                IF b.yy THEN "yieldable" ELSE "nyci")
<1> DEFINE T   == m.th
           C   == m.cs
           s   == [T[t] EXCEPT !.tbclist = tbc]
           m2  == SetT(m, t, s)
           T2  == m2.th
           inc == IF b.yy THEN "yieldable" ELSE "nyci"
           ci  == T[t].ci
<1>1. /\ Core(T, C) /\ OnTop(ci, b, Acts(C, t), "run") /\ Live(T, C) /\ T[t].status = "OK"
      /\ FramesOK(ci, Acts(C, t))
  BY TopReady
<1>2. /\ b \in Activation /\ b.depth \in Nat /\ t \in Threads /\ n \in Nat /\ ci \in Seq(CallInfo)
      /\ t \in ChainOf(C) /\ Len(C) \in Nat /\ Len(C) \in 1 .. Len(C)
  BY TopFacts
<1>3. /\ Len(C) > 0 /\ b = C[Len(C)] /\ t = b.t /\ n = Len(ci)
  BY DEF TopIs
<1>4. n = b.depth
  BY <1>1, <1>3, Zenon DEF OnTop
<1>5. T[t] \in LuaState /\ C \in Seq(Activation) /\ b.yy \in BOOLEAN
  BY <1>2, MachineParts, ActivationFields DEF IsTh
<1>6. /\ s \in LuaState /\ s.ci = ci /\ s.status = T[t].status /\ s.body = T[t].body
      /\ s.errfunc = T[t].errfunc /\ s.nny = T[t].nny /\ s.nCcalls = T[t].nCcalls
  BY <1>5 DEF LuaState
<1> HIDE DEF s
<1>7. IsM(m2) /\ m2.cs = C /\ T2[t] = s /\ Others(T, T2, t)
  BY <1>2, <1>6, SetTFacts
<1> HIDE DEF m2
<1>8. IsTh(T2)
  BY <1>7, MachineParts
<1>9. Core(T2, C)
  <2>1. /\ t = C[Len(C)].t /\ C[Len(C)].depth <= Len(T[t].ci)
        /\ \A x \in Threads \ {t} : T2[x] = T[x]
        /\ Len(T2[t].ci) = Len(T[t].ci)
        /\ T2[t].status = T[t].status /\ T2[t].body = T[t].body /\ T2[t].errfunc = T[t].errfunc
        /\ T2[t].nny = T[t].nny /\ T2[t].nCcalls = T[t].nCcalls
    <3>1. b.depth <= n
      BY <1>2, <1>4
    <3> QED BY <1>3, <1>6, <1>7, <3>1, Zenon DEF Others
  <2>2. Alike(T[t].ci, T2[t].ci, Len(T[t].ci))
    <3>1. T2[t].ci = T[t].ci /\ Len(T[t].ci) <= Len(T[t].ci)
      BY <1>2, <1>6, <1>7
    <3> QED BY <3>1 DEF Alike
  <2> HIDE DEF T, T2, C, ci
  <2> QED BY <1>1, <1>2, <1>8, <2>1, <2>2, CoreQuiet
<1>10. Live(T2, C)
  BY <1>1, <1>3, <1>6, <1>7, Zenon DEF Live, CountedTo
<1>11. ~First(C, Len(C))
  <2>1. Good(T, C, Len(C))
    BY <1>1, <1>2 DEF Core, Stack
  <2> QED BY <1>3, <2>1, Zenon DEF Good, BlockStarts
<1>12. n > 0 => Continues(ci[n]) \/ Owns(Acts(C, t), ci, n)
  <2> SUFFICES ASSUME n > 0
               PROVE  Continues(ci[n]) \/ Owns(Acts(C, t), ci, n)
    OBVIOUS
  <2>1. PICK b2 : BelowIs(m, t, b, b2)
    BY <1>1, <1>11, BelowFacts
  <2>2. /\ b2 \in Acts(C, t) /\ LinkedClose(ci, b, b2)
    BY <1>1, <1>11, <2>1, BelowFacts DEF Linked
  <2>3. CASE b.yy
    <3>1. ci[b.depth].func = "lua" \/ (ci[b.depth].func = "pcall" /\ ci[b.depth].ypcall)
      BY <2>2, <2>3 DEF LinkedClose
    <3> QED BY <1>4, <3>1 DEF Continues
  <2>4. CASE ~b.yy
    <3>1. b2.k = "prot" /\ b2.use = "closep" /\ b.depth = b2.depth
      BY <2>2, <2>4 DEF LinkedClose
    <3>2. PICK i \in 1 .. Len(C) : b2 = C[i] /\ C[i].t = t
      BY <2>2 DEF Acts
    <3>3. C[i].k = "prot" /\ ~Resumes(C[i]) /\ C[i].depth > 0 /\ C[i].depth = n
      BY <1>4, <3>1, <3>2 DEF Resumes
    <3>4. IsPcall(C[i]) /\ ci[C[i].depth].func = "pcall"
      <4>1. IsPcall(C[i]) /\ T[C[i].t].ci[C[i].depth].func = "pcall"
        <5> HIDE DEF C, T
        <5> QED BY <1>1, <3>3, ProtCall
      <4> QED BY <3>2, <4>1
    <3> QED BY <2>2, <3>2, <3>3, <3>4 DEF Owns
  <2> QED BY <2>3, <2>4
<1>13. CallReady(T2, C, inc)
  <2> DEFINE q  == C[Len(C)]
             c2 == T2[q.t].ci
             k  == Len(c2)
  <2>1. q = b /\ q.t = t /\ c2 = ci /\ k = n /\ T2[q.t].status = "OK" /\ Len(C) > 0
    BY <1>1, <1>3, <1>6, <1>7, Zenon
  <2> HIDE DEF q, c2, k, C
  <2>2. /\ q.k = "close" /\ ~Runs(q) /\ k = q.depth
        /\ inc = (IF q.yy THEN "yieldable" ELSE "nyci")
        /\ k > 0 => Continues(c2[k]) \/ Owns(Acts(C, q.t), c2, k)
    BY <1>4, <1>12, <2>1 DEF Runs
  <2> QED BY <2>1, <2>2 DEF CallReady, q, c2, k
<1>14. inc \in {"none", "yieldable", "nyci"} /\ t = m2.cs[Len(m2.cs)].t
  BY <1>3, <1>7
<1> HIDE DEF inc
<1>15. Begins(m2, t, inc)
  BY <1>7, <1>9, <1>10, <1>13, <1>14 DEF Begins
<1> QED BY <1>15 DEF m2, s, inc

=============================================================================
