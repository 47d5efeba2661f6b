--------------------------- MODULE LuaGC_refines ---------------------------
(***************************************************************************)
(* LuaGC implements Heap: each step of the collector and of the program,   *)
(* whichever way they interleave, is a step that Heap allows or changes    *)
(* nothing that Heap sees.                                                 *)
(***************************************************************************)
EXTENDS LuaGC_safety

-----------------------------------------------------------------------------
(* What Heap calls accessible *)

Roots   == {MainThread, running} \cup RootTables
Awaited == Elems(list["finobj"]) \cup Elems(list["tobefnz"])

LEMMA HeapNames ==
  /\ \A o : H!Refs(o) = Refs(o) /\ H!Succ(o) = Succ(o)
  /\ \A S : H!Closed(S) <=> Closed(S)
  /\ H!Roots = Roots
<1>1. \A o : H!Refs(o) = Refs(o)
  BY DEF H!Refs, H!Objs, Refs, Objs
<1>2. \A o : H!Succ(o) = Succ(o)
  BY <1>1 DEF H!Succ, Succ, OpenUpvals
<1>3. H!Roots = Roots
  BY DEF H!Roots, Roots
<1>4. \A S : H!Closed(S) <=> Closed(S)
  BY <1>2, <1>3 DEF H!Closed, Closed, Anchors, Roots
<1> QED BY <1>1, <1>2, <1>3, <1>4

\* the objects accessible are the smallest closed set
LEMMA SmallestClosed ==
  ASSUME TypeOK
  PROVE  /\ Closed(H!Accessible) /\ H!Accessible \subseteq Obj
         /\ \A S \in SUBSET Obj : Closed(S) => H!Accessible \subseteq S
<1> DEFINE A == H!Accessible
<1>1. A = {o \in Obj : \A S \in SUBSET Obj : Closed(S) => o \in S}
  BY HeapNames DEF H!Accessible
<1> HIDE DEF A
<1>2. Anchors \subseteq Obj
  BY ConstantsAssumption DEF Anchors, TypeOK, ListName, Elems, ObjOfKind
<1>3. Anchors \subseteq A
  BY <1>1, <1>2 DEF Closed
<1>4. \A o \in A : Succ(o) \subseteq A
  <2> SUFFICES ASSUME NEW o \in A, NEW x \in Succ(o) PROVE x \in A
    OBVIOUS
  <2>1. o \in Obj /\ x \in Obj
    BY <1>1, RefsType DEF Succ, OpenUpvals
  <2>2. \A S \in SUBSET Obj : Closed(S) => x \in S
    BY <1>1 DEF Closed
  <2> QED BY <1>1, <2>1, <2>2
<1> QED BY <1>1, <1>3, <1>4 DEF Closed, A

LEMMA AccessibleLive ==
  ASSUME TypeOK, Closed(Live)
  PROVE  \A o \in H!Accessible : mark[o] # "free" /\ (IsSweepPhase => ~IsDead(o))
<1>1. Live \in SUBSET Obj
  BY DEF Live
<1> QED BY <1>1, SmallestClosed DEF Live

\* what the program has at hand is accessible
LEMMA HandsAccessible ==
  ASSUME TypeOK, NEW A, A = H!Accessible
  PROVE  /\ running \in A /\ MainThread \in A /\ Regs \subseteq A /\ AtHand \subseteq A
         /\ OpenUpvals(running) \subseteq A
         /\ \A o \in AtHand : Readable(o) \subseteq A
<1>1. \A o \in A : Refs(o) \subseteq A /\ OpenUpvals(o) \subseteq A
  BY SmallestClosed DEF Closed, Succ
<1>2. {MainThread, running} \cup RootTables \subseteq A
  BY SmallestClosed DEF Closed, Anchors
<1>3. \A o \in A : Stack(o) \subseteq A
  BY <1>1 DEF Stack
<1>4. \A o \in A : Readable(o) \subseteq A
  BY <1>1, <1>3 DEF Readable
<1> QED BY <1>1, <1>2, <1>3, <1>4 DEF Regs, AtHand

-----------------------------------------------------------------------------
(* What the marking phases know of weak tables *)

\* which weak tables each list holds.  The program may run while allweak is
\* not empty: then the tables in it must keep their mode.
Weakness ==
  /\ KeepInvariant => \A t \in allweak : \/ mode[t] = "weakkv"
                                         \/ at # "no" /\ mode[t] = "weakk" /\ NoWhite(Vals(t))
  /\ at # "no" => /\ \A t \in weak : mode[t] = "weakv"
                  /\ \A t \in ephemeron \cup todo : mode[t] = "weakk"

\* what the marking has found; a weak table holds on to strings, which are
\* marked when the table is cleared
Found == {o \in Obj : ~IsWhite(o) \/ Kind[o] = "string"}
FoundAll(roots) ==
  /\ roots \subseteq Found
  /\ \A o \in Found : H!Keeps(o, Found) \ {Nil} \subseteq Found

\* between clearing the values and the end of separatetobefnz, all that is
\* strongly reachable has been found
Strength == at = "separate" => FoundAll(Roots)

LEMMA FoundMeans ==
  ASSUME NEW roots, FoundAll(roots)
  PROVE  \A r \in SUBSET roots : H!StronglyReachable(r) \subseteq Found
<1>1. Found \in SUBSET Obj
  BY DEF Found
<1>2. ASSUME NEW r \in SUBSET roots PROVE H!StronglyReachable(r) \subseteq Found
  <2> DEFINE C == {S \in SUBSET Obj : r \subseteq S /\ \A o \in S : H!Keeps(o, S) \ {Nil} \subseteq S}
  <2>1. H!StronglyReachable(r) = {o \in Obj : \A S \in C : o \in S}
    BY DEF H!StronglyReachable
  <2>2. Found \in C
    BY <1>1 DEF FoundAll
  <2> HIDE DEF C
  <2> QED BY <2>1, <2>2
<1> QED BY <1>2

LEMMA KeepsMeans ==
  ASSUME NEW o, NEW S, NEW x, x # Nil
  PROVE  x \in H!Keeps(o, S) <=>
           \/ x \in OpenUpvals(o)
           \/ \E e \in fields[o] :
                \/ x = e[1] /\ ~H!WeakKey(o, e)
                \/ x = e[2] /\ ~H!WeakValue(o, e) /\ (H!WeakKey(o, e) => e[1] \in S)
<1> DEFINE K(e) ==   (IF H!WeakKey(o, e) THEN {} ELSE {e[1]})
                \cup (IF H!WeakValue(o, e) \/ (H!WeakKey(o, e) /\ e[1] \notin S) THEN {} ELSE {e[2]})
           held == UNION {K(e) : e \in fields[o]}
<1>1. H!Keeps(o, S) = held \cup OpenUpvals(o)
  BY DEF H!Keeps, OpenUpvals
<1>2. \A e : x \in K(e) <=>
               \/ x = e[1] /\ ~H!WeakKey(o, e)
               \/ x = e[2] /\ ~H!WeakValue(o, e) /\ (H!WeakKey(o, e) => e[1] \in S)
  OBVIOUS
<1> HIDE DEF K
<1>3. x \in held <=> \E e \in fields[o] : x \in K(e)
  OBVIOUS
<1> HIDE DEF held
<1>4. x \in held <=> \E e \in fields[o] :
               \/ x = e[1] /\ ~H!WeakKey(o, e)
               \/ x = e[2] /\ ~H!WeakValue(o, e) /\ (H!WeakKey(o, e) => e[1] \in S)
  BY <1>2, <1>3
<1> QED BY <1>1, <1>4

\* what an object keeps alive it refers to
LEMMA KeepsSucc ==
  ASSUME NEW o, NEW S
  PROVE  H!Keeps(o, S) \ {Nil} \subseteq Succ(o)
<1> SUFFICES ASSUME NEW x, x \in H!Keeps(o, S), x # Nil PROVE x \in Succ(o)
  OBVIOUS
<1>1. \/ x \in OpenUpvals(o)
      \/ \E e \in fields[o] : x = e[1] \/ x = e[2]
  BY KeepsMeans
<1>2. \A e \in fields[o] : x = e[1] \/ x = e[2] => x \in Objs(e)
  BY DEF Objs
<1> QED BY <1>1, <1>2 DEF Succ, Refs

LEMMA ConvergenceFinds ==
  ASSUME TypeInv, Control, Shape, Marking, Weakness, at \in {"converge1", "converge2"}, Converged(at)
  PROVE  /\ FoundAll(Roots)
         /\ at = "converge2" => FoundAll(Roots \cup Awaited)
<1>1. /\ MarkBase /\ MarkAtomic /\ TypeOK /\ again = {} /\ todo = {} /\ gray = {} /\ ~changed
      /\ KeepInvariant
  BY AtomicMeans DEF TypeInv, Control, Converged, AtomicAt
<1>2. Roots \subseteq Found
  BY <1>1, ConstantsAssumption DEF Roots, Found, MarkBase, MarkAtomic, NoWhite, TypeOK, ObjOfKind
<1>3. at = "converge2" => Awaited \subseteq Found
  BY <1>1 DEF Awaited, Found, MarkAtomic, NoWhite, TypeOK, ListName, Elems
<1>4. ASSUME NEW o \in Found PROVE H!Keeps(o, Found) \ {Nil} \subseteq Found
  <2>0. o \in Obj /\ Succ(o) \subseteq Obj
    BY <1>1, RefsType DEF Found, Succ
  <2>1. CASE NoWhite(Succ(o))
    BY <1>1, <2>0, <2>1, KeepsSucc DEF NoWhite, Found
  <2>2. CASE Kind[o] = "string" \/ mark[o] = "free"
    <3>1. fields[o] = {}
      BY <2>0, <2>2 DEF Shape
    <3>2. OpenUpvals(o) = {}
      BY <2>0, <2>2, ConstantsAssumption DEF Shape, OpenUpvals
    <3> QED BY <2>1, <3>1, <3>2 DEF Succ, Refs, NoWhite
  <2>3. CASE mark[o] = "black"
    BY <1>1, <2>0, <2>1, <2>3 DEF MarkBase, Tri, NoWhite, IsWhite
  <2>4. CASE mark[o] = "gray" /\ Kind[o] = "upval"
    <3>1. OpenUpvals(o) = {}
      BY <2>0, <2>4, ConstantsAssumption DEF Shape, OpenUpvals
    <3>2. NoWhite(Refs(o))
      BY <1>1, <2>0, <2>4 DEF MarkAtomic
    <3> QED BY <2>1, <3>1, <3>2 DEF Succ
  <2>5. CASE mark[o] = "gray" /\ Kind[o] # "upval"
    <3>1. o \in grayagain \cup weak \cup ephemeron \cup allweak
      BY <1>1, <2>0, <2>5 DEF MarkBase, Listed
    <3>2. Kind[o] = "table"
      BY <1>1, <3>1 DEF MarkBase, MarkAtomic
    <3>3. OpenUpvals(o) = {}
      BY <2>0, <3>2, ConstantsAssumption DEF Shape, OpenUpvals
    <3>4. \A e \in fields[o] : e[1] \in Obj \cup {Nil} /\ e[2] \in Obj \cup {Nil}
      BY <1>1, <2>0 DEF TypeOK, Entry
    <3>5. \A x \in H!Keeps(o, Found) \ {Nil} : x \in Obj
      BY <2>0, KeepsSucc
    <3>6. SUFFICES ASSUME NEW e \in fields[o], NEW x \in Obj,
                          \/ x = e[1] /\ ~H!WeakKey(o, e)
                          \/ x = e[2] /\ ~H!WeakValue(o, e) /\ (H!WeakKey(o, e) => e[1] \in Found),
                          IsWhite(x), Kind[x] # "string"
                   PROVE  FALSE
      BY <3>3, <3>5, KeepsMeans DEF Found
    <3>7. CASE o \in grayagain
      <4>1. x \in Objs(e)
        BY <3>6, ConstantsAssumption DEF Objs
      <4>2. x \in Refs(o)
        BY <4>1 DEF Refs
      <4> QED BY <1>1, <3>6, <3>7, <4>2 DEF MarkAtomic, NoWhite
    <3>8. CASE mode[o] = "weakv" /\ o \in weak
      <4>1. x = e[1]
        BY <3>6, <3>8, ConstantsAssumption DEF H!WeakValue
      <4> QED BY <1>1, <3>6, <3>8, <4>1, ConstantsAssumption DEF MarkAtomic, NoWhite, Keys
    <3>9. CASE mode[o] = "weakk" /\ o \in ephemeron
      <4>1. x = e[2]
        BY <3>6, <3>9, ConstantsAssumption DEF H!WeakKey
      <4>2. Clearable(mark, e[1])
        BY <1>1, <3>6, <3>9, <4>1, ConstantsAssumption DEF MarkAtomic, NoWhite, EphemeronMarks
      <4>3. e[1] \notin Found /\ H!WeakKey(o, e)
        BY <3>9, <4>2 DEF H!WeakKey, Found, Clearable, IsWhite
      <4> QED BY <3>6, <4>1, <4>3, ConstantsAssumption
    <3>10. CASE mode[o] = "weakkv" /\ o \in allweak
      BY <3>6, <3>10, ConstantsAssumption DEF H!WeakKey, H!WeakValue
    <3>11. CASE mode[o] = "weakk" /\ o \in allweak /\ NoWhite(Vals(o))
      BY <3>6, <3>11, ConstantsAssumption DEF H!WeakKey, NoWhite, Vals
    <3> QED BY <1>1, <3>1, <3>7, <3>8, <3>9, <3>10, <3>11 DEF Weakness, Converged, AtomicAt
  <2>6. mark[o] \in {"free", "gray", "black"} \/ Kind[o] = "string"
    BY <1>1, <2>0 DEF Found, IsWhite, White, Whites, TypeOK, Colours
  <2> QED BY <2>2, <2>3, <2>4, <2>5, <2>6
<1> QED BY <1>2, <1>3, <1>4 DEF FoundAll

-----------------------------------------------------------------------------
(* The steps of the marking phases keep Weakness *)

LEMMA WeaknessStays ==
  ASSUME TypeOK, Weakness, UNCHANGED mode, Darker, \A o \in Obj : fields'[o] \subseteq fields[o],
         KeepInvariant' => KeepInvariant, at = "no" <=> at' = "no",
         allweak' \subseteq allweak, weak' \subseteq weak,
         ephemeron' \cup todo' \subseteq ephemeron \cup todo
  PROVE  Weakness'
<1>1. \A x \in Obj : ~IsWhite(x) => ~IsWhite(x)'
  BY DarkerMeans DEF IsWhite, White
<1>2. \A t \in Obj : Vals(t)' \subseteq Vals(t) /\ Vals(t) \subseteq Obj
  BY DEF Vals, TypeOK, Entry
<1>3. \A t \in Obj : NoWhite(Vals(t)) => NoWhite(Vals(t))'
  BY <1>1, <1>2 DEF NoWhite
<1>4. allweak \subseteq Obj
  BY DEF TypeOK
<1> QED BY <1>3, <1>4 DEF Weakness

LEMMA WeaknessTraversal ==
  ASSUME TypeInv, Control, Weakness, gcstate \in {"propagate", "atomic"},
         NEW o \in Obj, mark[o] # "free", Traverses(o),
         UNCHANGED <<fields, mode, at, gcstate>>, todo' \subseteq todo
  PROVE  Weakness'
<1>0. TypeOK /\ Darker /\ (\A x \in Obj : fields'[x] \subseteq fields[x])
      /\ KeepInvariant /\ (at = "no" <=> at' = "no")
  BY TraverseDarker DEF Traverses, TypeInv, KeepInvariant
<1>1. CASE UNCHANGED <<allweak, weak, ephemeron>>
  BY <1>0, <1>1, WeaknessStays
<1>2. ASSUME UNCHANGED <<allweak, weak, ephemeron>> => Weakness',
             weak' \subseteq weak \cup {o}, ephemeron' \subseteq ephemeron \cup {o},
             allweak' \subseteq allweak \cup {o},
             o \in weak' => o \in weak \/ (at # "no" => mode[o] = "weakv"),
             o \in ephemeron' => o \in ephemeron \/ (at # "no" => mode[o] = "weakk"),
             o \in allweak' => \/ o \in allweak \/ mode[o] = "weakkv"
                               \/ at # "no" /\ mode[o] = "weakk" /\ NoWhite(Vals(o))'
      PROVE  Weakness'
  <2>1. \A x \in Obj : ~IsWhite(x) => ~IsWhite(x)'
    BY <1>0, DarkerMeans DEF IsWhite, White
  <2>2. \A t \in Obj : Vals(t)' = Vals(t) /\ Vals(t) \subseteq Obj
    BY <1>0 DEF Vals, TypeOK, Entry
  <2>3. \A t \in Obj : NoWhite(Vals(t)) => NoWhite(Vals(t))'
    BY <2>1, <2>2 DEF NoWhite
  <2>4. allweak \subseteq Obj
    BY <1>0 DEF TypeOK
  <2>5. (\A t \in allweak : mode[t] = "weakkv" \/ (at # "no" /\ mode[t] = "weakk" /\ NoWhite(Vals(t))))'
    BY <1>0, <1>2, <2>3, <2>4 DEF Weakness
  <2>6. at' # "no" => (\A t \in weak' : mode'[t] = "weakv")
                      /\ \A t \in ephemeron' \cup todo' : mode'[t] = "weakk"
    BY <1>2 DEF Weakness
  <2> QED BY <2>5, <2>6 DEF Weakness
<1>3. CASE TraverseStrong(o) \/ TraverseThread(o)
  BY <1>1, <1>3 DEF TraverseStrong, TraverseThread
<1>4. CASE TraverseWeakValue(o)
  BY <1>2, <1>1, <1>4 DEF TraverseWeakValue
<1>5. CASE TraverseAllWeak(o)
  BY <1>2, <1>1, <1>5 DEF TraverseAllWeak
<1>6. CASE TraverseEphemeron(o)
  <2> DEFINE hasclears == \E e \in fields[o] : Clearable(mark, e[1])
             hasww == \E e \in fields[o] : Clearable(mark, e[1]) /\ e[2] # Nil /\ IsWhite(e[2])
             keys == {e[1] : e \in fields[o]} \ {Nil}
             dest == IF gcstate = "propagate" THEN "grayagain"
                     ELSE IF hasww THEN "ephemeron"
                     ELSE IF hasclears THEN "allweak" ELSE "none"
             S == EphemeronMarks(o) \cup Strings(keys)
             c == IF dest = "none" THEN "black" ELSE "gray"
  <2>1. /\ mode[o] = "weakk" /\ Visit(o, c, S) /\ UNCHANGED weak
        /\ ephemeron' = IF dest = "ephemeron" THEN ephemeron \cup {o} ELSE ephemeron
        /\ allweak' = IF dest = "allweak" THEN allweak \cup {o} ELSE allweak
    BY <1>6 DEF TraverseEphemeron
  <2>2. \A e \in fields[o] : e[1] \in Obj \cup {Nil} /\ e[2] \in Obj \cup {Nil}
    BY <1>0 DEF TypeOK, Entry
  <2>3. S \in SUBSET Obj /\ c \in {"gray", "black"}
    BY <2>2 DEF EphemeronMarks, Strings
  <2>4. Darker /\ \A x \in S : mark'[x] \notin Whites
    <3> HIDE DEF S, c
    <3> QED BY <2>1, <2>3, VisitDarker
  <2>5. CASE dest = "allweak"
    <3>1. at # "no" /\ ~hasww
      BY <2>5 DEF Control
    <3>2. ASSUME NEW e \in fields[o], e[2] # Nil PROVE mark'[e[2]] \notin Whites
      <4>1. CASE Clearable(mark, e[1])
        BY <1>0, <2>2, <3>1, <3>2, <4>1, DarkerMeans DEF IsWhite, White
      <4>2. CASE ~Clearable(mark, e[1])
        <5>1. e[2] \in S
          BY <3>2, <4>2 DEF EphemeronMarks
        <5> QED BY <2>4, <5>1
      <4> QED BY <4>1, <4>2
    <3>3. NoWhite(Vals(o))'
      BY <3>2 DEF NoWhite, Vals, IsWhite, White
    <3> QED BY <1>1, <1>2, <2>1, <2>5, <3>1, <3>3
  <2>6. CASE dest # "allweak"
    BY <1>1, <1>2, <2>1, <2>6
  <2> QED BY <2>5, <2>6
<1> QED BY <1>3, <1>4, <1>5, <1>6 DEF Traverses

LEMMA WeaknessMarking ==
  ASSUME TypeInv, Control, Placement, Shape, Marking, Weakness, MarkingStep
  PROVE  Weakness'
<1> USE DEF heapVars, sweepVars, runVars, grayVars, atomicVars
<1>0. TypeOK
  BY DEF TypeInv
<1>1. CASE RestartCollection
  <2>1. allweak' = {} /\ at' = "no"
    BY <1>1 DEF RestartCollection, CollectorRuns
  <2> QED BY <2>1 DEF Weakness
<1>2. CASE AtomicStart
  <2>1. /\ at = "no" /\ KeepInvariant /\ gcstate = "enteratomic"
        /\ UNCHANGED <<weak, ephemeron, allweak, todo, mode>>
    BY <1>2 DEF AtomicStart, CollectorRuns, KeepInvariant
  <2>2. weak = {} /\ ephemeron = {} /\ todo = {}
    BY <2>1 DEF Marking, MarkOpen, Control
  <2> QED BY <2>1, <2>2 DEF Weakness
<1>3. CASE EnterAtomic \/ AtomicRemarkUpvals \/ AtomicGrayAgain \/ ConvergePass \/ AtomicMarkBeingFnz
  <2>1. Darker
    BY <1>3, MarkingMarks DEF MarkingHeap
  <2>2. /\ UNCHANGED <<fields, mode, weak, allweak>> /\ (at = "no" <=> at' = "no")
        /\ ephemeron' \cup todo' \subseteq ephemeron \cup todo
        /\ KeepInvariant
    BY <1>3 DEF EnterAtomic, AtomicRemarkUpvals, AtomicGrayAgain, ConvergePass, AtomicMarkBeingFnz,
                AtomicAt, CollectorRuns, KeepInvariant, Control
  <2> QED BY <1>0, <2>1, <2>2, WeaknessStays
<1>4. CASE Propagate \/ AtomicPropagate \/ \E o \in Obj : ConvergeVisit(o)
  <2>1. /\ UNCHANGED <<fields, mode, at, gcstate>> /\ todo' \subseteq todo
    BY <1>4 DEF Propagate, AtomicPropagate, ConvergeVisit
  <2>2. gcstate \in {"propagate", "atomic"} /\ MarkBase
    BY <1>4 DEF Propagate, AtomicPropagate, ConvergeVisit, AtomicAt, Control, KeepInvariant, Marking
  <2>3. PICK o \in Obj : o \in gray \cup todo /\ Traverses(o)
    BY <1>4 DEF Propagate, AtomicPropagate, PropagateMark, ConvergeVisit, Traverses
  <2>4. mark[o] = "gray"
    BY <2>2, <2>3 DEF MarkBase, Listed
  <2> QED BY <2>1, <2>2, <2>3, <2>4, WeaknessTraversal
<1>5. CASE AtomicClearValues \/ AtomicClearKeys
  <2>1. MarkingHeap
    BY <1>5, MarkingClears
  <2>2. UNCHANGED <<mode, weak, allweak, ephemeron, todo, gcstate>> /\ (at = "no" <=> at' = "no")
    BY <1>5 DEF AtomicClearValues, AtomicClearKeys, Converged, AtomicAt
  <2> QED BY <1>0, <2>1, <2>2, WeaknessStays DEF MarkingHeap, KeepInvariant
<1>6. CASE AtomicSeparate
  <2>1. UNCHANGED <<fields, mark, mode, weak, allweak, ephemeron, todo, gcstate, at>>
    BY <1>6 DEF AtomicSeparate
  <2> QED BY <1>0, <2>1, WeaknessStays DEF Darker, KeepInvariant
<1> QED BY <1>1, <1>2, <1>3, <1>4, <1>5, <1>6 DEF MarkingStep

-----------------------------------------------------------------------------
(* The marking phases: what they do is hidden from Heap, but for the entries *)
(* they clear and the objects they separate                                 *)

HeapStep == [H!Next]_(H!vars)

\* Heap sees nothing of a step, or only that the program is suspended by it,
\* or goes on
LEMMA Unseen ==
  ASSUME Allocated' = Allocated, UNCHANGED <<fields, mode, owner, running, closing>>,
         Elems(list'["finobj"]) = Elems(list["finobj"]),
         Elems(list'["tobefnz"]) = Elems(list["tobefnz"])
  PROVE  HeapStep
<1>1. Elems(list["finobj"])' = Elems(list["finobj"]) /\ Elems(list["tobefnz"])' = Elems(list["tobefnz"])
  BY DEF Elems
<1>2. UNCHANGED <<Allocated, fields, mode, owner, running, closing>>
  OBVIOUS
<1> HIDE DEF Elems
<1>3. CASE (at # "no")' = (at # "no")
  <2>1. UNCHANGED H!vars
    BY <1>1, <1>2, <1>3 DEF H!vars
  <2> QED BY <2>1 DEF HeapStep
<1>4. CASE (at # "no")' # (at # "no")
  <2>1. H!Suspend
    BY <1>1, <1>2, <1>4 DEF H!Suspend
  <2> QED BY <2>1 DEF HeapStep, H!Next
<1> QED BY <1>3, <1>4

LEMMA ClearRefines ==
  ASSUME TypeInv, Control, Shape, Marking, Weakness, at \in {"converge1", "converge2"}, Converged(at),
         NEW V \in SUBSET (weak \cup allweak), NEW K \in SUBSET (ephemeron \cup allweak),
         ClearBy(V, K), at = "converge1" => K = {},
         UNCHANGED <<mode, owner, list, running, closing>>, at' # "no"
  PROVE  /\ H!ClearWeak
         /\ FoundAll(Roots)' /\ \A o \in Obj : fields'[o] \subseteq fields[o]
<1>0. /\ TypeOK /\ KeepInvariant /\ V \in SUBSET Obj /\ K \in SUBSET Obj /\ Nil \notin Obj
      /\ at # "no"
  BY AtomicMeans, ConstantsAssumption DEF TypeInv, TypeOK
<1>1. /\ FoundAll(Roots)
      /\ at = "converge2" => FoundAll(Roots \cup Awaited)
  BY ConvergenceFinds
<1>2. /\ H!StronglyReachable(Roots) \subseteq Found
      /\ at = "converge2" => H!StronglyReachable(Roots \cup Awaited) \subseteq Found
  BY <1>1, FoundMeans
<1>3. ASSUME NEW o \in Obj, NEW e \in fields[o], e \notin fields'[o]
      PROVE  (o \in V /\ Clearable(mark, e[2])) \/ (o \in K /\ Clearable(mark, e[1]))
  <2> DEFINE stays(x) == (o \in V => ~Clearable(mark, x[2])) /\ (o \in K => ~Clearable(mark, x[1]))
  <2>1. fields'[o] = {x \in fields[o] : stays(x)}
    BY DEF ClearBy
  <2>2. ~stays(e)
    <3> HIDE DEF stays
    <3> QED BY <1>3, <2>1
  <2> QED BY <2>2
<1>4. \A o \in Obj : fields'[o] \subseteq fields[o]
  BY DEF ClearBy
<1>5. \A o \in Obj : \A e \in fields[o] : e[1] \in Obj \cup {Nil} /\ e[2] \in Obj \cup {Nil}
  BY <1>0 DEF TypeOK, Entry
<1>6. \A x \in Obj \cup {Nil} : Clearable(mark, x) => x # Nil /\ Kind[x] # "string" /\ x \notin Found
  BY <1>0 DEF Clearable, Found, IsWhite
<1>7. ASSUME NEW o \in V, NEW e \in fields[o], Clearable(mark, e[2])
      PROVE  H!WeakValue(o, e) /\ e[2] \notin Found
  <2>1. e[2] # Nil /\ Kind[e[2]] # "string" /\ e[2] \notin Found /\ o \in Obj
    BY <1>0, <1>5, <1>6, <1>7
  <2>2. mode[o] \in {"weakv", "weakkv"}
    <3>1. ~NoWhite(Vals(o))
      BY <1>7, <2>1 DEF NoWhite, Vals, Clearable, IsWhite
    <3> QED BY <1>0, <1>7, <3>1 DEF Weakness
  <2> QED BY <2>1, <2>2 DEF H!WeakValue
<1>8. ASSUME NEW o \in K, NEW e \in fields[o], Clearable(mark, e[1])
      PROVE  H!WeakKey(o, e) /\ e[1] \notin Found /\ at = "converge2"
  <2>1. e[1] # Nil /\ Kind[e[1]] # "string" /\ e[1] \notin Found /\ o \in Obj
    BY <1>0, <1>5, <1>6, <1>8
  <2>2. mode[o] \in {"weakk", "weakkv"}
    BY <1>0, <1>8 DEF Weakness
  <2>3. at = "converge2"
    BY <1>8
  <2> QED BY <2>1, <2>2, <2>3 DEF H!WeakKey
<1>9. Darker
  BY <1>0, ClearByDarker
<1>10. Allocated' = Allocated
  BY <1>9, DarkerMeans
<1>11. ASSUME NEW o \in Obj, NEW e \in fields[o] \ fields'[o]
       PROVE  \/ H!WeakValue(o, e) /\ e[2] \notin H!StronglyReachable(Roots)
              \/ H!WeakKey(o, e) /\ e[1] \notin H!StronglyReachable(Roots \cup Awaited)
  <2>1. (o \in V /\ Clearable(mark, e[2])) \/ (o \in K /\ Clearable(mark, e[1]))
    BY <1>3, <1>11
  <2> QED BY <1>2, <1>7, <1>8, <1>11, <2>1
<1>12. H!ClearWeak
  <2>1. /\ H!Roots = Roots
        /\ Roots \cup Elems(list["finobj"]) \cup Elems(list["tobefnz"]) = Roots \cup Awaited
    BY HeapNames DEF Awaited
  <2>2. \A o \in Obj : \A e \in fields[o] \ fields'[o] :
            \/ H!WeakValue(o, e) /\ e[2] \notin H!StronglyReachable(H!Roots)
            \/ H!WeakKey(o, e) /\ e[1] \notin H!StronglyReachable(H!Roots \cup Elems(list["finobj"]) \cup Elems(list["tobefnz"]))
    BY <1>11, <2>1
  <2> QED BY <1>0, <1>4, <1>10, <2>2 DEF H!ClearWeak
<1>13. Found' = Found
  <2>1. PICK S \in SUBSET Obj : \A x \in Obj : mark'[x] # mark[x] => Kind[x] = "string"
    BY <1>0, Cleared
  <2> QED BY <2>1 DEF Found, IsWhite, White
<1>14. ASSUME NEW o \in Found PROVE H!Keeps(o, Found)' \ {Nil} \subseteq H!Keeps(o, Found)
  <2> DEFINE K1(e) ==   (IF H!WeakKey(o, e) THEN {} ELSE {e[1]})
                   \cup (IF H!WeakValue(o, e) \/ (H!WeakKey(o, e) /\ e[1] \notin Found) THEN {} ELSE {e[2]})
             open == {u \in Obj : owner[u] = o}
  <2>1. H!Keeps(o, Found) = (UNION {K1(e) : e \in fields[o]}) \cup open
    BY DEF H!Keeps
  <2>2. H!Keeps(o, Found)' = (UNION {K1(e) : e \in fields'[o]}) \cup open
    BY <1>13 DEF H!Keeps, H!WeakKey, H!WeakValue
  <2>3. fields'[o] \subseteq fields[o]
    BY <1>4 DEF Found
  <2> HIDE DEF K1, open
  <2> QED BY <2>1, <2>2, <2>3
<1>15. FoundAll(Roots)'
  BY <1>1, <1>13, <1>14 DEF FoundAll, Roots
<1> QED BY <1>4, <1>12, <1>15

\* separatetobefnz condemns what the program holds no more
LEMMA SeparateRefines ==
  ASSUME TypeInv, Control, Placement, Strength, AtomicSeparate
  PROVE  HeapStep
<1> USE DEF heapVars, sweepVars, runVars
<1> DEFINE f == list["finobj"]
           o == f[scan]
<1>1. /\ UNCHANGED <<mark, fields, owner, mode, running, closing, at>>
      /\ at = "separate" /\ scan \in 1 .. Len(f)
      /\ \/ /\ IsWhite(o)
            /\ list' = [list EXCEPT !["finobj"] = Unlinked(f, scan), !["tobefnz"] = LinkLast(@, o)]
         \/ list' = list
  BY DEF AtomicSeparate, TypeInv, TypeOK
<1>2. list \in Lists /\ f \in Seq(Obj) /\ list["tobefnz"] \in Seq(Obj)
  BY DEF TypeInv, TypeOK, Lists, ListName
<1>3. o \in Obj /\ o \in Elems(f)
  BY <1>1, <1>2 DEF Elems
<1>4. Allocated' = Allocated
  BY <1>1 DEF Allocated
<1>5. CASE list' = list
  BY <1>1, <1>4, <1>5, Unseen
<1>6. CASE IsWhite(o) /\ list' = [list EXCEPT !["finobj"] = Unlinked(f, scan), !["tobefnz"] = LinkLast(@, o)]
  <2>1. list'["finobj"] = Unlinked(f, scan) /\ list'["tobefnz"] = Append(list["tobefnz"], o)
    BY <1>2, <1>6 DEF Lists, ListName, LinkLast
  <2>2. Elems(Unlinked(f, scan)) \subseteq Elems(f) /\ Elems(f) \ {o} \subseteq Elems(Unlinked(f, scan))
    <3> HIDE DEF f
    <3> QED BY <1>1, <1>2, UnlinkedElems
  <2>3. Elems(list'["tobefnz"]) = Elems(list["tobefnz"]) \cup {o}
    BY <1>2, <1>3, <2>1, AppendElems
  <2>4. o \notin Elems(list'["finobj"])
    <3>1. Placement'
      BY PlacementCollector DEF CollectorStep
    <3>2. Elems(list["finobj"])' \cap Elems(list["tobefnz"])' = {}
      BY <3>1 DEF Placement, Placed, Apart, ListName
    <3>3. Elems(list'["finobj"]) \cap Elems(list'["tobefnz"]) = {}
      BY <3>2 DEF Elems
    <3> QED BY <2>3, <3>3
  <2>5. Elems(list'["finobj"]) = Elems(f) \ {o}
    BY <2>1, <2>2, <2>4
  <2>6. o \notin Found
    <3>1. tofin \subseteq ObjOfKind({"table"}) /\ Elems(f) \subseteq tofin
      BY ConstantsAssumption DEF Placement, Placed
    <3> QED BY <1>3, <1>6, <3>1 DEF Found, ObjOfKind
  <2>7. o \notin H!StronglyReachable(H!Roots)
    <3>1. H!StronglyReachable(Roots) \subseteq Found
      BY <1>1, FoundMeans DEF Strength
    <3> QED BY <2>6, <3>1, HeapNames
  <2>8. Elems(list["finobj"])' = Elems(list["finobj"]) \ {o} /\ Elems(list["tobefnz"])' = Elems(list["tobefnz"]) \cup {o}
    BY <2>3, <2>5 DEF Elems
  <2>9. (at # "no") /\ (at # "no")' = (at # "no")
    BY <1>1
  <2>10. UNCHANGED <<Allocated, fields, mode, owner, running, closing>>
    BY <1>1, <1>4
  <2> HIDE DEF o
  <2>11. H!Condemn(o)
    BY <1>3, <2>7, <2>8, <2>9, <2>10 DEF H!Condemn
  <2> QED BY <1>3, <2>11 DEF HeapStep, H!Next
<1> QED BY <1>1, <1>5, <1>6

LEMMA MarkingRefines ==
  ASSUME TypeInv, Control, Placement, Shape, Marking, Weakness, Strength, MarkingStep
  PROVE  HeapStep /\ Strength'
<1> USE DEF heapVars, sweepVars, runVars, grayVars, atomicVars
<1>0. /\ MarkingHeap /\ Allocated' = Allocated
      /\ at = "separate" => gray = {}
  <2>1. MarkingHeap
    BY MarkingMarks, MarkingVisits, MarkingClears, MarkingSeparates DEF MarkingStep
  <2> QED BY <2>1, DarkerMeans, AtomicMeans DEF MarkingHeap, MarkAtomic
<1>1. CASE RestartCollection \/ Propagate \/ EnterAtomic
  <2>1. UNCHANGED <<list, fields, mode, owner, running, closing, at>> /\ at = "no"
    BY <1>1 DEF RestartCollection, Propagate, EnterAtomic, CollectorRuns
  <2> QED BY <1>0, <2>1, Unseen DEF Strength
<1>2. CASE AtomicStart
  <2>1. UNCHANGED <<list, fields, mode, owner, running, closing>> /\ at = "no" /\ at' = "propagate"
    BY <1>2 DEF AtomicStart, CollectorRuns
  <2> QED BY <1>0, <2>1, Unseen DEF Strength
<1>3. CASE \/ AtomicPropagate \/ AtomicRemarkUpvals \/ AtomicGrayAgain
           \/ ConvergePass \/ (\E o \in Obj : ConvergeVisit(o)) \/ AtomicMarkBeingFnz
  <2>1. UNCHANGED <<list, fields, mode, owner, running, closing>>
    BY <1>3 DEF AtomicPropagate, AtomicRemarkUpvals, AtomicGrayAgain, ConvergePass, ConvergeVisit,
                AtomicMarkBeingFnz
  <2>2. at # "no" /\ at' \notin {"no", "separate"}
    BY <1>0, <1>3 DEF AtomicPropagate, PropagateMark, AtomicRemarkUpvals, AtomicGrayAgain, ConvergePass,
                      ConvergeVisit, AtomicMarkBeingFnz, AtomicAt
  <2> QED BY <1>0, <2>1, <2>2, Unseen DEF Strength
<1>4. CASE AtomicClearValues
  <2> DEFINE V == weak \cup allweak
             K == {}
  <2>1. /\ at = "converge1" /\ at' = "separate" /\ Converged("converge1") /\ ClearBy(V, {})
        /\ UNCHANGED <<mode, owner, list, running, closing>>
    BY <1>4 DEF AtomicClearValues, Converged, AtomicAt
  <2>2. V \in SUBSET (weak \cup allweak) /\ K \in SUBSET (ephemeron \cup allweak)
    OBVIOUS
  <2> HIDE DEF V
  <2>3. H!ClearWeak /\ FoundAll(Roots)'
    BY <2>1, <2>2, ClearRefines
  <2> QED BY <2>3 DEF Strength, HeapStep, H!Next
<1>5. CASE AtomicClearKeys
  <2> DEFINE V == (weak \cup allweak) \ orig
             K == ephemeron \cup allweak
  <2>1. /\ at = "converge2" /\ at' = "flip" /\ Converged("converge2") /\ ClearBy(V, K)
        /\ UNCHANGED <<mode, owner, list, running, closing>>
    BY <1>5 DEF AtomicClearKeys, Converged, AtomicAt
  <2>2. V \in SUBSET (weak \cup allweak) /\ K \in SUBSET (ephemeron \cup allweak)
    OBVIOUS
  <2> HIDE DEF V, K
  <2>3. H!ClearWeak
    BY <2>1, <2>2, ClearRefines
  <2> QED BY <2>1, <2>3 DEF Strength, HeapStep, H!Next
<1>6. CASE AtomicSeparate
  <2>1. HeapStep
    BY <1>6, SeparateRefines
  <2>2. UNCHANGED <<mark, fields, mode, owner, running, at>>
    BY <1>6 DEF AtomicSeparate
  <2>3. Found' = Found
    BY <2>2 DEF Found, IsWhite, White
  <2>4. ASSUME FoundAll(Roots) PROVE FoundAll(Roots)'
    <3>1. \A o : H!Keeps(o, Found)' = H!Keeps(o, Found)
      BY <2>2, <2>3 DEF H!Keeps, H!WeakKey, H!WeakValue
    <3> QED BY <2>2, <2>3, <2>4, <3>1 DEF FoundAll, Roots
  <2> QED BY <2>1, <2>2, <2>4 DEF Strength
<1> QED BY <1>1, <1>2, <1>3, <1>4, <1>5, <1>6 DEF MarkingStep

-----------------------------------------------------------------------------
(* The sweep frees only what cannot be reached *)

LEMMA SweptRefines ==
  ASSUME TypeInv, Placement, NEW D \in SUBSET Allocated, NEW W \in SUBSET Allocated,
         Swept(D, W), D \cap H!Accessible = {}, UNCHANGED <<running, closing>>,
         Elems(list'["finobj"]) = Elems(list["finobj"]),
         Elems(list'["tobefnz"]) = Elems(list["tobefnz"])
  PROVE  HeapStep
<1>0. /\ D \in SUBSET Obj /\ Nil \notin D /\ Allocated' = Allocated \ D
      /\ fields \in [Obj -> SUBSET Entry] /\ owner \in [Obj -> Obj \cup {Nil}] /\ mode \in [Obj -> Modes]
  BY SweptMarks, ConstantsAssumption DEF Allocated, Placement, TypeInv, TypeOK
<1>1. /\ fields' = [o \in Obj |-> IF o \in D THEN {} ELSE fields[o]]
      /\ owner'  = [o \in Obj |-> IF o \in D \/ owner[o] \in D THEN Nil ELSE owner[o]]
      /\ mode'   = [o \in Obj |-> IF o \in D THEN "strong" ELSE mode[o]]
  BY DEF Swept
<1>2. CASE D = {}
  <2>1. UNCHANGED <<fields, owner, mode>> /\ Allocated' = Allocated
    BY <1>0, <1>1, <1>2
  <2> QED BY <2>1, Unseen
<1>3. CASE D # {}
  <2>1. Allocated' \subseteq Allocated /\ Allocated' # Allocated /\ Allocated \ Allocated' = D
    BY <1>0, <1>3
  <2>2. \A o \in Allocated \ Allocated' : o \notin H!Accessible
    BY <2>1
  <2>3. \A o \in Allocated' :
          /\ fields'[o] = fields[o] /\ mode'[o] = mode[o]
          /\ owner'[o] = IF owner[o] \in Allocated \ Allocated' THEN Nil ELSE owner[o]
    <3>1. \A o \in Allocated' : o \in Obj /\ o \notin D
      BY <1>0 DEF Allocated
    <3> QED BY <1>1, <2>1, <3>1
  <2>4. Elems(list["finobj"])' = Elems(list["finobj"]) /\ Elems(list["tobefnz"])' = Elems(list["tobefnz"])
    BY DEF Elems
  <2>5. (at # "no")' \in BOOLEAN
    OBVIOUS
  <2> HIDE DEF Elems
  <2>6. H!Free
    BY <2>1, <2>2, <2>3, <2>4, <2>5 DEF H!Free
  <2> QED BY <2>6 DEF HeapStep, H!Next
<1> QED BY <1>2, <1>3

LEMMA EnterSweepRefines ==
  ASSUME TypeInv, Placement, EnterSweep, ~IsDead(MainThread), UNCHANGED <<running, closing>>,
         \A o \in H!Accessible : ~IsDead(o)
  PROVE  HeapStep
<1> DEFINE p == "allgc"
           r == SweepToLive(p)
<1>1. list' = r.list /\ Swept(r.dead, r.live)
  BY DEF EnterSweep
<1>2. TypeOK /\ Placed(list, Allocated, tofin) /\ list \in Lists /\ Apart(list) /\ p \in ListName
  BY MainThreadPlaced DEF TypeInv, Placement, Placed, ListName
<1> HIDE DEF r, p
<1>3. ListOf(p) = p
  BY <1>2, AheadIndex
<1>4. /\ \A o \in r.dead : IsDead(o) /\ o \in Allocated
      /\ r.live \subseteq Allocated
      /\ \A l \in ListName \ {p} : r.list[l] = list[l]
  <2>1. r = SweepToLive(p)
    BY DEF r
  <2>2. /\ \A o \in r.dead : IsDead(o) /\ o \in Allocated
        /\ r.live \subseteq Allocated
        /\ \A l \in ListName \ {ListOf(p)} : r.list[l] = list[l]
    BY <1>2, <2>1, SweepToLivePlaced
  <2> QED BY <1>3, <2>2
<1>5. r.dead \in SUBSET Allocated /\ r.live \in SUBSET Allocated /\ r.dead \cap H!Accessible = {}
  BY <1>4
<1>6. list'["finobj"] = list["finobj"] /\ list'["tobefnz"] = list["tobefnz"]
  BY <1>1, <1>4 DEF ListName, p
<1> QED BY <1>1, <1>5, <1>6, SweptRefines

LEMMA SweepRefines ==
  ASSUME TypeInv, Control, Placement, Sweeping, Safe, AtomicEnd \/ SweepObject \/ \E b : FullGC(b)
  PROVE  HeapStep
<1>0. TypeOK /\ Closed(Live) /\ Live \in SUBSET Obj
  BY DEF TypeInv, Safe, Live
<1>1. CASE AtomicEnd
  <2>1. at = "flip" /\ EnterSweep /\ UNCHANGED <<running, closing>>
    BY <1>1 DEF AtomicEnd, runVars
  <2>2. Spared \in SUBSET Obj /\ Closed(Spared) /\ MainThread \in Spared
    BY <2>1, FlipSpares DEF Closed, Spared, Anchors
  <2>3. \A o \in H!Accessible : o \in Spared
    BY <1>0, <2>2, SmallestClosed
  <2> QED BY <2>1, <2>2, <2>3, EnterSweepRefines DEF Spared
<1>2. ASSUME NEW b, FullGC(b) PROVE HeapStep
  <2>1. at = "no" /\ UNCHANGED <<running, closing>>
    BY <1>2 DEF FullGC, ProgramRuns
  <2>2. CASE KeepInvariant
    <3>1. EnterSweep /\ ~IsSweepPhase
      BY <1>2, <2>2 DEF FullGC, KeepInvariant, IsSweepPhase
    <3>2. \A o \in Obj : ~IsDead(o)
      BY <2>1, <3>1 DEF Sweeping
    <3>3. H!Accessible \subseteq Obj /\ MainThread \in Obj
      BY <1>0, SmallestClosed, ConstantsAssumption DEF ObjOfKind
    <3> QED BY <2>1, <3>1, <3>2, <3>3, EnterSweepRefines
  <2>3. CASE ~KeepInvariant
    <3>1. UNCHANGED <<mark, fields, owner, mode, list>>
      BY <1>2, <2>3 DEF FullGC, heapVars
    <3> QED BY <2>1, <3>1, Unseen DEF Allocated
  <2> QED BY <2>2, <2>3
<1>3. CASE SweepObject
  <2> DEFINE l == ListOf(sweepgc)
             n == Behind(sweepgc) + 1
             s == list[l]
             o == s[n]
  <2>1. /\ gcstate \in {"swpallgc", "swpfinobj", "swptobefnz"} /\ sweepgc # Nil /\ n <= Len(s)
        /\ \/ IsDead(o) /\ Swept({o}, {}) /\ list' = [list EXCEPT ![l] = Unlinked(s, n)]
           \/ ~IsDead(o) /\ Swept({}, {o}) /\ list' = list
        /\ UNCHANGED <<running, closing>> /\ closing # "done"
    BY <1>3 DEF SweepObject, CollectorRuns, runVars
  <2>2. IsSweepPhase /\ list \in Lists
    BY <2>1, MainThreadPlaced DEF IsSweepPhase
  <2>3. l \in ListName /\ Behind(sweepgc) \in 0 .. Len(s)
    <3>1. sweepgc \in ListName \/ \E k \in ListName : sweepgc \in Elems(list[k])
      BY <1>0, <2>1, <2>2 DEF TypeInv, TypeOK, SweepgcLinked
    <3> QED BY <1>0, <2>2, <3>1, BehindType
  <2>4. s \in Seq(Obj) /\ n \in 1 .. Len(s)
    BY <2>1, <2>2, <2>3 DEF Lists
  <2>5. o \in Elems(s)
    BY <2>4 DEF Elems
  <2>6. o \in Allocated
    BY <2>3, <2>5, MainThreadPlaced
  <2> HIDE DEF n, o, l
  <2>7. CASE IsDead(o) /\ Swept({o}, {}) /\ list' = [list EXCEPT ![l] = Unlinked(s, n)]
    <3>1. o \notin H!Accessible
      BY <1>0, <2>2, <2>7, AccessibleLive
    <3>2. o \notin Anchors
      BY <1>0, <2>2, <2>7 DEF Closed, Live
    <3>3. l = "allgc"
      BY <2>3, <2>5, <3>2 DEF ListName, Anchors
    <3>4. list'["finobj"] = list["finobj"] /\ list'["tobefnz"] = list["tobefnz"]
      BY <2>2, <2>7, <3>3 DEF Lists, ListName
    <3>5. {o} \in SUBSET Allocated /\ {} \in SUBSET Allocated /\ {o} \cap H!Accessible = {}
      BY <2>6, <3>1
    <3> QED BY <2>1, <2>7, <3>4, <3>5, SweptRefines
  <2>8. CASE ~IsDead(o) /\ Swept({}, {o}) /\ list' = list
    <3>1. {o} \in SUBSET Allocated /\ {} \in SUBSET Allocated
      BY <2>6
    <3> QED BY <2>1, <2>8, <3>1, SweptRefines
  <2> QED BY <2>1, <2>7, <2>8
<1> QED BY <1>1, <1>2, <1>3

-----------------------------------------------------------------------------
(* Finalizers, and the steps of which Heap sees nothing *)

LEMMA FinalizeRefines ==
  ASSUME TypeInv, Control, Placement, CallFinalizer \/ NextFinalizer
  PROVE  HeapStep
<1> DEFINE s == list["tobefnz"]
           o == Head(s)
<1>1. /\ s # <<>> /\ list' = [list EXCEPT !["tobefnz"] = Tail(@), !["allgc"] = <<o>> \o @]
      /\ mark' = Repainted(o)
      /\ fields' \in {fields, [fields EXCEPT ![running] = @ \cup {<<Nil, o>>}]}
      /\ UNCHANGED <<mode, owner, at, running, closing>>
  BY DEF CallFinalizer, NextFinalizer, GCTM, atomicVars
<1>2. /\ list \in Lists /\ s \in Seq(Obj) /\ list["allgc"] \in Seq(Obj) /\ Elems(s) \subseteq Allocated
  BY MainThreadPlaced DEF ListName
<1>3. /\ list'["tobefnz"] = Tail(s) /\ list'["allgc"] = <<o>> \o list["allgc"]
      /\ list'["finobj"] = list["finobj"]
  <2> HIDE DEF o
  <2> QED BY <1>1, <1>2 DEF Lists, ListName
<1>4. o \in Elems(s) /\ o \in Obj /\ Elems(s) = {o} \cup Elems(Tail(s))
  BY <1>1, <1>2, HeadTailElems DEF Elems
<1>5. o \in Elems(list'["allgc"])
  <2> HIDE DEF o
  <2> QED BY <1>2, <1>3, <1>4, PrependProperties
<1>6. o \notin Elems(list'["tobefnz"])
  <2>1. Placement'
    BY PlacementCollector DEF CollectorStep
  <2>2. Elems(list["allgc"])' \cap Elems(list["tobefnz"])' = {}
    BY <2>1 DEF Placement, Placed, Apart, ListName
  <2>3. Elems(list'["allgc"]) \cap Elems(list'["tobefnz"]) = {}
    BY <2>2 DEF Elems
  <2> QED BY <1>5, <2>3
<1>7. /\ Elems(list["tobefnz"])' = Elems(list["tobefnz"]) \ {o}
      /\ Elems(list["finobj"])' = Elems(list["finobj"])
  <2>1. Elems(list'["tobefnz"]) = Elems(list["tobefnz"]) \ {o}
    BY <1>3, <1>4, <1>6
  <2> QED BY <1>3, <2>1 DEF Elems
<1> HIDE DEF o
<1>8. Allocated' = Allocated
  <2>1. mark[o] # "free" /\ currentwhite # "free"
    BY <1>2, <1>4 DEF Allocated, TypeInv, TypeOK, Whites
  <2> QED BY <1>1, <2>1 DEF Repainted, Allocated, TypeInv, TypeOK
<1>9. H!Finalize(o)
  <2>1. (at # "no")' = (at # "no")
    BY <1>1
  <2> HIDE DEF Elems
  <2> QED BY <1>1, <1>4, <1>7, <1>8, <2>1 DEF H!Finalize
<1> QED BY <1>4, <1>9 DEF HeapStep, H!Next

LEMMA QuietRefines ==
  ASSUME \/ SweepNothing \/ SweepNext \/ FinalizersEnd \/ FinishCycle \/ FullGCEnd
         \/ StopGC \/ RestartGC \/ UNCHANGED vars
  PROVE  HeapStep
<1> USE DEF heapVars, runVars
<1>1. UNCHANGED <<mark, fields, mode, owner, list, running, closing>>
  BY DEF SweepNothing, SweepNext, FinalizersEnd, FinishCycle, FullGCEnd, StopGC, RestartGC, vars
<1> QED BY <1>1, Unseen DEF Allocated

LEMMA CollectorRefines ==
  ASSUME TypeInv, Control, Placement, Sweeping, Safe, Weakness, Strength, CollectorStep
  PROVE  HeapStep
<1>1. CASE MarkingStep
  BY <1>1, MarkingRefines DEF Safe
<1>2. CASE AtomicEnd \/ SweepObject
  BY <1>2, SweepRefines
<1>3. CASE CallFinalizer \/ NextFinalizer
  BY <1>3, FinalizeRefines
<1>4. CASE SweepNothing \/ SweepNext \/ FinalizersEnd \/ FinishCycle \/ FullGCEnd
  BY <1>4, QuietRefines
<1> QED BY <1>1, <1>2, <1>3, <1>4 DEF CollectorStep, MarkingStep

-----------------------------------------------------------------------------
(* The program: what it writes it has at hand, or has just made *)

LEMMA RunRefines ==
  ASSUME at = "no", at' = "no", UNCHANGED closing, running' = running \/ running' \in H!Accessible,
         \A o \in Allocated \ Allocated' : o \notin H!Accessible,
         \A o \in Obj : mark'[o] # "free" =>
           /\ fields'[o] # fields[o] \/ mode'[o] # mode[o] => o \in H!Accessible \/ mark[o] = "free"
           /\ \A x \in Refs(o)' :
                x \in Refs(o) \/ x \in H!Accessible \/ mark[x] = "free" \/ Kind[x] = "string"
           /\ \/ owner'[o] \in {owner[o], running}
              \/ owner'[o] = Nil /\ (owner[o] = running \/ owner[o] \in Allocated \ Allocated'),
         Elems(list["finobj"]) \subseteq Elems(list'["finobj"]),
         Elems(list'["finobj"]) \subseteq Elems(list["finobj"]) \cup H!Accessible,
         Elems(list'["finobj"]) = Elems(list["finobj"]) \/ closing = "no",
         Elems(list'["tobefnz"]) = Elems(list["tobefnz"])
  PROVE  HeapStep
<1> DEFINE A == H!Accessible
<1>1. /\ \A o : H!Refs(o) = Refs(o) /\ H!Refs(o)' = Refs(o)'
  BY HeapNames DEF H!Refs, H!Objs, Refs, Objs
<1>2. \A x : mark[x] = "free" => x \notin Allocated
  BY DEF Allocated
<1>3. \A o \in Allocated' : o \in Obj /\ mark'[o] # "free"
  BY DEF Allocated
<1>4. /\ Elems(list["finobj"]) \subseteq Elems(list["finobj"])'
      /\ \A o \in Elems(list["finobj"])' \ Elems(list["finobj"]) : o \in A
      /\ Elems(list["finobj"])' # Elems(list["finobj"]) => closing = "no"
      /\ Elems(list["tobefnz"])' = Elems(list["tobefnz"])
  BY DEF Elems
<1>5. ~(at # "no") /\ (at # "no")' = (at # "no")
  OBVIOUS
<1> HIDE DEF Elems
<1>6. ASSUME NEW o \in Allocated'
      PROVE  /\ fields'[o] # fields[o] \/ mode'[o] # mode[o] => o \in A \/ o \notin Allocated
             /\ \A x \in H!Refs(o)' \ H!Refs(o) : x \in A \/ x \notin Allocated \/ Kind[x] = "string"
             /\ \/ owner'[o] \in {owner[o], running}
                \/ owner'[o] = Nil /\ (owner[o] = running \/ owner[o] \notin Allocated')
  BY <1>1, <1>2, <1>3, <1>6
<1>7. H!Run
  BY <1>4, <1>5, <1>6 DEF H!Run
<1> QED BY <1>7 DEF HeapStep, H!Next

\* one object o gets the content F, of what was in it or is in S
LEMMA WriteRefines ==
  ASSUME TypeOK, NEW o \in H!Accessible, NEW F, NEW S, fields' = [fields EXCEPT ![o] = F],
         \A e \in F : e \in fields[o] \/ Objs(e) \subseteq S,
         \A x \in S : x \in H!Accessible \/ mark[x] = "free" \/ Kind[x] = "string",
         UNCHANGED <<mode, owner, running, closing>>, at = "no", at' = "no",
         \A x \in Obj : mark'[x] = "free" => mark[x] = "free",
         list'["finobj"] = list["finobj"], list'["tobefnz"] = list["tobefnz"]
  PROVE  HeapStep
<1>1. /\ \A x \in Obj \ {o} : fields'[x] = fields[x]
      /\ o \in Obj => fields'[o] = F
  BY DEF TypeOK
<1>2. \A x \in Obj \ {o} : Refs(x)' = Refs(x)
  BY <1>1 DEF Refs
<1>3. o \in Obj => \A x \in Refs(o)' : x \in Refs(o) \/ x \in S
  BY <1>1 DEF Refs
<1>4. Allocated \ Allocated' = {}
  BY DEF Allocated
<1>5. \A x \in Obj : mark'[x] # "free" =>
           /\ fields'[x] # fields[x] \/ mode'[x] # mode[x] => x \in H!Accessible \/ mark[x] = "free"
           /\ \A y \in Refs(x)' :
                y \in Refs(x) \/ y \in H!Accessible \/ mark[y] = "free" \/ Kind[y] = "string"
           /\ owner'[x] \in {owner[x], running}
  BY <1>1, <1>2, <1>3
<1> QED BY <1>4, <1>5, RunRefines

LEMMA PushRefines ==
  ASSUME TypeInv,
         \/ \E o \in Obj : NewObject(o) \/ InternString(o)
         \/ \E o \in AtHand : \E v \in Readable(o) : Load(o, v)
         \/ \E o \in Regs : \E v \in Regs : Transfer(o, v)
  PROVE  HeapStep
<1> USE DEF heapVars, runVars, atomicVars
<1> DEFINE A == H!Accessible
<1>0. /\ TypeOK /\ list \in [ListName -> Seq(Obj)] /\ currentwhite # "free" /\ Nil \notin Obj
      /\ A \subseteq Obj
  BY SmallestClosed, ConstantsAssumption DEF TypeInv, TypeOK, Whites
<1>1. /\ running \in A /\ Regs \subseteq A /\ AtHand \subseteq A
      /\ \A o \in AtHand : Readable(o) \subseteq A
  BY <1>0, HandsAccessible
<1>2. /\ UNCHANGED <<mode, owner, running, closing>> /\ at = "no" /\ at' = "no"
  BY DEF NewObject, InternString, Load, Transfer, ProgramRuns
<1>3. /\ list'["finobj"] = list["finobj"] /\ list'["tobefnz"] = list["tobefnz"]
  <2>1. ASSUME NEW o \in Obj, list' = [list EXCEPT !["allgc"] = <<o>> \o @]
        PROVE  list'["finobj"] = list["finobj"] /\ list'["tobefnz"] = list["tobefnz"]
    BY <1>0, <2>1 DEF ListName
  <2> QED BY <2>1 DEF NewObject, InternString, Load, Transfer
<1>4. \A x \in Obj : mark'[x] = "free" => mark[x] = "free"
  BY <1>0 DEF NewObject, InternString, Load, Transfer, TypeOK
<1> HIDE DEF A
<1>5. ASSUME NEW t \in A, NEW v \in Obj, fields' = OnStack(t, v),
             v \in A \/ mark[v] = "free" \/ Kind[v] = "string"
      PROVE  HeapStep
  <2> DEFINE F == fields[t] \cup {<<Nil, v>>}
             S == {v}
  <2>1. fields' = [fields EXCEPT ![t] = F]
    BY <1>5 DEF OnStack
  <2>2. \A e \in F : e \in fields[t] \/ Objs(e) \subseteq S
    BY DEF Objs
  <2>3. \A x \in S : x \in A \/ mark[x] = "free" \/ Kind[x] = "string"
    BY <1>5
  <2> HIDE DEF F, S
  <2> QED BY <1>0, <1>2, <1>3, <1>4, <2>1, <2>2, <2>3, WriteRefines DEF A
<1>6. ASSUME NEW o \in Obj, NewObject(o) \/ InternString(o) PROVE HeapStep
  <2>1. fields' = OnStack(running, o) /\ (mark[o] = "free" \/ Kind[o] = "string")
    BY <1>6 DEF NewObject, InternString
  <2> QED BY <1>1, <1>5, <2>1
<1>7. ASSUME NEW o \in AtHand, NEW v \in Readable(o), Load(o, v) PROVE HeapStep
  BY <1>0, <1>1, <1>5, <1>7 DEF Load
<1>8. ASSUME NEW t \in Regs, NEW v \in Regs, Transfer(t, v) PROVE HeapStep
  BY <1>0, <1>1, <1>5, <1>8 DEF Transfer
<1> QED BY <1>6, <1>7, <1>8

LEMMA DropRefines ==
  ASSUME TypeInv, Shape,
         \/ \E v \in Refs(running) : Pop(v)
         \/ \E o \in AtHand : \E e \in fields[o] : ClearField(o, e)
         \/ FinalizerReturn
  PROVE  HeapStep
<1> USE DEF runVars, atomicVars
<1>0. TypeOK /\ running \in H!Accessible /\ AtHand \subseteq H!Accessible
  BY HandsAccessible DEF TypeInv
<1>1. UNCHANGED <<mark, mode, owner, list, running, closing>> /\ at = "no" /\ at' = "no"
  BY DEF Pop, ClearField, FinalizerReturn, ProgramRuns
<1>2. ASSUME NEW o \in H!Accessible, NEW F \in SUBSET fields[o], fields' = [fields EXCEPT ![o] = F]
      PROVE  HeapStep
  <2> DEFINE S == {}
  <2>1. /\ \A e \in F : e \in fields[o] \/ Objs(e) \subseteq S
        /\ \A x \in S : x \in H!Accessible \/ mark[x] = "free" \/ Kind[x] = "string"
    OBVIOUS
  <2> HIDE DEF S
  <2> QED BY <1>0, <1>1, <1>2, <2>1, WriteRefines
<1>3. ASSUME NEW v, Pop(v) PROVE HeapStep
  <2>1. fields' = [fields EXCEPT ![running] = fields[running] \ {<<Nil, v>>}]
    BY <1>3 DEF Pop
  <2> QED BY <1>0, <1>2, <2>1
<1>4. ASSUME NEW o \in AtHand, NEW e, ClearField(o, e) PROVE HeapStep
  <2>1. fields' = [fields EXCEPT ![o] = fields[o] \ {e}]
    BY <1>4 DEF ClearField
  <2> QED BY <1>0, <1>2, <2>1
<1>5. CASE FinalizerReturn
  <2>1. fields' = [fields EXCEPT ![running] = savedtop] /\ savedtop \in SUBSET fields[running]
    BY <1>5 DEF FinalizerReturn, Shape
  <2> QED BY <1>0, <1>2, <2>1
<1> QED BY <1>3, <1>4, <1>5

LEMMA StoreRefines ==
  ASSUME TypeInv,
         \/ \E o \in AtHand : \E e \in Slots[o] : SetField(o, e)
         \/ \E o \in Regs : \/ \E v \in Regs \cup OpenUpvals(running) : SetClosure(o, v)
                            \/ \E u \in ObjOfKind({"upval"}), v \in Regs : SetUpval(o, u, v)
  PROVE  HeapStep
<1> USE DEF runVars, atomicVars, sweepVars
<1> DEFINE A == H!Accessible
<1>0. /\ TypeOK /\ Nil \notin Obj /\ A \subseteq Obj /\ Regs \subseteq A /\ AtHand \subseteq A
      /\ OpenUpvals(running) \subseteq A /\ \A o \in A : Refs(o) \subseteq A
  <2>1. TypeOK /\ Nil \notin Obj
    BY ConstantsAssumption DEF TypeInv
  <2>2. Closed(A) /\ A \subseteq Obj
    BY <2>1, SmallestClosed
  <2> HIDE DEF A
  <2>3. \A o \in A : Refs(o) \subseteq A
    BY <2>2 DEF Closed, Succ
  <2> QED BY <2>1, <2>2, <2>3, HandsAccessible DEF A
<1>1. UNCHANGED <<mode, owner, list, running, closing, gcstate, currentwhite>> /\ at = "no" /\ at' = "no"
  BY DEF SetField, SetClosure, SetUpval, ProgramRuns
<1>2. Tinted => \A x \in Obj : mark'[x] = "free" => mark[x] = "free"
  BY <1>1, TintedLive
<1> HIDE DEF A
<1>3. ASSUME NEW o \in AtHand, NEW e \in Slots[o], SetField(o, e) PROVE HeapStep
  <2> DEFINE old  == {x \in fields[o] : e[1] # Nil /\ x[1] = e[1]}
             news == IF old = {} THEN Objs(e) ELSE {e[2]} \ {Nil}
             F    == (fields[o] \ old) \cup {e}
  <2>1. /\ Objs(e) \subseteq AtHand /\ fields' = [fields EXCEPT ![o] = F] /\ BarrierBack(o, news)
    BY <1>3 DEF SetField
  <2>2. \A x \in F : x \in fields[o] \/ Objs(x) \subseteq AtHand
    BY <2>1
  <2> HIDE DEF F, news
  <2>3. o \in A /\ o \in Obj
    BY <1>0
  <2>4. Tinted
    BY <2>1, <2>3, BarrierBackTints
  <2> QED BY <1>0, <1>1, <1>2, <2>1, <2>2, <2>3, <2>4, WriteRefines DEF A
<1>4. ASSUME NEW o \in A, NEW v \in A, fields' = [fields EXCEPT ![o] = {<<Nil, v>>}], Barrier(o, v)
      PROVE  HeapStep
  <2> DEFINE F == {<<Nil, v>>}
             S == {v}
  <2>1. (\A e \in F : Objs(e) \subseteq S) /\ S \subseteq A
    BY DEF Objs
  <2>2. Tinted
    BY <1>0, <1>1, <1>4, BarrierTints
  <2>3. fields' = [fields EXCEPT ![o] = F]
    BY <1>4
  <2> HIDE DEF F, S
  <2> QED BY <1>0, <1>1, <1>2, <2>1, <2>2, <2>3, WriteRefines DEF A
<1>5. ASSUME NEW c \in Regs, NEW v \in Regs \cup OpenUpvals(running), SetClosure(c, v) PROVE HeapStep
  BY <1>0, <1>4, <1>5 DEF SetClosure
<1>6. ASSUME NEW c \in Regs, NEW u, NEW v \in Regs, SetUpval(c, u, v) PROVE HeapStep
  BY <1>0, <1>4, <1>6 DEF SetUpval
<1> QED BY <1>3, <1>5, <1>6

LEMMA SwitchRefines ==
  ASSUME TypeInv, \/ Yield
                  \/ \E t \in Regs : Resume(t)
                  \/ \E t \in AtHand : \E m \in WeakModes[t] : SetMode(t, m)
  PROVE  HeapStep
<1> USE DEF heapVars, runVars, atomicVars
<1>0. /\ TypeOK /\ MainThread \in H!Accessible /\ Regs \subseteq H!Accessible /\ AtHand \subseteq H!Accessible
  BY HandsAccessible DEF TypeInv
<1>1. /\ at = "no" /\ at' = "no" /\ UNCHANGED <<mark, fields, owner, list, closing>>
      /\ running' = running \/ running' \in H!Accessible
  BY <1>0 DEF Yield, Resume, SetMode, ProgramRuns
<1>2. \A o \in Obj : mode'[o] # mode[o] => o \in H!Accessible
  BY <1>0 DEF Yield, Resume, SetMode, TypeOK
<1>3. Allocated' = Allocated /\ \A o \in Obj : Refs(o)' = Refs(o)
  BY <1>1 DEF Allocated, Refs
<1> QED BY <1>1, <1>2, <1>3, RunRefines

LEMMA UpvalRefines ==
  ASSUME TypeInv, Placement, Safe,
         \/ \E c \in Regs, u \in Obj, v \in Regs : NewUpval(c, u, v)
         \/ \E u \in OpenUpvals(running) : CloseUpval(u)
  PROVE  HeapStep
<1> USE DEF runVars, atomicVars, sweepVars
<1> DEFINE A == H!Accessible
<1>0. /\ TypeOK /\ running \in A /\ Regs \subseteq A /\ list \in [ListName -> Seq(Obj)]
      /\ mark \in [Obj -> Colours] /\ currentwhite # "free" /\ owner \in [Obj -> Obj \cup {Nil}]
      /\ running \in Obj
  BY HandsAccessible DEF TypeInv, TypeOK, Whites
<1> HIDE DEF A
<1>1. ASSUME NEW c \in Regs, NEW u \in Obj, NEW v \in Regs, NewUpval(c, u, v) PROVE HeapStep
  <2>1. /\ u \notin {c, running} /\ c # running /\ mark[u] = "free"
        /\ running' = running /\ c \in Obj /\ c \in A /\ v \in A
        /\ \A x \in Obj \ {u, c, running} : fields'[x] = fields[x] /\ Refs(x)' = Refs(x)
        /\ owner'[u] = running /\ \A x \in Obj \ {u} : owner'[x] = owner[x]
        /\ Refs(u)' = {v} /\ Succ(c)' = {u} /\ Refs(running)' \subseteq Refs(running)
    BY <1>0, <1>1, NewUpvalMeans DEF Live
  <2>2. Refs(c)' \subseteq {u}
    BY <2>1 DEF Succ
  <2>3. /\ at = "no" /\ at' = "no" /\ UNCHANGED <<closing, mode>>
        /\ list' = [list EXCEPT !["allgc"] = <<u>> \o @]
    BY <1>1 DEF NewUpval, ProgramRuns
  <2>4. list'["finobj"] = list["finobj"] /\ list'["tobefnz"] = list["tobefnz"]
    BY <1>0, <2>3 DEF ListName
  <2>5. \A x \in Obj : mark'[x] = "free" => mark[x] = "free"
    <3> DEFINE g == [mark EXCEPT ![u] = "gray"]
    <3>1. CASE mark' = [mark EXCEPT ![u] = currentwhite]
                \/ mark' = [[mark EXCEPT ![u] = currentwhite] EXCEPT ![c] = currentwhite]
      BY <1>0, <2>1, <3>1
    <3>2. CASE mark' = Marked(g, {v})
      <4>1. g \in Heaps /\ {v} \in SUBSET Obj /\ \A x \in Obj : g[x] = "free" => mark[x] = "free"
        BY <1>0, <2>1, SmallestClosed DEF Heaps, Colours, A
      <4> HIDE DEF g
      <4>2. \A x \in Obj : mark'[x] = g[x] \/ mark'[x] \in {"gray", "black"}
        BY <3>2, <4>1, MarkedDarker
      <4> QED BY <4>1, <4>2
    <3> QED BY <1>1, <3>1, <3>2 DEF NewUpval
  <2>6. Allocated \ Allocated' = {}
    BY <2>5 DEF Allocated
  <2>7. \A x \in Obj :
          /\ fields'[x] # fields[x] \/ mode'[x] # mode[x] => x \in A \/ mark[x] = "free"
          /\ \A y \in Refs(x)' : y \in Refs(x) \/ y \in A \/ mark[y] = "free" \/ Kind[y] = "string"
          /\ owner'[x] \in {owner[x], running}
    BY <1>0, <2>1, <2>2, <2>3
  <2> QED BY <2>1, <2>3, <2>4, <2>6, <2>7, RunRefines DEF A
<1>2. ASSUME NEW u \in OpenUpvals(running), CloseUpval(u) PROVE HeapStep
  <2>1. /\ at = "no" /\ at' = "no" /\ UNCHANGED <<fields, mode, list, running, closing, gcstate, currentwhite>>
        /\ owner' = [owner EXCEPT ![u] = Nil] /\ CloseBarrier(u) /\ owner[u] = running /\ u \in Obj
    BY <1>2 DEF CloseUpval, ProgramRuns, OpenUpvals
  <2>2. mark[u] # "free"
    BY <1>0, <2>1, ConstantsAssumption DEF Placement
  <2>3. \A x \in Obj : mark'[x] = "free" => mark[x] = "free"
    BY <2>1, <2>2, CloseBarrierTints, TintedLive
  <2>4. Allocated \ Allocated' = {}
    BY <2>3 DEF Allocated
  <2>5. \A x \in Obj : owner'[x] = owner[x] \/ (owner'[x] = Nil /\ owner[x] = running)
    BY <1>0, <2>1
  <2>6. \A x \in Obj : Refs(x)' = Refs(x)
    BY <2>1 DEF Refs
  <2> QED BY <2>1, <2>4, <2>5, <2>6, RunRefines
<1> QED BY <1>1, <1>2

\* an object gets a finalizer; a sweep that stood at it has moved on, and may
\* have freed what was dead behind it
LEMMA CheckFinalizerRefines ==
  ASSUME TypeInv, Control, Placement, Safe, NEW o \in Regs, CheckFinalizer(o)
  PROVE  HeapStep
<1> USE DEF runVars, atomicVars
<1> DEFINE p     == sweepgc
           r     == SweepToLive(p)
           lists == IF SweptLast(o) THEN r.list ELSE list
           s     == lists["allgc"]
<1>0. /\ TypeOK /\ Closed(Live) /\ o \in H!Accessible /\ o \in Obj /\ mark[o] # "free"
      /\ currentwhite # "free" /\ list \in Lists
  <2>1. TypeOK /\ Closed(Live) /\ currentwhite # "free"
    BY DEF TypeInv, Safe, TypeOK, Whites
  <2>2. o \in H!Accessible
    BY <2>1, HandsAccessible
  <2> QED BY <2>1, <2>2, SmallestClosed, AccessibleLive, MainThreadPlaced
<1>1. /\ at = "no" /\ at' = "no" /\ closing # "done" /\ "cls" \notin gcstp /\ o \in Elems(s)
      /\ UNCHANGED <<running, closing>>
      /\ list' = [lists EXCEPT !["allgc"] = Unlinked(s, Index(s, o)), !["finobj"] = <<o>> \o @]
  BY DEF CheckFinalizer, ProgramRuns
<1>2. closing = "no"
  BY <1>1 DEF Control
<1>3. ASSUME lists \in Lists, lists["finobj"] = list["finobj"], lists["tobefnz"] = list["tobefnz"]
      PROVE  /\ Elems(list'["finobj"]) = Elems(list["finobj"]) \cup {o}
             /\ list'["tobefnz"] = list["tobefnz"]
  <2> HIDE DEF s, lists
  <2>1. list'["finobj"] = <<o>> \o list["finobj"] /\ list'["tobefnz"] = list["tobefnz"]
        /\ list["finobj"] \in Seq(Obj)
    BY <1>0, <1>1, <1>3 DEF Lists, ListName
  <2> QED BY <1>0, <2>1, PrependProperties
<1>4. CASE ~SweptLast(o)
  <2>1. mark' = Repainted(o) /\ UNCHANGED <<fields, owner, mode>> /\ lists = list
    BY <1>4 DEF CheckFinalizer
  <2>2. \A x \in Obj : mark'[x] = "free" <=> mark[x] = "free"
    BY <1>0, <2>1 DEF Repainted, TypeOK
  <2>3. Allocated' = Allocated /\ \A x \in Obj : Refs(x)' = Refs(x)
    BY <2>1, <2>2 DEF Allocated, Refs
  <2> HIDE DEF s, lists
  <2>4. /\ Elems(list'["finobj"]) = Elems(list["finobj"]) \cup {o}
        /\ list'["tobefnz"] = list["tobefnz"]
    BY <1>0, <1>3, <2>1
  <2> QED BY <1>0, <1>1, <1>2, <2>1, <2>3, <2>4, RunRefines
<1>5. CASE SweptLast(o)
  <2> DEFINE D == r.dead
             W == r.live \cup {o}
  <2>1. Swept(r.dead, r.live \cup {o}) /\ IsSweepPhase /\ lists = r.list /\ p = o
    BY <1>5 DEF CheckFinalizer, SweptLast
  <2>2. \E l \in ListName : p \in Elems(list[l])
    BY <1>0, <1>1, <2>1 DEF TypeInv, SweepgcLinked
  <2>3. ~IsDead(MainThread) /\ Placed(list, Allocated, tofin) /\ Apart(list)
    BY <2>1 DEF Placement, MainKept, Placed
  <2>4. r = SweepToLive(p)
    OBVIOUS
  <2> HIDE DEF r, p
  <2>5. /\ r.list \in Lists
        /\ \A x \in r.dead : IsDead(x) /\ x \in Allocated
        /\ r.live \subseteq Allocated
        /\ Elems(r.list[ListOf(p)]) = Elems(list[ListOf(p)]) \ r.dead
        /\ \A l \in ListName \ {ListOf(p)} : r.list[l] = list[l]
    BY <1>0, <2>2, <2>3, <2>4, SweepToLivePlaced
  <2> HIDE DEF lists
  <2>6. ListOf(p) = "allgc"
    <3>1. o \in Elems(list["allgc"])
      BY <1>1, <2>1, <2>5 DEF ListName
    <3> DEFINE l == "allgc"
    <3>2. l \in ListName /\ p \in Elems(list[l])
      BY <2>1, <3>1 DEF ListName
    <3> HIDE DEF l
    <3>3. ListOf(p) = l
      BY <1>0, <2>3, <3>2, AheadIndex
    <3> QED BY <3>3 DEF l
  <2>7. /\ Elems(list'["finobj"]) = Elems(list["finobj"]) \cup {o}
        /\ list'["tobefnz"] = list["tobefnz"]
    <3>1. lists \in Lists /\ lists["finobj"] = list["finobj"] /\ lists["tobefnz"] = list["tobefnz"]
      BY <2>1, <2>5, <2>6 DEF ListName
    <3> HIDE DEF s
    <3> QED BY <1>3, <3>1
  <2>8. D \in SUBSET Allocated /\ W \in SUBSET Allocated /\ Swept(D, W) /\ \A x \in D : IsDead(x)
    BY <1>0, <2>1, <2>5 DEF Allocated
  <2> HIDE DEF D, W, s
  <2>9. Allocated' = Allocated \ D
    BY <1>0, <2>8, SweptMarks DEF Placement, Allocated
  <2>10. /\ fields' = [x \in Obj |-> IF x \in D THEN {} ELSE fields[x]]
         /\ owner'  = [x \in Obj |-> IF x \in D \/ owner[x] \in D THEN Nil ELSE owner[x]]
         /\ mode'   = [x \in Obj |-> IF x \in D THEN "strong" ELSE mode[x]]
    BY <2>8 DEF Swept
  <2>11. Allocated \ Allocated' = D /\ \A x \in D : x \notin H!Accessible
    BY <1>0, <2>1, <2>8, <2>9, AccessibleLive
  <2>12. \A x \in Obj : mark'[x] # "free" => x \notin D
    BY <2>9 DEF Allocated
  <2>13. \A x \in Obj : mark'[x] # "free" =>
           /\ fields'[x] = fields[x] /\ mode'[x] = mode[x] /\ Refs(x)' = Refs(x)
           /\ owner'[x] = owner[x] \/ (owner'[x] = Nil /\ owner[x] \in D)
    BY <2>10, <2>12 DEF Refs
  <2> QED BY <1>0, <1>1, <1>2, <2>7, <2>11, <2>13, RunRefines
<1> QED BY <1>4, <1>5

-----------------------------------------------------------------------------
(* lua_close *)

\* once the state closes no object is marked for finalization
Shut == closing # "no" => Elems(list["finobj"]) = {}

LEMMA EmptyElems ==
  ASSUME NEW s, s = <<>>
  PROVE  Elems(s) = {}
<1>1. s \in Seq(Obj) /\ Len(s) = 0
  OBVIOUS
<1>2. DOMAIN s = 1 .. 0
  BY <1>1
<1> QED BY <1>2 DEF Elems

LEMMA CloseRefines ==
  ASSUME TypeInv, CloseState
  PROVE  HeapStep
<1> USE DEF sweepVars, atomicVars
<1>1. /\ closing = "no" /\ closing' = "finalizers" /\ fields' = [fields EXCEPT ![MainThread] = {}]
      /\ list' = [list EXCEPT !["finobj"] = <<>>, !["tobefnz"] = list["tobefnz"] \o list["finobj"]]
      /\ UNCHANGED <<mark, mode, owner, running, at>>
  BY DEF CloseState
<1>2. list["finobj"] \in Seq(Obj) /\ list["tobefnz"] \in Seq(Obj) /\ list \in [ListName -> Seq(Obj)]
  BY DEF TypeInv, TypeOK, ListName
<1>3. list'["finobj"] = <<>> /\ list'["tobefnz"] = list["tobefnz"] \o list["finobj"]
  BY <1>1, <1>2 DEF ListName
<1>4. Elems(list'["tobefnz"]) = Elems(list["tobefnz"]) \cup Elems(list["finobj"])
  BY <1>2, <1>3, ConcatElems
<1>5. Elems(list["tobefnz"])' = Elems(list["tobefnz"]) \cup Elems(list["finobj"]) /\ Elems(list["finobj"])' = {}
  <2>1. Elems(list'["finobj"]) = {}
    BY <1>3, EmptyElems
  <2> QED BY <2>1, <1>4 DEF Elems
<1>6. Allocated' = Allocated /\ (at # "no")' = (at # "no")
  BY <1>1 DEF Allocated
<1> HIDE DEF Elems
<1>7. H!Close
  BY <1>1, <1>5, <1>6 DEF H!Close
<1> QED BY <1>7 DEF HeapStep, H!Next

LEMMA DestroyRefines ==
  ASSUME TypeInv, Placement, Shut, DeleteAll
  PROVE  HeapStep
<1> USE DEF sweepVars, atomicVars
<1> DEFINE s == list["allgc"]
           n == Index(s, MainThread)
           D == {s[i] : i \in 1 .. n-1}
<1>1. /\ closing = "finalizers" /\ closing' = "done" /\ list["tobefnz"] = <<>>
      /\ mark' = [o \in Obj |-> IF o \in D THEN "free" ELSE mark[o]]
      /\ list' = [list EXCEPT !["allgc"] = SubSeq(s, n, Len(s))]
      /\ UNCHANGED <<running, at>>
  BY DEF DeleteAll
<1>2. /\ list \in Lists /\ s \in Seq(Obj) /\ Distinct(s) /\ s # <<>> /\ s[Len(s)] = MainThread
      /\ UNION {Elems(list[l]) : l \in ListName} = Allocated
  BY MainThreadPlaced DEF Placement, Placed, Apart, ListName
<1>3. Elems(list["finobj"]) = {} /\ Elems(list["tobefnz"]) = {}
  BY <1>1, EmptyElems DEF Shut
<1>4. Allocated = Elems(s)
  <2>1. \A x : x \in Allocated <=> \E l \in ListName : x \in Elems(list[l])
    BY <1>2
  <2>2. \A x : x \in Allocated <=> x \in Elems(s)
    BY <1>3, <2>1 DEF ListName
  <2> QED BY <2>2
<1>5. list'["finobj"] = list["finobj"] /\ list'["tobefnz"] = list["tobefnz"]
  <2> HIDE DEF n
  <2> QED BY <1>1, <1>2 DEF Lists, ListName
<1>6. Allocated' = {MainThread}
  <2> HIDE DEF s
  <2>1. Len(s) \in Nat /\ Len(s) \in DOMAIN s /\ DOMAIN s = 1 .. Len(s)
    BY <1>2
  <2>2. MainThread \in Elems(s)
    BY <1>2, <2>1 DEF Elems
  <2>3. n \in 1 .. Len(s) /\ s[n] = MainThread
    BY <1>2, <2>2, IndexProperties
  <2>4. n = Len(s)
    BY <1>2, <2>1, <2>3 DEF Distinct
  <2>5. \A x : x \in Elems(s) <=> x \in D \/ x = MainThread
    <3>1. \A i \in 1 .. Len(s) : i \in 1 .. n-1 \/ i = n
      BY <2>3, <2>4
    <3> HIDE DEF n
    <3>2. \A x : x \in Elems(s) <=> \E i \in 1 .. Len(s) : x = s[i]
      BY <2>1 DEF Elems
    <3>3. \A x : x \in D <=> \E i \in 1 .. n-1 : x = s[i]
      OBVIOUS
    <3>4. \A i \in 1 .. n-1 : i \in 1 .. Len(s)
      BY <2>1, <2>4
    <3> HIDE DEF D, Elems
    <3> QED BY <2>3, <3>1, <3>2, <3>3, <3>4
  <2>6. MainThread \notin D
    <3>1. \A i \in 1 .. n-1 : i \in DOMAIN s /\ i # n
      BY <2>1, <2>3
    <3> HIDE DEF n
    <3> QED BY <1>2, <2>1, <2>3, <3>1 DEF Distinct
  <2> HIDE DEF D, n
  <2>7. Allocated' = Allocated \ D
    BY <1>1 DEF Allocated
  <2> QED BY <1>4, <2>5, <2>6, <2>7
<1> HIDE DEF D, n, s
<1>7. /\ Elems(list["finobj"])' = Elems(list["finobj"]) /\ Elems(list["tobefnz"])' = Elems(list["tobefnz"])
      /\ (at # "no")' = (at # "no")
  BY <1>1, <1>5 DEF Elems
<1>8. H!Destroy
  <2> HIDE DEF Elems
  <2> QED BY <1>1, <1>3, <1>6, <1>7 DEF H!Destroy
<1> QED BY <1>8 DEF HeapStep, H!Next

LEMMA ShutStep ==
  ASSUME Shut, HeapStep
  PROVE  Shut'
<1> DEFINE due == Elems(list["finobj"])
<1>1. CASE UNCHANGED H!vars
  <2>1. due' = due /\ closing' = closing
    <3> HIDE DEF Elems
    <3> QED BY <1>1 DEF H!vars
  <2> QED BY <2>1 DEF Shut
<1>2. CASE H!Run \/ H!Suspend \/ H!Free \/ H!ClearWeak
  <2>1. closing' = closing /\ (due' # due => closing = "no")
    BY <1>2 DEF H!Run, H!Suspend, H!Free, H!ClearWeak
  <2> QED BY <2>1 DEF Shut
<1>3. CASE H!Close \/ H!Destroy
  <2>1. due' = {} \/ (due' = due /\ due = {})
    BY <1>3 DEF H!Close, H!Destroy
  <2> QED BY <2>1 DEF Shut
<1>4. ASSUME NEW o, H!Condemn(o) \/ H!Finalize(o) PROVE Shut'
  <2>1. closing' = closing /\ due' \subseteq due
    BY <1>4 DEF H!Condemn, H!Finalize
  <2> QED BY <2>1 DEF Shut
<1> QED BY <1>1, <1>2, <1>3, <1>4 DEF HeapStep, H!Next

-----------------------------------------------------------------------------
(* The program's steps together *)

LEMMA ProgramRefines ==
  ASSUME TypeInv, Control, Placement, Sweeping, Safe, ProgramStep
  PROVE  HeapStep
<1>1. CASE \/ \E o \in Obj : NewObject(o) \/ InternString(o)
           \/ \E o \in AtHand : \E v \in Readable(o) : Load(o, v)
           \/ \E o \in Regs : \E v \in Regs : Transfer(o, v)
  BY <1>1, PushRefines
<1>2. CASE \/ \E v \in Refs(running) : Pop(v)
           \/ \E o \in AtHand : \E e \in fields[o] : ClearField(o, e)
           \/ FinalizerReturn
  BY <1>2, DropRefines DEF Safe
<1>3. CASE \/ \E o \in AtHand : \E e \in Slots[o] : SetField(o, e)
           \/ \E o \in Regs : \/ \E v \in Regs \cup OpenUpvals(running) : SetClosure(o, v)
                              \/ \E u \in ObjOfKind({"upval"}), v \in Regs : SetUpval(o, u, v)
  BY <1>3, StoreRefines
<1>4. CASE \/ Yield
           \/ \E t \in Regs : Resume(t)
           \/ \E t \in AtHand : \E m \in WeakModes[t] : SetMode(t, m)
  BY <1>4, SwitchRefines
<1>5. CASE \/ \E c \in Regs, u \in ObjOfKind({"upval"}), v \in Regs : NewUpval(c, u, v)
           \/ \E u \in OpenUpvals(running) : CloseUpval(u)
  BY <1>5, UpvalRefines DEF ObjOfKind
<1>6. CASE \E o \in Regs : CheckFinalizer(o)
  BY <1>6, CheckFinalizerRefines
<1>7. CASE \E emergency \in BOOLEAN : FullGC(emergency)
  BY <1>7, SweepRefines
<1>8. CASE StopGC \/ RestartGC
  BY <1>8, QuietRefines
<1>9. CASE CloseState
  BY <1>9, CloseRefines
<1> QED BY <1>1, <1>2, <1>3, <1>4, <1>5, <1>6, <1>7, <1>8, <1>9 DEF ProgramStep

-----------------------------------------------------------------------------
(* What is known of weak tables lasts from one step to the next *)

LEMMA WeaknessRest ==
  ASSUME Weakness, at = "no", at' = "no", UNCHANGED allweak,
         KeepInvariant' => KeepInvariant /\ \A t \in allweak : mode'[t] = mode[t]
  PROVE  Weakness' /\ Strength'
  BY DEF Weakness, Strength

LEMMA WeaknessCollector ==
  ASSUME TypeInv, Control, Placement, Sweeping, Safe, Weakness, Strength, CollectorStep
  PROVE  Weakness' /\ Strength'
<1> USE DEF heapVars, sweepVars, grayVars, atomicVars, runVars
<1>1. CASE MarkingStep
  BY <1>1, WeaknessMarking, MarkingRefines DEF Safe
<1>2. CASE AtomicEnd
  <2>1. ~KeepInvariant' /\ at' = "no"
    BY <1>2 DEF AtomicEnd, EnterSweep, KeepInvariant
  <2> QED BY <2>1 DEF Weakness, Strength
<1>3. CASE SweepObject \/ SweepNothing \/ SweepNext \/ FinishCycle \/ FullGCEnd
  <2>1. at = "no" /\ at' = "no" /\ UNCHANGED allweak
    BY <1>3 DEF SweepObject, SweepNothing, SweepNext, FinishCycle, FullGCEnd, CollectorRuns
  <2>2. ~KeepInvariant'
    BY <1>3 DEF SweepObject, SweepNothing, SweepNext, FinishCycle, FullGCEnd, KeepInvariant
  <2> QED BY <2>1, <2>2, WeaknessRest
<1>4. CASE CallFinalizer \/ NextFinalizer \/ FinalizersEnd
  <2>1. at = "no" /\ UNCHANGED <<at, allweak, mode, gcstate>>
    BY <1>4 DEF CallFinalizer, NextFinalizer, FinalizersEnd, GCTM, CollectorRuns, Control
  <2> QED BY <2>1, WeaknessRest DEF KeepInvariant
<1> QED BY <1>1, <1>2, <1>3, <1>4 DEF CollectorStep, MarkingStep

\* a table that waits in allweak to be cleared keeps its mode
Steadily == KeepInvariant => \A t \in allweak, m \in Modes : ~SetMode(t, m)

LEMMA WeaknessProgram ==
  ASSUME TypeInv, Weakness, Steadily, ProgramStep
  PROVE  Weakness' /\ Strength'
<1> USE DEF heapVars, sweepVars, grayVars, atomicVars, runVars
<1>1. CASE \/ \E o \in Obj : NewObject(o) \/ InternString(o)
           \/ \E v \in Refs(running) : Pop(v)
           \/ \E o \in AtHand : \E v \in Readable(o) : Load(o, v)
           \/ \E o \in Regs : \E v \in Regs : Transfer(o, v)
           \/ \E o \in AtHand : \E e \in fields[o] : ClearField(o, e)
  <2>1. at = "no" /\ UNCHANGED <<at, allweak, mode, gcstate>>
    BY <1>1 DEF NewObject, InternString, Pop, Load, Transfer, ClearField, ProgramRuns
  <2> QED BY <2>1, WeaknessRest DEF KeepInvariant
<1>2. CASE \/ \E o \in AtHand : \E e \in Slots[o] : SetField(o, e)
           \/ \E o \in Regs : \/ \E v \in Regs \cup OpenUpvals(running) : SetClosure(o, v)
                              \/ \E u \in ObjOfKind({"upval"}), v \in Regs :
                                   NewUpval(o, u, v) \/ SetUpval(o, u, v)
           \/ \E u \in OpenUpvals(running) : CloseUpval(u)
  <2>1. CASE \/ \E o \in AtHand : \E e \in Slots[o] : SetField(o, e)
             \/ \E o \in Regs : \E v \in Regs \cup OpenUpvals(running) : SetClosure(o, v)
             \/ \E u \in OpenUpvals(running) : CloseUpval(u)
    <3>1. at = "no" /\ UNCHANGED <<at, allweak, mode, gcstate>>
      BY <2>1 DEF SetField, SetClosure, CloseUpval, ProgramRuns
    <3> QED BY <3>1, WeaknessRest DEF KeepInvariant
  <2>2. CASE \E o \in Regs : \E u \in ObjOfKind({"upval"}), v \in Regs :
               NewUpval(o, u, v) \/ SetUpval(o, u, v)
    <3>1. at = "no" /\ UNCHANGED <<at, allweak, mode, gcstate>>
      BY <2>2 DEF NewUpval, SetUpval, ProgramRuns
    <3> QED BY <3>1, WeaknessRest DEF KeepInvariant
  <2> QED BY <1>2, <2>1, <2>2
<1>3. CASE \/ Yield
           \/ \E t \in Regs : Resume(t)
           \/ StopGC \/ RestartGC \/ FinalizerReturn \/ CloseState
  <2>1. at = "no" /\ UNCHANGED <<at, allweak, mode, gcstate>>
    BY <1>3 DEF Yield, Resume, StopGC, RestartGC, FinalizerReturn, CloseState, ProgramRuns
  <2> QED BY <2>1, WeaknessRest DEF KeepInvariant
<1>4. CASE \E o \in Regs : CheckFinalizer(o)
  <2>1. PICK o \in Regs : CheckFinalizer(o)
    BY <1>4
  <2>2. at = "no" /\ UNCHANGED <<at, allweak, gcstate>> /\ (~SweptLast(o) => mode' = mode)
    BY <2>1 DEF CheckFinalizer, ProgramRuns
  <2>3. KeepInvariant' => KeepInvariant /\ mode' = mode
    BY <2>2 DEF SweptLast, KeepInvariant, IsSweepPhase
  <2> QED BY <2>2, <2>3, WeaknessRest
<1>5. CASE \E emergency \in BOOLEAN : FullGC(emergency)
  <2>1. at = "no" /\ UNCHANGED <<at, allweak>>
    BY <1>5 DEF FullGC, ProgramRuns
  <2>2. ~KeepInvariant'
    BY <1>5 DEF FullGC, EnterSweep, KeepInvariant
  <2> QED BY <2>1, <2>2, WeaknessRest
<1>6. CASE \E t \in AtHand : \E m \in WeakModes[t] : SetMode(t, m)
  <2>1. PICK t \in AtHand : \E m \in WeakModes[t] : SetMode(t, m)
    BY <1>6
  <2>2. PICK m \in WeakModes[t] : SetMode(t, m)
    BY <2>1
  <2>3. at = "no" /\ UNCHANGED <<at, allweak, gcstate>> /\ mode' = [mode EXCEPT ![t] = m]
    BY <2>2 DEF SetMode, ProgramRuns
  <2>4. mode \in [Obj -> Modes] /\ allweak \subseteq Obj /\ t \in Obj
    BY HandsAccessible, SmallestClosed DEF TypeInv, TypeOK
  <2>5. m \in Modes
    BY <2>2, <2>4, ConstantsAssumption
  <2>6. KeepInvariant => t \notin allweak
    BY <2>2, <2>5 DEF Steadily
  <2>7. KeepInvariant' => KeepInvariant /\ \A x \in allweak : mode'[x] = mode[x]
    BY <2>3, <2>4, <2>6 DEF KeepInvariant
  <2> QED BY <2>3, <2>7, WeaknessRest
<1> QED BY <1>1, <1>2, <1>3, <1>4, <1>5, <1>6 DEF ProgramStep

-----------------------------------------------------------------------------
(* The refinement *)

\* what the invariant of LuaGC_safety needs besides, for the steps to refine
Held   == Orderly /\ closing # "done" => Weakness /\ Strength
RefInv == SafeInv /\ Held /\ (Orderly => Shut)

LEMMA RefInit == Init => RefInv /\ H!Init
<1> SUFFICES ASSUME Init PROVE RefInv /\ H!Init
  OBVIOUS
<1>1. MainThread \in Obj /\ RootTables \subseteq Obj
  BY ConstantsAssumption DEF ObjOfKind
<1>2. list["finobj"] = <<>> /\ list["tobefnz"] = <<>>
  BY DEF Init, ListName
<1>3. Elems(list["finobj"]) = {} /\ Elems(list["tobefnz"]) = {}
  BY <1>2, EmptyElems
<1>4. Allocated = {MainThread} \cup RootTables
  BY <1>1 DEF Init, Allocated
<1>5. H!Init
  <2> HIDE DEF Elems
  <2> QED BY <1>3, <1>4 DEF Init, H!Init
<1>6. ~KeepInvariant /\ at = "no" /\ closing = "no"
  BY DEF Init, KeepInvariant
<1>7. Held /\ Shut
  BY <1>6 DEF Held, Shut, Weakness, Strength
<1> QED BY <1>5, <1>7, SafeInvInit DEF RefInv

LEMMA RefStep ==
  ASSUME RefInv, Orderly, Orderly', [Next /\ Steadily]_vars
  PROVE  RefInv' /\ HeapStep
<1>0. /\ TypeInv /\ Control /\ Placement /\ Sweeping /\ SafeInv' /\ [Next]_vars /\ Shut
      /\ closing # "done" => Safe /\ Weakness /\ Strength
      /\ closing = "done" => finalizing = "no"
  BY SafeInvStep DEF RefInv, Held, SafeInv, SweepInv
<1>1. HeapStep /\ Held'
  <2>1. CASE UNCHANGED vars
    <3>1. closing # "done" => Weakness' /\ Strength'
      BY <1>0, <2>1 DEF vars, heapVars, sweepVars, grayVars, atomicVars, runVars, Weakness, Strength,
         KeepInvariant, NoWhite, Vals, IsWhite, White, Found, FoundAll, Roots, H!Keeps, H!WeakKey, H!WeakValue
    <3>2. closing' = closing
      BY <2>1 DEF vars, runVars
    <3> QED BY <2>1, <3>1, <3>2, QuietRefines DEF Held
  <2>2. CASE DeleteAll
    <3>1. closing' = "done"
      BY <2>2 DEF DeleteAll
    <3> QED BY <1>0, <2>2, <3>1, DestroyRefines DEF Held
  <2>3. CASE (CollectorStep \/ ProgramStep) /\ Steadily
    <3>1. closing # "done"
      BY <1>0, <2>3, DoneStops
    <3>2. CASE CollectorStep
      BY <1>0, <3>1, <3>2, CollectorRefines, WeaknessCollector DEF Held
    <3>3. CASE ProgramStep
      BY <1>0, <2>3, <3>1, <3>3, ProgramRefines, WeaknessProgram DEF Held
    <3> QED BY <2>3, <3>2, <3>3
  <2> QED BY <2>1, <2>2, <2>3 DEF Next
<1>2. Shut'
  BY <1>0, <1>1, ShutStep
<1> QED BY <1>0, <1>1, <1>2 DEF RefInv

\* Changes of a table's weakness that wait for the next cycle: the program
\* does not change the mode of a table that the running cycle has already
\* put in allweak.
SteadyModes == [][Steadily]_vars

\* The collector does to the program only what module Heap allows: what it
\* frees nothing can reach, the entries it clears are weak and their object
\* is not strongly reachable, and what it condemns to finalization the
\* program holds no more.  This is for every number of objects and every
\* interleaving of the program with luaC_step.  While the state closes, if
\* nothing can fail to allocate then; and but for a table whose weakness
\* changes after it was put in allweak: it is cleared as it was (manual 2.5.4:
\* a change takes effect only at the next collection cycle).
THEOREM CollectorImplementsHeap == Spec /\ []Orderly /\ SteadyModes => ImplementsHeap
<1>1. RefInv /\ Orderly /\ Orderly' /\ [Next]_vars /\ [Steadily]_vars => RefInv' /\ [H!Next]_(H!vars)
  BY RefStep DEF HeapStep
<1> QED BY <1>1, RefInit, PTL DEF Spec, SteadyModes, ImplementsHeap, H!Spec

=============================================================================
