---------------------------- MODULE LuaGC_safety ----------------------------
(***************************************************************************)
(* Nothing the program can reach is ever freed: the invariant that keeps it *)
(* alive, the proof that the marking phases (restartcollection,            *)
(* propagatemark and each stretch of atomic()), the sweep and the program  *)
(* keep it, and what follows from it.                                      *)
(***************************************************************************)
EXTENDS LuaGC_lists

-----------------------------------------------------------------------------
(* The invariant *)

NoWhite(S) == \A x \in S : ~IsWhite(x)
Keys(t)    == {e[1] : e \in fields[t]} \ {Nil}
Vals(t)    == {e[2] : e \in fields[t]} \ {Nil}

\* what each kind of object holds, and where open upvalues and the frame of a
\* finalizer are
Shape ==
  /\ Kind[running] = "thread"
  /\ \A o \in Obj : mark[o] = "free" => fields[o] = {}
  /\ \A o \in Obj : Kind[o] = "string" => fields[o] = {}
  /\ \A o \in Obj : Kind[o] # "closure" => \A x \in Refs(o) : Kind[x] # "upval"
  /\ \A u \in Obj : owner[u] # Nil =>
       Kind[u] = "upval" /\ Kind[owner[u]] = "thread" /\ mark[owner[u]] # "free"
  /\ savedtop \subseteq fields[running]
  /\ finalizing # "call" => savedtop = {}

\* the colours m have no black object that points to a white one
Tri(m) == \A o \in Obj : m[o] = "black" => \A x \in Succ(o) : ~White(m, x)

\* the gray lists, with the colours m: those that are gray, each in one list
Listed(m, g, ga, wk, ep, aw, ag, td) ==
  /\ \A x \in Obj : x \in g \cup ga \cup wk \cup ep \cup aw \cup ag \cup td
                    <=> m[x] = "gray" /\ Kind[x] # "upval"
  /\ \A x \in Obj :
       /\ x \in g  => x \notin ga \cup wk \cup ep \cup aw \cup ag \cup td
       /\ x \in ga => x \notin wk \cup ep \cup aw \cup ag \cup td
       /\ x \in wk => x \notin ep \cup aw \cup ag \cup td
       /\ x \in ep => x \notin aw \cup ag \cup td
       /\ x \in aw => x \notin ag \cup td
       /\ x \in ag => x \notin td
GrayOpen(m) == \A u \in Obj : Kind[u] = "upval" /\ m[u] = "gray" => owner[u] # Nil

\* while the collector marks
MarkBase ==
  /\ Tri(mark)
  /\ Listed(mark, gray, grayagain, weak, ephemeron, allweak, again, todo)
  /\ GrayOpen(mark)
  /\ NoWhite({MainThread} \cup RootTables)
  /\ \A t \in grayagain : Kind[t] \in {"thread", "table"}
  /\ \A t \in weak \cup ephemeron \cup allweak \cup todo : Kind[t] = "table"

\* while the program may run: no thread is black, and weak tables wait in
\* grayagain (or allweak) to be visited again
MarkOpen ==
  /\ \A o \in Obj : Kind[o] = "thread" => mark[o] # "black"
  /\ weak = {} /\ ephemeron = {}

\* in atomic(): what is known of each list, stretch by stretch
MarkAtomic ==
  /\ ~IsWhite(running)
  /\ \A t \in grayagain : Kind[t] = "table" /\ NoWhite(Refs(t))
  /\ \A t \in weak : NoWhite(Keys(t))
  /\ \A t \in Obj : Kind[t] = "thread" /\ mark[t] = "black" => NoWhite(Stack(t))
  /\ at # "propagate" =>
       \A u \in Obj : Kind[u] = "upval" /\ mark[u] = "gray" =>
         NoWhite(Refs(u)) \/ owner[u] \in gray \cup again
  /\ at \in {"separate", "flip"} => gray = {}
  /\ at \in {"separate", "resurrect", "converge2"} => \A t \in orig : NoWhite(Vals(t))
  /\ at = "separate" => \A i \in 1 .. Len(list["finobj"]) : i < scan => ~IsWhite(list["finobj"][i])
  /\ at \in {"resurrect", "converge2", "flip"} =>
       NoWhite(Elems(list["finobj"]) \cup Elems(list["tobefnz"]))
  /\ at \in {"converge1", "converge2"} /\ ~changed =>
       gray = {} /\ \A t \in ephemeron : NoWhite(EphemeronMarks(t))
  /\ at = "flip" => \A o \in Obj : ~IsWhite(o) => NoWhite(Succ(o))

Marking == KeepInvariant => /\ MarkBase
                            /\ at = "no" => MarkOpen
                            /\ at # "no" => MarkAtomic

\* a thread with open upvalues is in 'twups', but for those remarkupvals took
\* out and that are not marked, or not traversed again yet, and those that the
\* sweep is going to free
Twups ==
  \A u \in Obj : owner[u] # Nil =>
    \/ owner[u] \in twups
    \/ at \notin {"no", "propagate"} /\ (IsWhite(owner[u]) \/ owner[u] \in gray \cup again)
    \/ IsSweepPhase /\ IsDead(owner[u])

Safe == Shape /\ Closed(Live) /\ Marking /\ Twups

-----------------------------------------------------------------------------
(* What marking the objects of S does to the colours m and the gray list *)

\* each object keeps its colour or, if white, becomes what reallymarkobject
\* makes of its kind; L are those linked in the gray list
Marks(m, M, L) ==
  \A x \in Obj :
    \/ M[x] = m[x] /\ x \notin L
    \/ White(m, x) /\ M[x] = "black" /\ x \notin L
         /\ (Kind[x] = "string" \/ (Kind[x] = "upval" /\ owner[x] = Nil))
    \/ White(m, x) /\ M[x] = "gray" /\ x \in L /\ Kind[x] \in {"thread", "table", "closure"}
    \/ White(m, x) /\ M[x] = "gray" /\ x \notin L /\ Kind[x] = "upval" /\ owner[x] # Nil

LEMMA MarkedEffect ==
  ASSUME NEW m \in Heaps, NEW S \in SUBSET Obj, TypeOK,
         \A o \in Obj : Kind[o] # "closure" => \A x \in Refs(o) : Kind[x] # "upval"
  PROVE  /\ Marks(m, Marked(m, S), Linked(m, S))
         /\ Marked(m, S) \in Heaps /\ Linked(m, S) \subseteq Obj
         /\ \A x \in S : ~White(Marked(m, S), x)
         /\ \A u \in Obj : Kind[u] = "upval" /\ Marked(m, S)[u] # m[u] =>
              \A x \in Refs(u) : ~White(Marked(m, S), x)
         /\ (\A x \in S : White(m, x) => Kind[x] = "string") =>
              /\ Linked(m, S) = {}
              /\ \A x \in Obj : Marked(m, S)[x] # m[x] => Kind[x] = "string"
<1> DEFINE M == Marked(m, S)
           L == Linked(m, S)
           R == Reached(m, S)
<1>1. /\ \A o \in Obj : M[o] = IF o \notin R THEN m[o]
                               ELSE IF Kind[o] = "string" \/ (Kind[o] = "upval" /\ owner[o] = Nil)
                                    THEN "black" ELSE "gray"
      /\ \A o : o \in L <=> o \in R /\ o \in Obj /\ Kind[o] \in {"thread", "table", "closure"}
  BY DEF Marked, Linked, ObjOfKind
<1>2. /\ R \subseteq {o \in Obj : White(m, o)}
      /\ \A o \in S : White(m, o) => o \in R
      /\ \A u \in Obj : Kind[u] = "upval" /\ u \in R => u \in S
      /\ \A u \in S : Kind[u] = "upval" /\ White(m, u) => \A x \in Refs(u) : White(m, x) => x \in R
      /\ \A x \in R : x \in S \/ \E u \in S : White(m, u) /\ Kind[u] = "upval"
  <2>1. \A o \in Obj : Refs(o) \subseteq Obj
    BY RefsType
  <2> QED BY <2>1, ConstantsAssumption DEF Reached
<1>3. M \in Heaps /\ L \subseteq Obj
  BY MarkedType
<1>4. Kind \in [Obj -> {"thread", "table", "closure", "string", "upval"}]
  BY ConstantsAssumption DEF Kinds
<1> HIDE DEF M, L, R
<1>5. Marks(m, M, L)
  BY <1>1, <1>2, <1>4 DEF Marks
<1>6. \A x \in Obj : x \in R => ~White(M, x)
  BY <1>1 DEF White, Whites
<1>7. \A x \in Obj : White(m, x) => (White(M, x) => x \notin R)
  BY <1>6
<1>8. \A x \in Obj : White(M, x) => White(m, x)
  BY <1>1, <1>6 DEF White
<1>9. \A u \in Obj : Kind[u] = "upval" /\ M[u] # m[u] => \A x \in Refs(u) : ~White(M, x)
  <2> SUFFICES ASSUME NEW u \in Obj, Kind[u] = "upval", M[u] # m[u], NEW x \in Refs(u), White(M, x)
               PROVE  FALSE
    OBVIOUS
  <2>1. x \in Obj
    BY RefsType
  <2>2. u \in R
    BY <1>1
  <2>3. u \in S /\ White(m, u)
    BY <1>2, <2>2
  <2>4. x \in R
    BY <1>2, <1>8, <2>1, <2>3
  <2> QED BY <1>6, <2>1, <2>4
<1>10. ASSUME \A x \in S : White(m, x) => Kind[x] = "string"
       PROVE  L = {} /\ \A x \in Obj : M[x] # m[x] => Kind[x] = "string"
  <2>1. \A x \in R : x \in S /\ Kind[x] = "string"
    BY <1>2, <1>10
  <2> QED BY <1>1, <2>1
<1>11. \A x \in S : ~White(M, x)
  BY <1>2, <1>6, <1>8
<1> QED BY <1>3, <1>5, <1>9, <1>10, <1>11 DEF M, L

\* marking what black objects still lacked makes Tri true
LEMMA TriMarked ==
  ASSUME NEW m \in Heaps, NEW S \in SUBSET Obj, TypeOK, Shape,
         \A o \in Obj : m[o] = "black" => \A x \in Succ(o) : White(m, x) => x \in S
  PROVE  Tri(Marked(m, S))
<1> DEFINE M == Marked(m, S)
           L == Linked(m, S)
<1>1. /\ Marks(m, M, L)
      /\ \A x \in S : ~White(M, x)
      /\ \A u \in Obj : Kind[u] = "upval" /\ M[u] # m[u] => \A x \in Refs(u) : ~White(M, x)
  BY MarkedEffect DEF Shape
<1>2. \A o \in Obj : Succ(o) \subseteq Obj
  BY RefsType DEF Succ
<1>3. \A o \in Obj : /\ Kind[o] = "string" => Succ(o) = {}
                     /\ Kind[o] = "upval" => Succ(o) = Refs(o)
  <2>1. \A o \in Obj : Kind[o] # "thread" => OpenUpvals(o) = {}
    BY ConstantsAssumption DEF Shape, OpenUpvals
  <2>2. \A o \in Obj : Kind[o] = "string" => Refs(o) = {}
    BY DEF Shape, Refs
  <2> QED BY <2>1, <2>2 DEF Succ
<1> HIDE DEF M, L
<1>4. \A x \in Obj : White(M, x) => White(m, x)
  BY <1>1 DEF Marks, White, Whites
<1> SUFFICES ASSUME NEW o \in Obj, M[o] = "black", NEW x \in Succ(o), White(M, x) PROVE FALSE
  BY DEF Tri, M
<1>5. CASE M[o] = m[o]
  BY <1>1, <1>2, <1>4, <1>5
<1>6. CASE M[o] # m[o]
  BY <1>1, <1>3, <1>6 DEF Marks
<1> QED BY <1>5, <1>6

LEMMA ListedMarked ==
  ASSUME NEW m \in Heaps, NEW S \in SUBSET Obj, TypeOK, Shape, NEW g, NEW ga, NEW wk, NEW ep, NEW aw, NEW ag, NEW td,
         Listed(m, g, ga, wk, ep, aw, ag, td), GrayOpen(m)
  PROVE  /\ Listed(Marked(m, S), g \cup Linked(m, S), ga, wk, ep, aw, ag, td)
         /\ GrayOpen(Marked(m, S))
<1> DEFINE M == Marked(m, S)
           L == Linked(m, S)
<1>1. Marks(m, M, L)
  BY MarkedEffect DEF Shape
<1> HIDE DEF M, L
<1>2. \A x \in Obj : White(m, x) => m[x] # "gray"
  BY DEF White, Whites
<1>3. GrayOpen(M)
  BY <1>1 DEF Marks, GrayOpen
<1>4. ASSUME NEW x \in Obj
      PROVE x \in (g \cup L) \cup ga \cup wk \cup ep \cup aw \cup ag \cup td
             <=> M[x] = "gray" /\ Kind[x] # "upval"
  BY <1>1, <1>2 DEF Marks, Listed
<1>5. ASSUME NEW x \in Obj, x \in L PROVE x \notin ga \cup wk \cup ep \cup aw \cup ag \cup td
  BY <1>1, <1>2, <1>5 DEF Marks, Listed
<1>6. Listed(M, g \cup L, ga, wk, ep, aw, ag, td)
  BY <1>4, <1>5 DEF Listed
<1> QED BY <1>3, <1>6 DEF M, L

-----------------------------------------------------------------------------
(* What traversing an object does, whatever its kind *)

Traverses(o) == TraverseStrong(o) \/ TraverseWeakValue(o) \/ TraverseEphemeron(o)
                  \/ TraverseAllWeak(o) \/ TraverseThread(o)

\* o is painted c, the objects of S are marked, and o, unless black, is linked
\* in one list
Traversal(o, c, S) ==
  /\ Visit(o, c, S)
  /\ Kind[o] \in {"thread", "table", "closure"}
  /\ Kind[o] = "thread" => Stack(o) \subseteq S
  /\ \/ /\ c = "black" /\ UNCHANGED <<grayagain, weak, ephemeron, allweak>>
        /\ \A x \in Succ(o) : IsWhite(x) => x \in S
        /\ Kind[o] = "thread" => gcstate # "propagate"
     \/ /\ c = "gray" /\ grayagain' = grayagain \cup {o} /\ UNCHANGED <<weak, ephemeron, allweak>>
        /\ Kind[o] = "table" \/ (Kind[o] = "thread" /\ gcstate = "propagate")
        /\ gcstate = "atomic" => \A x \in Refs(o) : IsWhite(x) => x \in S
     \/ /\ c = "gray" /\ weak' = weak \cup {o} /\ UNCHANGED <<grayagain, ephemeron, allweak>>
        /\ Kind[o] = "table" /\ gcstate = "atomic" /\ Keys(o) \subseteq S
     \/ /\ c = "gray" /\ ephemeron' = ephemeron \cup {o} /\ UNCHANGED <<grayagain, weak, allweak>>
        /\ Kind[o] = "table" /\ gcstate # "propagate"
     \/ /\ c = "gray" /\ allweak' = allweak \cup {o} /\ UNCHANGED <<grayagain, weak, ephemeron>>
        /\ Kind[o] = "table"
  /\ twups \subseteq twups'
  /\ Kind[o] = "thread" /\ gcstate # "propagate" /\ OpenUpvals(o) # {} => o \in twups'

LEMMA Traversed ==
  ASSUME TypeOK, Shape, NEW o \in Obj, Traverses(o)
  PROVE  \E c \in {"gray", "black"}, S \in SUBSET Obj :
           /\ Traversal(o, c, S)
           /\ TraverseEphemeron(o) => S \subseteq EphemeronMarks(o) \cup ObjOfKind({"string"})
<1>1. /\ Refs(o) \subseteq Obj /\ Stack(o) \cup OpenUpvals(o) \subseteq Obj
      /\ Keys(o) \subseteq Obj /\ Vals(o) \subseteq Obj /\ EphemeronMarks(o) \subseteq Obj
  BY RefsType DEF TypeOK, Entry, EphemeronMarks, Keys, Vals
<1>2. Kind[o] # "thread" => Succ(o) = Refs(o)
  BY ConstantsAssumption DEF Succ, Shape, OpenUpvals
<1>3. \A x \in Refs(o) : \E e \in fields[o] : x # Nil /\ (x = e[1] \/ x = e[2])
  BY DEF Refs, Objs
<1>4. \A S : Strings(S) \subseteq S /\ Strings(S) \subseteq ObjOfKind({"string"})
  BY DEF Strings
<1>5. \A x \in Obj : Kind[x] = "string" => \A S : x \in S => x \in Strings(S)
  BY DEF Strings, ObjOfKind
<1>6. CASE TraverseStrong(o)
  <2>1. Traversal(o, "black", Refs(o))
    BY <1>2, <1>6 DEF TraverseStrong, Traversal
  <2>2. ~TraverseEphemeron(o)
    BY <1>6 DEF TraverseStrong, TraverseEphemeron
  <2> QED BY <1>1, <2>1, <2>2
<1>7. CASE TraverseWeakValue(o)
  <2> DEFINE hasclears == \E e \in fields[o] : Clearable(mark, e[2])
             S == IF hasclears THEN Keys(o) ELSE Keys(o) \cup Strings(Vals(o))
  <2>1. /\ Kind[o] = "table" /\ Visit(o, "gray", S)
        /\ \/ /\ gcstate = "atomic" /\ hasclears /\ weak' = weak \cup {o} /\ UNCHANGED grayagain
           \/ /\ gcstate = "atomic" => ~hasclears
              /\ grayagain' = grayagain \cup {o} /\ UNCHANGED weak
        /\ UNCHANGED <<ephemeron, allweak, twups>>
    BY <1>7 DEF TraverseWeakValue, Keys, Vals
  <2>2. Keys(o) \subseteq S /\ S \in SUBSET Obj
    BY <1>1, <1>4
  <2>3. ASSUME ~hasclears, NEW x \in Refs(o), IsWhite(x) PROVE x \in S
    <3>1. PICK e \in fields[o] : x # Nil /\ (x = e[1] \/ x = e[2])
      BY <1>3
    <3>2. CASE x = e[1]
      BY <2>2, <3>1, <3>2 DEF Keys
    <3>3. CASE x = e[2]
      <4>1. x \in Vals(o) /\ x \in Obj
        BY <1>1, <3>1, <3>3 DEF Vals
      <4>2. Kind[x] = "string"
        BY <2>3, <3>1, <3>3 DEF Clearable, IsWhite
      <4> QED BY <1>5, <2>3, <4>1, <4>2
    <3> QED BY <3>1, <3>2, <3>3
  <2> HIDE DEF S, hasclears
  <2>4. Traversal(o, "gray", S)
    BY <2>1, <2>2, <2>3 DEF Traversal
  <2>5. ~TraverseEphemeron(o)
    BY <1>7 DEF TraverseWeakValue, TraverseEphemeron
  <2> QED BY <2>2, <2>4, <2>5
<1>8. CASE TraverseEphemeron(o)
  <2> DEFINE hasclears == \E e \in fields[o] : Clearable(mark, e[1])
             hasww     == \E e \in fields[o] : Clearable(mark, e[1]) /\ e[2] # Nil /\ IsWhite(e[2])
             S == EphemeronMarks(o) \cup Strings(Keys(o))
             dest == IF gcstate = "propagate" THEN "grayagain"
                     ELSE IF hasww THEN "ephemeron"
                     ELSE IF hasclears THEN "allweak" ELSE "none"
  <2>1. /\ Kind[o] = "table" /\ Visit(o, IF dest = "none" THEN "black" ELSE "gray", S)
        /\ grayagain' = IF dest = "grayagain" THEN grayagain \cup {o} ELSE grayagain
        /\ ephemeron' = IF dest = "ephemeron" THEN ephemeron \cup {o} ELSE ephemeron
        /\ allweak'   = IF dest = "allweak" THEN allweak \cup {o} ELSE allweak
        /\ UNCHANGED <<weak, twups>>
    BY <1>8 DEF TraverseEphemeron, Keys
  <2>2. S \in SUBSET Obj /\ S \subseteq EphemeronMarks(o) \cup ObjOfKind({"string"})
    BY <1>1, <1>4
  <2>3. ASSUME ~hasclears, NEW x \in Refs(o), IsWhite(x) PROVE x \in S
    <3>1. PICK e \in fields[o] : x # Nil /\ (x = e[1] \/ x = e[2])
      BY <1>3
    <3>2. CASE x = e[1]
      <4>1. x \in Keys(o) /\ x \in Obj
        BY <1>1, <3>1, <3>2 DEF Keys
      <4>2. Kind[x] = "string"
        BY <2>3, <3>1, <3>2 DEF Clearable, IsWhite
      <4> QED BY <1>5, <4>1, <4>2
    <3>3. CASE x = e[2]
      BY <2>3, <3>1, <3>3 DEF EphemeronMarks
    <3> QED BY <3>1, <3>2, <3>3
  <2>4. hasww => hasclears
    OBVIOUS
  <2> HIDE DEF S, hasclears, hasww
  <2>5. Traversal(o, IF dest = "none" THEN "black" ELSE "gray", S)
    <3>1. CASE gcstate = "propagate"
      BY <2>1, <3>1 DEF Traversal
    <3>2. CASE gcstate # "propagate" /\ hasww
      BY <2>1, <3>2 DEF Traversal
    <3>3. CASE gcstate # "propagate" /\ ~hasww /\ hasclears
      BY <2>1, <3>3 DEF Traversal
    <3>4. CASE gcstate # "propagate" /\ ~hasww /\ ~hasclears
      BY <1>2, <2>1, <2>3, <3>4 DEF Traversal
    <3> QED BY <3>1, <3>2, <3>3, <3>4
  <2> QED BY <2>2, <2>5
<1>9. CASE TraverseAllWeak(o)
  <2>1. Traversal(o, "gray", {})
    BY <1>9 DEF TraverseAllWeak, Traversal
  <2>2. ~TraverseEphemeron(o)
    BY <1>9 DEF TraverseAllWeak, TraverseEphemeron
  <2> QED BY <2>1, <2>2
<1>10. CASE TraverseThread(o)
  <2> DEFINE S == Stack(o) \cup OpenUpvals(o)
  <2>1. Succ(o) \subseteq S
    BY DEF Succ, Stack
  <2>2. Traversal(o, IF gcstate = "propagate" THEN "gray" ELSE "black", S)
    <3>1. CASE gcstate = "propagate"
      BY <1>10, <3>1 DEF TraverseThread, Traversal
    <3>2. CASE gcstate # "propagate"
      BY <1>10, <2>1, <3>2 DEF TraverseThread, Traversal
    <3> QED BY <3>1, <3>2
  <2>3. ~TraverseEphemeron(o)
    BY <1>10 DEF TraverseThread, TraverseEphemeron
  <2> QED BY <1>1, <2>2, <2>3
<1> QED BY <1>6, <1>7, <1>8, <1>9, <1>10 DEF Traverses

LEMMA SameHeap ==
  ASSUME UNCHANGED <<fields, owner>>
  PROVE  \A o \in Obj : /\ Refs(o)' = Refs(o) /\ OpenUpvals(o)' = OpenUpvals(o)
                        /\ Stack(o)' = Stack(o) /\ Succ(o)' = Succ(o)
                        /\ Keys(o)' = Keys(o) /\ Vals(o)' = Vals(o)
<1>1. \A o : Refs(o)' = Refs(o) /\ OpenUpvals(o)' = OpenUpvals(o) /\ Keys(o)' = Keys(o) /\ Vals(o)' = Vals(o)
  BY DEF Refs, OpenUpvals, Keys, Vals
<1>2. \A o : Stack(o)' = Stack(o)
  BY DEF Stack, Refs, OpenUpvals
<1> QED BY <1>1, <1>2 DEF Succ

\* colours and lists after a traversal
Painted(o, c, S) ==
  /\ Darker
  /\ \A x \in S : ~IsWhite(x)'
  /\ \A u \in Obj : Kind[u] = "upval" /\ mark'[u] # mark[u] => \A x \in Refs(u) : ~IsWhite(x)'
  /\ \A x \in Obj : mark'[x] = "black" =>
       mark[x] = "black" \/ Kind[x] \in {"string", "upval"} \/ (x = o /\ c = "black")
  /\ gray \ {o} \subseteq gray'
  /\ (\A x \in S : IsWhite(x) => Kind[x] = "string") =>
       /\ gray' = gray \ {o}
       /\ \A x \in Obj \ {o} : Kind[x] # "string" => mark'[x] = mark[x]

LEMMA VisitPaints ==
  ASSUME TypeOK, Shape, NEW o \in Obj, mark[o] = "gray", Kind[o] \in {"thread", "table", "closure"},
         NEW c \in {"gray", "black"}, NEW S \in SUBSET Obj, Visit(o, c, S)
  PROVE  Painted(o, c, S)
<1> DEFINE m == [mark EXCEPT ![o] = c]
           M == Marked(m, S)
           L == Linked(m, S)
<1>1. /\ m \in Heaps /\ m[o] = c /\ \A x \in Obj \ {o} : m[x] = mark[x]
      /\ mark' = M /\ gray' = (gray \ {o}) \cup L
  BY DEF Visit, TypeOK, Heaps, Colours
<1>2. /\ Marks(m, M, L)
      /\ \A x \in S : ~White(M, x)
      /\ \A u \in Obj : Kind[u] = "upval" /\ M[u] # m[u] => \A x \in Refs(u) : ~White(M, x)
      /\ (\A x \in S : White(m, x) => Kind[x] = "string") =>
           L = {} /\ \A x \in Obj : M[x] # m[x] => Kind[x] = "string"
  <2> HIDE DEF m
  <2> QED BY <1>1, MarkedEffect DEF Shape
<1> HIDE DEF m, M, L
<1>3. Darker
  BY <1>1, <1>2 DEF Marks, Darker, White, Whites
<1>4. \A x \in S : ~IsWhite(x)'
  BY <1>1, <1>2 DEF IsWhite, White
<1>5. \A u \in Obj : Kind[u] = "upval" /\ mark'[u] # mark[u] => \A x \in Refs(u) : ~IsWhite(x)'
  BY <1>1, <1>2 DEF IsWhite, White
<1>6. \A x \in Obj : mark'[x] = "black" =>
       mark[x] = "black" \/ Kind[x] \in {"string", "upval"} \/ (x = o /\ c = "black")
  BY <1>1, <1>2 DEF Marks
<1>7. ASSUME \A x \in S : IsWhite(x) => Kind[x] = "string"
      PROVE  gray' = gray \ {o} /\ \A x \in Obj \ {o} : Kind[x] # "string" => mark'[x] = mark[x]
  <2>1. \A x \in S : White(m, x) => Kind[x] = "string"
    BY <1>1, <1>7 DEF IsWhite, White, Whites
  <2> QED BY <1>1, <1>2, <2>1
<1> QED BY <1>1, <1>3, <1>4, <1>5, <1>6, <1>7 DEF Painted

LEMMA BaseTraversal ==
  ASSUME TypeInv, Shape, MarkBase, NEW o \in gray \cup todo,
         NEW c \in {"gray", "black"}, NEW S \in SUBSET Obj, Traversal(o, c, S),
         todo' = todo \ {o}, UNCHANGED <<fields, owner, again>>
  PROVE  MarkBase' /\ Painted(o, c, S)
<1> DEFINE m == [mark EXCEPT ![o] = c]
           M == Marked(m, S)
           L == Linked(m, S)
<1>0. o \in Obj /\ mark[o] = "gray" /\ TypeOK
  BY DEF MarkBase, Listed, TypeInv, TypeOK
<1>1. /\ m \in Heaps /\ m[o] = c /\ \A x \in Obj \ {o} : m[x] = mark[x]
      /\ mark' = M /\ gray' = (gray \ {o}) \cup L
  BY <1>0 DEF Traversal, Visit, TypeOK, Heaps, Colours
<1>2. Painted(o, c, S)
  BY <1>0, VisitPaints DEF Traversal
<1>3. \A x \in Obj : Succ(x)' = Succ(x) /\ Refs(x)' = Refs(x) /\ Succ(x) \subseteq Obj
  BY <1>0, SameHeap, RefsType DEF Succ
<1> HIDE DEF m, M, L
<1>4. Tri(M)
  <2> SUFFICES ASSUME NEW x \in Obj, m[x] = "black", NEW y \in Succ(x), White(m, y) PROVE y \in S
    BY <1>0, <1>1, TriMarked DEF M
  <2>1. IsWhite(y) /\ y \in Obj
    BY <1>0, <1>1, <1>3 DEF White, IsWhite, Whites
  <2>2. CASE x # o
    BY <1>1, <2>1, <2>2 DEF MarkBase, Tri, IsWhite
  <2>3. CASE x = o
    BY <1>1, <2>1, <2>3 DEF Traversal
  <2> QED BY <2>2, <2>3
<1>5. Listed(m, gray \ {o}, grayagain', weak', ephemeron', allweak', again, todo \ {o}) /\ GrayOpen(m)
  <2>1. GrayOpen(m)
    BY <1>0, <1>1 DEF Traversal, MarkBase, GrayOpen
  <2>2. \A x \in Obj : x # o => (m[x] = "gray" <=> mark[x] = "gray")
    BY <1>1
  <2>3. Listed(mark, gray, grayagain, weak, ephemeron, allweak, again, todo)
    BY DEF MarkBase
  <2>4. o \notin grayagain \cup weak \cup ephemeron \cup allweak \cup again /\ ~(o \in gray /\ o \in todo)
    BY <1>0, <2>3 DEF Listed
  <2>5. Kind[o] # "upval"
    BY DEF Traversal
  <2>6. CASE c = "black" /\ UNCHANGED <<grayagain, weak, ephemeron, allweak>>
    <3>1. m[o] # "gray"
      BY <1>1, <2>6
    <3> QED BY <1>0, <2>1, <2>2, <2>3, <2>4, <2>6, <3>1 DEF Listed
  <2>7. CASE c = "gray" /\ grayagain' = grayagain \cup {o} /\ UNCHANGED <<weak, ephemeron, allweak>>
    BY <1>0, <1>1, <2>1, <2>2, <2>3, <2>4, <2>5, <2>7 DEF Listed
  <2>8. CASE c = "gray" /\ weak' = weak \cup {o} /\ UNCHANGED <<grayagain, ephemeron, allweak>>
    BY <1>0, <1>1, <2>1, <2>2, <2>3, <2>4, <2>5, <2>8 DEF Listed
  <2>9. CASE c = "gray" /\ ephemeron' = ephemeron \cup {o} /\ UNCHANGED <<grayagain, weak, allweak>>
    BY <1>0, <1>1, <2>1, <2>2, <2>3, <2>4, <2>5, <2>9 DEF Listed
  <2>10. CASE c = "gray" /\ allweak' = allweak \cup {o} /\ UNCHANGED <<grayagain, weak, ephemeron>>
    BY <1>0, <1>1, <2>1, <2>2, <2>3, <2>4, <2>5, <2>10 DEF Listed
  <2> QED BY <2>6, <2>7, <2>8, <2>9, <2>10 DEF Traversal
<1>6. Listed(M, gray', grayagain', weak', ephemeron', allweak', again, todo \ {o}) /\ GrayOpen(M)
  BY <1>0, <1>1, <1>5, ListedMarked DEF M, L
<1>7. Tri(mark)' /\ GrayOpen(mark)'
  BY <1>1, <1>3, <1>4, <1>6 DEF Tri, GrayOpen, White
<1>8. Listed(mark, gray, grayagain, weak, ephemeron, allweak, again, todo)'
  BY <1>1, <1>6 DEF Listed
<1>9. NoWhite({MainThread} \cup RootTables)'
  <2>1. {MainThread} \cup RootTables \subseteq Obj
    BY ConstantsAssumption DEF ObjOfKind
  <2> QED BY <1>2, <2>1, DarkerMeans DEF Painted, MarkBase, NoWhite, IsWhite, White
<1>10. /\ (\A t \in grayagain : Kind[t] \in {"thread", "table"})'
       /\ (\A t \in weak \cup ephemeron \cup allweak \cup todo : Kind[t] = "table")'
  BY DEF MarkBase, Traversal
<1> QED BY <1>2, <1>7, <1>8, <1>9, <1>10 DEF MarkBase

\* a traversal in atomic(), by propagateall or by convergeephemerons
LEMMA AtomicTraversal ==
  ASSUME TypeInv, Shape, MarkBase, MarkAtomic, gcstate = "atomic", at # "no",
         NEW o \in gray \cup todo, NEW c \in {"gray", "black"}, NEW S \in SUBSET Obj,
         Traversal(o, c, S), Painted(o, c, S),
         UNCHANGED <<fields, owner, list, running, at, again, orig, scan>>,
         \/ o \in gray /\ UNCHANGED changed
         \/ /\ at \in {"converge1", "converge2"} /\ gray = {}
            /\ S \subseteq EphemeronMarks(o) \cup ObjOfKind({"string"})
            /\ ~changed' => ~changed /\ NoWhite(EphemeronMarks(o))
  PROVE  MarkAtomic'
<1>0. /\ o \in Obj /\ mark[o] = "gray" /\ TypeOK /\ running \in Obj
      /\ weak \subseteq Obj /\ grayagain \subseteq Obj /\ ephemeron \subseteq Obj /\ orig \subseteq Obj
      /\ owner \in [Obj -> Obj \cup {Nil}]
  BY DEF MarkBase, Listed, TypeInv, TypeOK
<1>1. \A x \in Obj : ~IsWhite(x) => ~IsWhite(x)'
  BY DarkerMeans DEF Painted, IsWhite, White
<1>2. \A t \in Obj : /\ Refs(t)' = Refs(t) /\ Keys(t)' = Keys(t) /\ Vals(t)' = Vals(t)
                     /\ Stack(t)' = Stack(t)
                     /\ Refs(t) \subseteq Obj /\ Keys(t) \subseteq Obj /\ Vals(t) \subseteq Obj
                     /\ Stack(t) \subseteq Obj
  BY <1>0, SameHeap, RefsType DEF Keys, Vals, TypeOK, Entry
<1>3. /\ \A t \in Obj : NoWhite(Refs(t)) => NoWhite(Refs(t))'
      /\ \A t \in Obj : NoWhite(Keys(t)) => NoWhite(Keys(t))'
      /\ \A t \in Obj : NoWhite(Vals(t)) => NoWhite(Vals(t))'
      /\ \A t \in Obj : NoWhite(Stack(t)) => NoWhite(Stack(t))'
  BY <1>1, <1>2 DEF NoWhite
<1>4. \A x \in S : ~IsWhite(x)'
  BY DEF Painted
<1>5. ~IsWhite(running)'
  BY <1>0, <1>1 DEF MarkAtomic, IsWhite, White
<1>6. (\A t \in grayagain : Kind[t] = "table" /\ NoWhite(Refs(t)))'
  <2> SUFFICES ASSUME NEW t \in grayagain' PROVE Kind[t] = "table" /\ NoWhite(Refs(t))'
    OBVIOUS
  <2>1. CASE t \in grayagain
    BY <1>0, <1>3, <2>1 DEF MarkAtomic
  <2>2. CASE t \notin grayagain
    <3>1. t = o /\ Kind[o] = "table" /\ \A x \in Refs(o) : IsWhite(x) => x \in S
      BY <2>2 DEF Traversal
    <3>2. \A x \in Refs(o) : ~IsWhite(x)'
      BY <1>0, <1>1, <1>2, <1>4, <3>1
    <3> QED BY <1>0, <1>2, <3>1, <3>2 DEF NoWhite
  <2> QED BY <2>1, <2>2
<1>7. (\A t \in weak : NoWhite(Keys(t)))'
  <2> SUFFICES ASSUME NEW t \in weak' PROVE NoWhite(Keys(t))'
    OBVIOUS
  <2>1. CASE t \in weak
    BY <1>0, <1>3, <2>1 DEF MarkAtomic
  <2>2. CASE t \notin weak
    <3>1. t = o /\ Keys(o) \subseteq S
      BY <2>2 DEF Traversal
    <3> QED BY <1>0, <1>2, <1>4, <3>1 DEF NoWhite
  <2> QED BY <2>1, <2>2
<1>8. (\A t \in Obj : Kind[t] = "thread" /\ mark[t] = "black" => NoWhite(Stack(t)))'
  <2> SUFFICES ASSUME NEW t \in Obj, Kind[t] = "thread", mark'[t] = "black" PROVE NoWhite(Stack(t))'
    OBVIOUS
  <2>1. CASE mark[t] = "black"
    BY <1>3, <2>1 DEF MarkAtomic
  <2>2. CASE t = o
    <3>1. Stack(o) \subseteq S
      BY <2>2 DEF Traversal
    <3> QED BY <1>2, <1>4, <2>2, <3>1 DEF NoWhite
  <2> QED BY <2>1, <2>2 DEF Painted
<1>9. (at # "propagate" => \A u \in Obj : Kind[u] = "upval" /\ mark[u] = "gray" =>
         NoWhite(Refs(u)) \/ owner[u] \in gray \cup again)'
  <2> SUFFICES ASSUME at # "propagate", NEW u \in Obj, Kind[u] = "upval", mark'[u] = "gray",
                      owner[u] \notin gray' \cup again
               PROVE  NoWhite(Refs(u))'
    OBVIOUS
  <2>1. CASE mark[u] # "gray"
    <3>1. \A x \in Refs(u) : ~IsWhite(x)'
      BY <2>1 DEF Painted
    <3> QED BY <1>2, <3>1 DEF NoWhite
  <2>2. CASE mark[u] = "gray" /\ NoWhite(Refs(u))
    BY <1>3, <2>2
  <2>3. CASE mark[u] = "gray" /\ owner[u] \in gray \cup again
    <3>1. owner[u] = o
      BY <2>3 DEF Painted
    <3>2. Kind[o] = "thread" /\ u \in OpenUpvals(o)
      BY <1>0, <3>1, ConstantsAssumption DEF Shape, OpenUpvals
    <3>3. Refs(u) \subseteq S
      BY <3>2 DEF Traversal, Stack
    <3> QED BY <1>2, <1>4, <3>3 DEF NoWhite
  <2> QED BY <2>1, <2>2, <2>3 DEF MarkAtomic
<1>10. at \notin {"separate", "flip"}
  BY DEF MarkAtomic
<1>11. (at \in {"separate", "resurrect", "converge2"} => \A t \in orig : NoWhite(Vals(t)))'
  BY <1>0, <1>3 DEF MarkAtomic
<1>12. (at \in {"resurrect", "converge2", "flip"} =>
          NoWhite(Elems(list["finobj"]) \cup Elems(list["tobefnz"])))'
  <2>1. Elems(list["finobj"]) \cup Elems(list["tobefnz"]) \subseteq Obj
    BY <1>0 DEF TypeOK, ListName, Elems
  <2> QED BY <1>1, <2>1 DEF MarkAtomic, NoWhite
<1>13. (at \in {"converge1", "converge2"} /\ ~changed =>
         gray = {} /\ \A t \in ephemeron : NoWhite(EphemeronMarks(t)))'
  <2> SUFFICES ASSUME at \in {"converge1", "converge2"}, ~changed'
               PROVE  gray' = {} /\ (\A t \in ephemeron : NoWhite(EphemeronMarks(t)))'
    OBVIOUS
  <2>1. ~changed /\ gray = {} /\ NoWhite(EphemeronMarks(o)) /\ S \subseteq EphemeronMarks(o) \cup ObjOfKind({"string"})
    BY DEF MarkAtomic
  <2>2. /\ gray' = {}
        /\ \A x \in Obj \ {o} : Kind[x] # "string" => mark'[x] = mark[x]
    BY <2>1 DEF Painted, NoWhite, ObjOfKind
  <2>3. ~IsWhite(o) /\ ~IsWhite(o)'
    BY <1>0, <1>1 DEF IsWhite, White, Whites
  <2>4. \A x \in Obj : Kind[x] # "string" => (White(mark', x) <=> White(mark, x))
    BY <2>2, <2>3 DEF White, IsWhite
  <2>5. \A t \in Obj : EphemeronMarks(t)' = EphemeronMarks(t) /\ EphemeronMarks(t) \subseteq Obj
    <3>1. \A t \in Obj : \A e \in fields[t] : e[1] \in Obj \cup {Nil} /\ e[2] \in Obj \cup {Nil}
      BY <1>0 DEF TypeOK, Entry
    <3>2. \A t \in Obj : \A e \in fields[t] : Clearable(mark', e[1]) <=> Clearable(mark, e[1])
      BY <2>4, <3>1 DEF Clearable
    <3> QED BY <3>1, <3>2 DEF EphemeronMarks
  <2>6. ASSUME NEW t \in ephemeron' PROVE NoWhite(EphemeronMarks(t))'
    <3>1. t \in Obj /\ NoWhite(EphemeronMarks(t))
      BY <1>0, <2>1 DEF Traversal, MarkAtomic
    <3> QED BY <1>1, <2>5, <3>1 DEF NoWhite
  <2> QED BY <2>2, <2>6
<1> QED BY <1>5, <1>6, <1>7, <1>8, <1>9, <1>10, <1>11, <1>12, <1>13 DEF MarkAtomic

-----------------------------------------------------------------------------
(* The steps that mark without traversing *)

LEMMA LessHeap ==
  ASSUME TypeOK, \A o \in Obj : fields'[o] \subseteq fields[o], UNCHANGED owner
  PROVE  \A o \in Obj :
           /\ Refs(o)' \subseteq Refs(o) /\ OpenUpvals(o)' = OpenUpvals(o)
           /\ Stack(o)' \subseteq Stack(o) /\ Succ(o)' \subseteq Succ(o)
           /\ Keys(o)' \subseteq Keys(o) /\ Vals(o)' \subseteq Vals(o)
           /\ Refs(o) \subseteq Obj /\ Stack(o) \subseteq Obj /\ Succ(o) \subseteq Obj
           /\ Keys(o) \subseteq Obj /\ Vals(o) \subseteq Obj
<1>1. \A o \in Obj : Refs(o)' \subseteq Refs(o) /\ Keys(o)' \subseteq Keys(o) /\ Vals(o)' \subseteq Vals(o)
  BY DEF Refs, Keys, Vals
<1>2. \A o \in Obj : OpenUpvals(o)' = OpenUpvals(o)
  BY DEF OpenUpvals
<1>3. \A o \in Obj : Stack(o)' = Refs(o)' \cup UNION {Refs(u)' : u \in OpenUpvals(o)'}
  BY DEF Stack
<1>4. \A o \in Obj : OpenUpvals(o) \subseteq Obj /\ Refs(o) \subseteq Obj /\ Stack(o) \subseteq Obj
  BY RefsType
<1>5. \A o \in Obj : Stack(o)' \subseteq Stack(o)
  BY <1>1, <1>2, <1>3, <1>4 DEF Stack
<1>6. \A o \in Obj : Keys(o) \subseteq Obj /\ Vals(o) \subseteq Obj
  BY DEF Keys, Vals, TypeOK, Entry
<1>7. \A o \in Obj : Succ(o)' = Refs(o)' \cup OpenUpvals(o)'
  BY DEF Succ
<1> QED BY <1>1, <1>2, <1>4, <1>5, <1>6, <1>7 DEF Succ

LEMMA BaseMarks ==
  ASSUME TypeInv, Shape, Tri(mark), GrayOpen(mark), NEW S \in SUBSET Obj, mark' = Marked(mark, S),
         NEW g, gray' = g \cup Linked(mark, S),
         Listed(mark, g, grayagain', weak', ephemeron', allweak', again', todo'),
         \A o \in Obj : fields'[o] \subseteq fields[o], UNCHANGED owner,
         \A x \in {MainThread} \cup RootTables : x \in S \/ ~IsWhite(x),
         \A t \in grayagain' : Kind[t] \in {"thread", "table"},
         \A t \in weak' \cup ephemeron' \cup allweak' \cup todo' : Kind[t] = "table"
  PROVE  MarkBase' /\ Marks(mark, mark', Linked(mark, S))
<1> DEFINE L == Linked(mark, S)
<1>1. mark \in Heaps /\ TypeOK
  BY DEF TypeInv, TypeOK, Heaps
<1>2. Marks(mark, mark', L) /\ \A x \in S : ~White(mark', x)
  BY <1>1, MarkedEffect DEF Shape
<1>3. Tri(mark')
  BY <1>1, TriMarked DEF Tri
<1>4. Listed(mark', gray', grayagain', weak', ephemeron', allweak', again', todo') /\ GrayOpen(mark')
  BY <1>1, ListedMarked
<1>5. \A o \in Obj : Succ(o)' \subseteq Succ(o)
  BY <1>1, LessHeap
<1>6. Tri(mark)' /\ GrayOpen(mark)'
  BY <1>3, <1>4, <1>5 DEF Tri, GrayOpen, White
<1>7. Listed(mark, gray, grayagain, weak, ephemeron, allweak, again, todo)'
  BY <1>4 DEF Listed
<1>8. NoWhite({MainThread} \cup RootTables)'
  <2>1. {MainThread} \cup RootTables \subseteq Obj
    BY ConstantsAssumption DEF ObjOfKind
  <2> HIDE DEF L
  <2> QED BY <1>2, <2>1 DEF Marks, NoWhite, IsWhite, White, Whites
<1> QED BY <1>2, <1>6, <1>7, <1>8 DEF MarkBase

\* what such a step keeps of MarkAtomic
LEMMA AtomicKept ==
  ASSUME TypeInv, MarkAtomic, NEW L, Marks(mark, mark', L),
         \A o \in Obj : fields'[o] \subseteq fields[o],
         UNCHANGED <<owner, running, grayagain, weak>>
  PROVE  /\ ~IsWhite(running)'
         /\ (\A t \in grayagain : Kind[t] = "table" /\ NoWhite(Refs(t)))'
         /\ (\A t \in weak : NoWhite(Keys(t)))'
         /\ (\A t \in Obj : Kind[t] = "thread" /\ mark[t] = "black" => NoWhite(Stack(t)))'
         /\ \A x \in Obj : ~IsWhite(x) => ~IsWhite(x)'
         /\ \A t \in Obj : NoWhite(Refs(t)) => NoWhite(Refs(t))'
         /\ \A t \in Obj : NoWhite(Vals(t)) => NoWhite(Vals(t))'
<1>0. running \in Obj /\ weak \subseteq Obj /\ grayagain \subseteq Obj /\ TypeOK
  BY DEF TypeInv, TypeOK
<1>1. \A x \in Obj : ~IsWhite(x) => ~IsWhite(x)'
  BY DEF Marks, IsWhite, White, Whites
<1>2. \A o \in Obj :
           /\ Refs(o)' \subseteq Refs(o) /\ Stack(o)' \subseteq Stack(o)
           /\ Keys(o)' \subseteq Keys(o) /\ Vals(o)' \subseteq Vals(o)
           /\ Refs(o) \subseteq Obj /\ Stack(o) \subseteq Obj
           /\ Keys(o) \subseteq Obj /\ Vals(o) \subseteq Obj
  BY <1>0, LessHeap
<1>3. /\ \A t \in Obj : NoWhite(Refs(t)) => NoWhite(Refs(t))'
      /\ \A t \in Obj : NoWhite(Keys(t)) => NoWhite(Keys(t))'
      /\ \A t \in Obj : NoWhite(Vals(t)) => NoWhite(Vals(t))'
      /\ \A t \in Obj : NoWhite(Stack(t)) => NoWhite(Stack(t))'
  BY <1>1, <1>2 DEF NoWhite
<1>4. ~IsWhite(running)'
  BY <1>0, <1>1 DEF MarkAtomic, IsWhite, White
<1>5. (\A t \in grayagain : Kind[t] = "table" /\ NoWhite(Refs(t)))'
  BY <1>0, <1>3 DEF MarkAtomic
<1>6. (\A t \in weak : NoWhite(Keys(t)))'
  BY <1>0, <1>3 DEF MarkAtomic
<1>7. \A t \in Obj : Kind[t] = "thread" /\ mark'[t] = "black" => mark[t] = "black"
  BY DEF Marks
<1>8. (\A t \in Obj : Kind[t] = "thread" /\ mark[t] = "black" => NoWhite(Stack(t)))'
  BY <1>3, <1>7 DEF MarkAtomic
<1> QED BY <1>1, <1>3, <1>4, <1>5, <1>6, <1>8

-----------------------------------------------------------------------------
(* The steps of the marking phases keep Marking *)

LEMMA AtomicMeans ==
  ASSUME Control, Marking, at # "no"
  PROVE  gcstate = "atomic" /\ KeepInvariant /\ MarkBase /\ MarkAtomic
  BY DEF Control, Marking, KeepInvariant

LEMMA MarkingPropagate ==
  ASSUME TypeInv, Control, Shape, Marking, Propagate \/ AtomicPropagate
  PROVE  Marking'
<1> USE DEF heapVars, sweepVars, atomicVars, runVars
<1>1. KeepInvariant /\ MarkBase /\ TypeOK
  BY DEF Propagate, AtomicPropagate, Control, Marking, KeepInvariant, TypeInv
<1>2. /\ UNCHANGED <<fields, owner, list, running, at, again, todo, changed, orig, scan, gcstate>>
      /\ \E o \in Obj : PropagateMark(o)
  BY DEF Propagate, AtomicPropagate
<1>3. PICK o \in gray : Traverses(o)
  BY <1>2 DEF PropagateMark, Traverses
<1>4. o \in Obj /\ o \notin todo /\ o \in gray \cup todo
  BY <1>1 DEF MarkBase, Listed, TypeOK
<1>5. PICK c \in {"gray", "black"}, S \in SUBSET Obj : Traversal(o, c, S)
  BY <1>1, <1>3, <1>4, Traversed
<1>6. todo' = todo \ {o}
  BY <1>2, <1>4
<1>7. MarkBase' /\ Painted(o, c, S)
  BY <1>1, <1>2, <1>4, <1>5, <1>6, BaseTraversal
<1>8. CASE at # "no"
  <2>1. gcstate = "atomic" /\ MarkAtomic
    BY <1>8, AtomicMeans
  <2>2. MarkAtomic'
    BY <1>1, <1>2, <1>4, <1>5, <1>7, <1>8, <2>1, <1>3, AtomicTraversal
  <2> QED BY <1>2, <1>7, <1>8, <2>2 DEF Marking
<1>9. CASE at = "no"
  <2>1. gcstate = "propagate" /\ MarkOpen
    BY <1>1, <1>9 DEF Propagate, AtomicPropagate, Marking
  <2>2. MarkOpen'
    <3>1. weak' = weak /\ ephemeron' = ephemeron
      BY <1>5, <2>1 DEF Traversal
    <3>2. Kind[o] = "thread" => c # "black"
      BY <1>5, <2>1 DEF Traversal
    <3>3. \A x \in Obj : Kind[x] = "thread" => mark'[x] # "black"
      BY <1>7, <2>1, <3>2 DEF Painted, MarkOpen
    <3> QED BY <2>1, <3>1, <3>3 DEF MarkOpen
  <2> QED BY <1>2, <1>7, <1>9, <2>2 DEF Marking
<1> QED BY <1>8, <1>9

LEMMA MarkingVisit ==
  ASSUME TypeInv, Control, Shape, Marking, NEW o, ConvergeVisit(o)
  PROVE  Marking'
<1> USE DEF heapVars, sweepVars, runVars
<1>1. at \in {"converge1", "converge2"} /\ gray = {} /\ o \in todo /\ TraverseEphemeron(o)
      /\ todo' = todo \ {o}
      /\ changed' = (changed \/ \E v \in EphemeronMarks(o) : IsWhite(v))
      /\ UNCHANGED <<fields, owner, list, running, at, again, orig, scan, gcstate>>
  BY DEF ConvergeVisit, AtomicAt
<1>2. gcstate = "atomic" /\ KeepInvariant /\ MarkBase /\ MarkAtomic /\ TypeOK
  BY <1>1, AtomicMeans DEF TypeInv
<1>3. o \in Obj /\ o \in gray \cup todo
  BY <1>1, <1>2 DEF TypeOK
<1>4. PICK c \in {"gray", "black"}, S \in SUBSET Obj :
        Traversal(o, c, S) /\ S \subseteq EphemeronMarks(o) \cup ObjOfKind({"string"})
  BY <1>1, <1>2, <1>3, Traversed DEF Traverses
<1>5. MarkBase' /\ Painted(o, c, S)
  BY <1>1, <1>2, <1>3, <1>4, BaseTraversal
<1>6. ~changed' => ~changed /\ NoWhite(EphemeronMarks(o))
  BY <1>1 DEF NoWhite
<1>7. MarkAtomic'
  BY <1>1, <1>2, <1>3, <1>4, <1>5, <1>6, AtomicTraversal
<1> QED BY <1>1, <1>5, <1>7 DEF Marking

LEMMA MarkingStart ==
  ASSUME TypeInv, Control, Shape, Sweeping, Marking,
         RestartCollection \/ EnterAtomic \/ AtomicStart
  PROVE  Marking'
<1> USE DEF heapVars, sweepVars, grayVars, atomicVars, runVars
<1>0. TypeOK /\ \A o \in Obj : fields'[o] = fields[o]
  BY DEF TypeInv, RestartCollection, EnterAtomic, AtomicStart
<1>r. {MainThread} \cup RootTables \subseteq Obj /\ BeingFnz \subseteq Obj /\ running \in Obj
  BY <1>0, ConstantsAssumption DEF ObjOfKind, BeingFnz, TypeOK, ListName, Elems
<1>1. CASE RestartCollection
  <2> DEFINE S == {MainThread} \cup RootTables \cup BeingFnz
  <2>1. /\ mark' = Marked(mark, S) /\ gray' = {} \cup Linked(mark, S)
        /\ grayagain' = {} /\ weak' = {} /\ ephemeron' = {} /\ allweak' = {}
        /\ UNCHANGED <<at, again, todo, owner>> /\ at = "no" /\ gcstate = "pause"
    BY <1>1 DEF RestartCollection, CollectorRuns
  <2>2. again' = {} /\ todo' = {} /\ at' = "no"
    BY <2>1 DEF Control
  <2>3. \A o \in Obj : mark[o] \in {"free", "white0", "white1"}
    BY <1>0, <2>1 DEF Sweeping, Allocated, Cur, TypeOK, Whites
  <2>4. Tri(mark) /\ GrayOpen(mark) /\ Listed(mark, {}, {}, {}, {}, {}, {}, {})
    BY <2>3 DEF Tri, GrayOpen, Listed
  <2>5. S \in SUBSET Obj /\ \A x \in {MainThread} \cup RootTables : x \in S
    BY <1>r
  <2> HIDE DEF S
  <2>6. Listed(mark, {}, grayagain', weak', ephemeron', allweak', again', todo')
    BY <2>1, <2>2, <2>4
  <2>7. MarkBase' /\ Marks(mark, mark', Linked(mark, S))
    BY <1>0, <2>1, <2>2, <2>4, <2>5, <2>6, BaseMarks
  <2>8. MarkOpen'
    BY <2>1, <2>3, <2>7 DEF MarkOpen, Marks
  <2> QED BY <2>2, <2>7, <2>8 DEF Marking
<1>2. CASE EnterAtomic
  <2>1. /\ UNCHANGED <<mark, fields, owner, gray, grayagain, weak, ephemeron, allweak, again, todo, at>>
        /\ KeepInvariant /\ at = "no"
    BY <1>2 DEF EnterAtomic, KeepInvariant, CollectorRuns
  <2>2. MarkBase /\ MarkOpen
    BY <2>1 DEF Marking
  <2>3. \A o \in Obj : Succ(o)' = Succ(o)
    BY <2>1, SameHeap
  <2>4. MarkBase'
    BY <2>1, <2>2, <2>3 DEF MarkBase, Tri, Listed, GrayOpen, NoWhite, IsWhite, White
  <2>5. MarkOpen'
    BY <2>1, <2>2 DEF MarkOpen
  <2> QED BY <2>1, <2>4, <2>5 DEF Marking
<1>3. CASE AtomicStart
  <2> DEFINE S == {running} \cup RootTables
  <2>1. /\ mark' = Marked(mark, S) /\ gray' = gray \cup Linked(mark, S)
        /\ again' = grayagain /\ grayagain' = {} /\ at' = "propagate" /\ at = "no"
        /\ UNCHANGED <<weak, ephemeron, allweak, todo, owner, running, changed>> /\ KeepInvariant
    BY <1>3 DEF AtomicStart, CollectorRuns, KeepInvariant
  <2>2. MarkBase /\ MarkOpen /\ again = {} /\ todo = {}
    BY <2>1 DEF Marking, Control
  <2>3. S \in SUBSET Obj /\ \A x \in {MainThread} \cup RootTables : x \in S \/ ~IsWhite(x)
    BY <1>r, <2>2 DEF MarkBase, NoWhite
  <2> HIDE DEF S
  <2>4. Listed(mark, gray, grayagain', weak', ephemeron', allweak', again', todo')
    BY <2>1, <2>2 DEF MarkBase, Listed
  <2>5. /\ Tri(mark) /\ GrayOpen(mark)
        /\ \A t \in grayagain' : Kind[t] \in {"thread", "table"}
        /\ \A t \in weak' \cup ephemeron' \cup allweak' \cup todo' : Kind[t] = "table"
    BY <2>1, <2>2 DEF MarkBase
  <2>6. MarkBase' /\ Marks(mark, mark', Linked(mark, S))
    BY <1>0, <2>1, <2>3, <2>4, <2>5, BaseMarks
  <2>7. \A x \in S : ~IsWhite(x)'
    BY <1>0, <2>1, <2>3, MarkedDarker DEF TypeOK, Heaps, IsWhite
  <2>8. ~IsWhite(running)'
    BY <2>1, <2>7 DEF S, IsWhite, White
  <2>9. \A t \in Obj : Kind[t] = "thread" => mark'[t] # "black"
    BY <2>2, <2>6 DEF Marks, MarkOpen
  <2>10. weak' = {}
    BY <2>1, <2>2 DEF MarkOpen
  <2>11. MarkAtomic'
    BY <2>1, <2>8, <2>9, <2>10 DEF MarkAtomic
  <2> QED BY <2>1, <2>6, <2>11 DEF Marking
<1> QED BY <1>1, <1>2, <1>3

LEMMA MarkingRemark ==
  ASSUME TypeInv, Control, Shape, Marking, Twups, AtomicRemarkUpvals
  PROVE  Marking'
<1> USE DEF heapVars, sweepVars, runVars
<1> DEFINE keep == {t \in twups : ~IsWhite(t) /\ OpenUpvals(t) # {}}
           S == Remarked(twups \ keep)
<1>1. /\ at = "propagate" /\ gray = {} /\ at' = "remark"
      /\ mark' = Marked(mark, S) /\ gray' = {} \cup Linked(mark, S)
      /\ UNCHANGED <<fields, owner, running, grayagain, weak, ephemeron, allweak, again, todo>>
  BY DEF AtomicRemarkUpvals, AtomicAt
<1>2. gcstate = "atomic" /\ MarkBase /\ MarkAtomic /\ TypeOK
  BY <1>1, AtomicMeans DEF TypeInv
<1>3. /\ \A x \in S : \E u \in Obj : x \in Refs(u) /\ ~IsWhite(u) /\ \E t \in twups \ keep : owner[u] = t
      /\ \A u \in Obj : owner[u] \in twups \ keep /\ ~IsWhite(u) => Refs(u) \subseteq S
  BY DEF Remarked, OpenUpvals
<1>4. S \in SUBSET Obj
  BY <1>2, <1>3, RefsType
<1> HIDE DEF S, keep
<1>5. MarkBase' /\ Marks(mark, mark', Linked(mark, S))
  <2>1. Listed(mark, {}, grayagain', weak', ephemeron', allweak', again', todo')
    BY <1>1, <1>2 DEF MarkBase, Listed
  <2>2. /\ Tri(mark) /\ GrayOpen(mark)
        /\ \A t \in grayagain' : Kind[t] \in {"thread", "table"}
        /\ \A t \in weak' \cup ephemeron' \cup allweak' \cup todo' : Kind[t] = "table"
        /\ \A x \in {MainThread} \cup RootTables : ~IsWhite(x)
    BY <1>1, <1>2 DEF MarkBase, NoWhite
  <2> QED BY <1>1, <1>4, <2>1, <2>2, BaseMarks
<1>6. /\ ~IsWhite(running)'
      /\ (\A t \in grayagain : Kind[t] = "table" /\ NoWhite(Refs(t)))'
      /\ (\A t \in weak : NoWhite(Keys(t)))'
      /\ (\A t \in Obj : Kind[t] = "thread" /\ mark[t] = "black" => NoWhite(Stack(t)))'
      /\ \A t \in Obj : NoWhite(Refs(t)) => NoWhite(Refs(t))'
  BY <1>1, <1>2, <1>5, AtomicKept
<1>7. /\ \A x \in S : ~White(mark', x)
      /\ \A u \in Obj : Kind[u] = "upval" /\ mark'[u] # mark[u] => \A x \in Refs(u) : ~White(mark', x)
  BY <1>1, <1>2, <1>4, MarkedEffect DEF TypeOK, Heaps, Shape
<1>8. \A x \in Obj : Refs(x)' = Refs(x)
  BY <1>1, SameHeap
<1>9. ASSUME NEW u \in Obj, Kind[u] = "upval", mark'[u] = "gray"
      PROVE  NoWhite(Refs(u))' \/ owner[u] \in again
  <2>1. CASE mark'[u] # mark[u]
    BY <1>7, <1>8, <1>9, <2>1 DEF NoWhite, IsWhite
  <2>2. CASE mark[u] = "gray"
    <3>1. owner[u] # Nil /\ Kind[owner[u]] = "thread" /\ owner[u] \in twups /\ owner[u] \in Obj /\ ~IsWhite(u)
      <4>1. owner[u] # Nil
        BY <1>2, <1>9, <2>2 DEF MarkBase, GrayOpen
      <4>2. ~IsSweepPhase
        BY <1>2 DEF IsSweepPhase
      <4> QED BY <1>1, <1>2, <2>2, <4>1, <4>2 DEF Twups, Shape, TypeOK, IsWhite, White, Whites
    <3>2. CASE owner[u] \notin keep
      <4>1. Refs(u) \subseteq S
        BY <1>3, <3>1, <3>2
      <4> QED BY <1>7, <1>8, <4>1 DEF NoWhite, IsWhite
    <3>3. CASE owner[u] \in keep
      <4>1. ~IsWhite(owner[u]) /\ mark[owner[u]] # "free"
        BY <3>1, <3>3 DEF keep, Shape
      <4>2. CASE mark[owner[u]] = "black"
        <5>1. NoWhite(Stack(owner[u])) /\ Refs(u) \subseteq Stack(owner[u])
          BY <1>2, <3>1, <4>2 DEF MarkAtomic, Stack, OpenUpvals
        <5> QED BY <1>6, <5>1 DEF NoWhite
      <4>3. CASE mark[owner[u]] = "gray"
        <5>1. owner[u] \in grayagain \cup weak \cup ephemeron \cup allweak \cup again \cup todo
          BY <1>1, <1>2, <3>1, <4>3 DEF MarkBase, Listed
        <5>2. owner[u] \notin grayagain \cup weak \cup ephemeron \cup allweak \cup todo
          BY <1>2, <3>1 DEF MarkBase, MarkAtomic
        <5> QED BY <5>1, <5>2
      <4> QED BY <1>2, <3>1, <4>1, <4>2, <4>3 DEF TypeOK, Colours, IsWhite, White, Whites
    <3> QED BY <3>2, <3>3
  <2> QED BY <1>9, <2>1, <2>2
<1>10. MarkAtomic'
  BY <1>1, <1>6, <1>9 DEF MarkAtomic
<1> QED BY <1>1, <1>5, <1>10 DEF Marking

\* two stretches that mark nothing: the lists change hands
LEMMA MarkingLists ==
  ASSUME TypeInv, Control, Shape, Marking, AtomicGrayAgain \/ ConvergePass
  PROVE  Marking'
<1> USE DEF heapVars, sweepVars, runVars
<1>1. /\ UNCHANGED <<mark, fields, owner, list, running, grayagain, weak, allweak, orig, gcstate>>
      /\ gray = {} /\ at # "no" /\ at' # "no" /\ at # "propagate" /\ at' \notin {"flip", "separate"}
      /\ at' = "converge2" => at \in {"resurrect", "converge2"}
      /\ at' # "resurrect"
  BY DEF AtomicGrayAgain, ConvergePass, AtomicAt
<1>2. gcstate = "atomic" /\ MarkBase /\ MarkAtomic /\ TypeOK
  BY <1>1, AtomicMeans DEF TypeInv
<1>3. \A o \in Obj : Succ(o)' = Succ(o) /\ Refs(o)' = Refs(o) /\ Keys(o)' = Keys(o)
                     /\ Vals(o)' = Vals(o) /\ Stack(o)' = Stack(o)
  BY <1>1, SameHeap
<1>4. \A S : NoWhite(S)' = NoWhite(S)
  BY <1>1 DEF NoWhite, IsWhite, White
<1>5. \/ /\ gray' = again /\ again' = {} /\ UNCHANGED <<ephemeron, todo, changed>>
         /\ at' = "grayagain"
      \/ /\ todo' = ephemeron /\ ephemeron' = {} /\ todo = {} /\ UNCHANGED <<gray, again>>
         /\ changed' = FALSE
  BY DEF AtomicGrayAgain, ConvergePass, AtomicAt, Control
<1>6. MarkBase'
  <2>1. Listed(mark, gray, grayagain, weak, ephemeron, allweak, again, todo)'
    BY <1>1, <1>2, <1>5 DEF MarkBase, Listed
  <2>2. Tri(mark)' /\ GrayOpen(mark)' /\ NoWhite({MainThread} \cup RootTables)'
    BY <1>1, <1>2, <1>3 DEF MarkBase, Tri, GrayOpen, NoWhite, IsWhite, White
  <2>3. \A t \in weak' \cup ephemeron' \cup allweak' \cup todo' : Kind[t] = "table"
    BY <1>1, <1>2, <1>5 DEF MarkBase
  <2> QED BY <1>1, <1>2, <2>1, <2>2, <2>3 DEF MarkBase
<1>7. MarkAtomic'
  <2>1. grayagain \subseteq Obj /\ weak \subseteq Obj /\ orig \subseteq Obj
    BY <1>2 DEF TypeOK
  <2>2. ~IsWhite(running)'
    BY <1>1, <1>2 DEF MarkAtomic, IsWhite, White
  <2>3. (\A t \in grayagain : Kind[t] = "table" /\ NoWhite(Refs(t)))'
    BY <1>1, <1>2, <1>3, <2>1 DEF MarkAtomic, NoWhite, IsWhite, White
  <2>4. (\A t \in weak : NoWhite(Keys(t)))'
    BY <1>1, <1>2, <1>3, <2>1 DEF MarkAtomic, NoWhite, IsWhite, White
  <2>5. (\A t \in Obj : Kind[t] = "thread" /\ mark[t] = "black" => NoWhite(Stack(t)))'
    BY <1>1, <1>2, <1>3 DEF MarkAtomic, NoWhite, IsWhite, White
  <2>6. (\A u \in Obj : Kind[u] = "upval" /\ mark[u] = "gray" => NoWhite(Refs(u)) \/ owner[u] \in gray \cup again)'
    BY <1>1, <1>2, <1>3, <1>5 DEF MarkAtomic, NoWhite, IsWhite, White
  <2>7. (at = "converge2" => /\ \A t \in orig : NoWhite(Vals(t))
                             /\ NoWhite(Elems(list["finobj"]) \cup Elems(list["tobefnz"])))'
    BY <1>1, <1>2, <1>3, <2>1 DEF MarkAtomic, NoWhite, IsWhite, White
  <2>8. at' \in {"converge1", "converge2"} => gray' = {} /\ ephemeron' = {}
    BY <1>1, <1>5
  <2> QED BY <1>1, <2>2, <2>3, <2>4, <2>5, <2>6, <2>7, <2>8 DEF MarkAtomic
<1> QED BY <1>1, <1>6, <1>7 DEF Marking

\* clearbyvalues and clearbykeys: what they leave in a table is marked
LEMMA Cleared ==
  ASSUME TypeInv, Shape, NEW V \in SUBSET Obj, NEW K \in SUBSET Obj, ClearBy(V, K), UNCHANGED owner
  PROVE  \E S \in SUBSET Obj :
           /\ mark' = Marked(mark, S) /\ Linked(mark, S) = {}
           /\ \A x \in Obj : mark'[x] # mark[x] => Kind[x] = "string"
           /\ \A t \in Obj : fields'[t] \subseteq fields[t]
           /\ \A t \in V : NoWhite(Vals(t))'
           /\ \A t \in K : NoWhite(Keys(t))' /\ Vals(t)' \subseteq EphemeronMarks(t)
<1> DEFINE S == Strings((UNION {{e[2] : e \in fields[t]} : t \in V})
                        \cup (UNION {{e[1] : e \in fields[t]} : t \in K}))
<1>1. /\ mark' = Marked(mark, S)
      /\ fields' = [t \in Obj |-> {e \in fields[t] : /\ t \in V => ~Clearable(mark, e[2])
                                                     /\ t \in K => ~Clearable(mark, e[1])}]
  BY DEF ClearBy
<1>2. S \in SUBSET Obj /\ \A x \in S : Kind[x] = "string"
  BY DEF Strings, ObjOfKind
<1>3. /\ \A t \in V : \A e \in fields[t] : e[2] \in Obj /\ Kind[e[2]] = "string" => e[2] \in S
      /\ \A t \in K : \A e \in fields[t] : e[1] \in Obj /\ Kind[e[1]] = "string" => e[1] \in S
  BY DEF Strings, ObjOfKind
<1> HIDE DEF S
<1>4. /\ Linked(mark, S) = {} /\ \A x \in Obj : mark'[x] # mark[x] => Kind[x] = "string"
      /\ \A x \in S : ~White(mark', x)
      /\ \A x \in Obj : White(mark', x) => White(mark, x)
  <2>1. mark \in Heaps /\ TypeOK
    BY DEF TypeInv, TypeOK, Heaps
  <2>2. Marks(mark, mark', Linked(mark, S))
    BY <1>1, <1>2, <2>1, MarkedEffect DEF Shape
  <2> QED BY <1>1, <1>2, <2>1, <2>2, MarkedEffect DEF Shape, Marks, White, Whites
<1>5. \A t \in Obj : \A e \in fields[t] : e[1] \in Obj \cup {Nil} /\ e[2] \in Obj \cup {Nil}
  BY DEF TypeInv, TypeOK, Entry
<1>6. \A t \in V : \A e \in fields'[t] : e[2] # Nil => ~White(mark', e[2])
  BY <1>1, <1>3, <1>4, <1>5 DEF Clearable
<1>7. \A t \in K : \A e \in fields'[t] : e[1] # Nil => ~White(mark', e[1])
  BY <1>1, <1>3, <1>4, <1>5 DEF Clearable
<1>8. \A t \in K : \A e \in fields'[t] : e \in fields[t] /\ ~Clearable(mark, e[1])
  BY <1>1
<1>9. \A t \in V : NoWhite(Vals(t))'
  BY <1>6 DEF NoWhite, Vals, IsWhite
<1>10. \A t \in K : NoWhite(Keys(t))'
  BY <1>7 DEF NoWhite, Keys, IsWhite
<1>11. \A t \in K : Vals(t)' \subseteq EphemeronMarks(t)
  BY <1>8 DEF Vals, EphemeronMarks
<1>12. \A t \in Obj : fields'[t] \subseteq fields[t]
  BY <1>1
<1> QED BY <1>1, <1>2, <1>4, <1>9, <1>10, <1>11, <1>12

LEMMA MarkingClearValues ==
  ASSUME TypeInv, Control, Shape, Marking, AtomicClearValues
  PROVE  Marking'
<1> USE DEF heapVars, sweepVars, grayVars, runVars
<1>1. /\ at = "converge1" /\ gray = {} /\ todo = {} /\ at' = "separate" /\ scan' = 1
      /\ ClearBy(weak \cup allweak, {}) /\ orig' = weak \cup allweak
      /\ UNCHANGED <<owner, list, running, gray, grayagain, weak, ephemeron, allweak, again, todo, gcstate>>
  BY DEF AtomicClearValues, Converged, AtomicAt
<1>2. gcstate = "atomic" /\ MarkBase /\ MarkAtomic /\ TypeOK /\ again = {}
  BY <1>1, AtomicMeans DEF TypeInv, Control
<1>3. PICK S \in SUBSET Obj :
        /\ mark' = Marked(mark, S) /\ Linked(mark, S) = {}
        /\ \A x \in Obj : mark'[x] # mark[x] => Kind[x] = "string"
        /\ \A t \in Obj : fields'[t] \subseteq fields[t]
        /\ \A t \in weak \cup allweak : NoWhite(Vals(t))'
  <2>1. weak \cup allweak \in SUBSET Obj /\ {} \in SUBSET Obj
    BY <1>2 DEF TypeOK
  <2> QED BY <1>1, <2>1, Cleared
<1>4. MarkBase' /\ Marks(mark, mark', Linked(mark, S))
  <2>1. Listed(mark, gray, grayagain', weak', ephemeron', allweak', again', todo')
    BY <1>1, <1>2 DEF MarkBase
  <2>2. /\ Tri(mark) /\ GrayOpen(mark)
        /\ \A t \in grayagain' : Kind[t] \in {"thread", "table"}
        /\ \A t \in weak' \cup ephemeron' \cup allweak' \cup todo' : Kind[t] = "table"
        /\ \A x \in {MainThread} \cup RootTables : ~IsWhite(x)
    BY <1>1, <1>2 DEF MarkBase, NoWhite
  <2>3. gray' = gray \cup Linked(mark, S)
    BY <1>1, <1>3
  <2> QED BY <1>1, <1>3, <2>1, <2>2, <2>3, BaseMarks
<1>5. /\ ~IsWhite(running)'
      /\ (\A t \in grayagain : Kind[t] = "table" /\ NoWhite(Refs(t)))'
      /\ (\A t \in weak : NoWhite(Keys(t)))'
      /\ (\A t \in Obj : Kind[t] = "thread" /\ mark[t] = "black" => NoWhite(Stack(t)))'
      /\ \A t \in Obj : NoWhite(Refs(t)) => NoWhite(Refs(t))'
  BY <1>1, <1>2, <1>3, <1>4, AtomicKept
<1>6. ASSUME NEW u \in Obj, Kind[u] = "upval", mark'[u] = "gray"
      PROVE  NoWhite(Refs(u))'
  <2>1. mark[u] = "gray"
    BY <1>3, <1>6
  <2>2. NoWhite(Refs(u))
    BY <1>1, <1>2, <1>6, <2>1 DEF MarkAtomic
  <2> QED BY <1>5, <2>2
<1>7. (\A t \in orig : NoWhite(Vals(t)))'
  BY <1>1, <1>3
<1>8. (\A i \in 1 .. Len(list["finobj"]) : i < scan => ~IsWhite(list["finobj"][i]))'
  <2>1. list["finobj"] \in Seq(Obj)
    BY <1>2 DEF TypeOK, ListName
  <2> QED BY <1>1, <2>1
<1>9. MarkAtomic'
  BY <1>1, <1>5, <1>6, <1>7, <1>8 DEF MarkAtomic
<1> QED BY <1>1, <1>4, <1>9 DEF Marking

LEMMA MarkingSeparate ==
  ASSUME TypeInv, Control, Shape, Marking, AtomicSeparate
  PROVE  Marking'
<1> DEFINE f == list["finobj"]
<1>1. /\ at = "separate" /\ scan <= Len(f) /\ scan # 0 /\ scan \in Nat
      /\ \/ /\ list' = [list EXCEPT !["finobj"]  = Unlinked(f, scan),
                                    !["tobefnz"] = LinkLast(@, f[scan])]
            /\ scan' = scan
         \/ /\ ~IsWhite(f[scan]) /\ scan' = scan + 1 /\ list' = list
      /\ UNCHANGED <<mark, fields, owner, running, gray, grayagain, weak, ephemeron, allweak,
                     again, todo, at, orig, changed, gcstate>>
  BY DEF AtomicSeparate, TypeInv, TypeOK, sweepVars, grayVars, runVars
<1>2. gcstate = "atomic" /\ MarkBase /\ MarkAtomic /\ TypeOK
  BY <1>1, AtomicMeans DEF TypeInv
<1>3. \A o \in Obj : Succ(o)' = Succ(o) /\ Refs(o)' = Refs(o) /\ Keys(o)' = Keys(o)
                     /\ Vals(o)' = Vals(o) /\ Stack(o)' = Stack(o)
  BY <1>1, SameHeap
<1>4. f \in Seq(Obj) /\ list \in [ListName -> Seq(Obj)] /\ "finobj" \in ListName
      /\ scan \in 1 .. Len(f)
  BY <1>1, <1>2 DEF TypeOK, ListName
<1>5. \A i \in 1 .. Len(f) : i < scan => ~IsWhite(f[i])
  BY <1>1, <1>2 DEF MarkAtomic
<1>6. (\A i \in 1 .. Len(list["finobj"]) : i < scan => ~IsWhite(list["finobj"][i]))'
  <2>1. CASE list' = [list EXCEPT !["finobj"] = Unlinked(f, scan),
                                  !["tobefnz"] = LinkLast(@, f[scan])] /\ scan' = scan
    <3> DEFINE h == list'["finobj"]
    <3>1. h = Unlinked(f, scan)
      BY <1>4, <2>1 DEF ListName
    <3> HIDE DEF f
    <3>2. Len(h) = Len(f) - 1 /\ \A j \in 1 .. Len(f) - 1 : h[j] = IF j < scan THEN f[j] ELSE f[j + 1]
      BY <1>4, <3>1, UnlinkedProperties
    <3> HIDE DEF h
    <3>3. \A i \in 1 .. Len(h) : i < scan => ~IsWhite(h[i])
      BY <1>4, <1>5, <3>2
    <3>4. mark' = mark
      BY <1>1
    <3> QED BY <2>1, <3>3, <3>4 DEF h, IsWhite, White
  <2>2. CASE ~IsWhite(f[scan]) /\ scan' = scan + 1 /\ list' = list
    <3>1. \A i \in 1 .. Len(f) : i < scan + 1 => i < scan \/ i = scan
      BY <1>1
    <3>2. \A i \in 1 .. Len(f) : i < scan + 1 => ~IsWhite(f[i])
      BY <1>5, <2>2, <3>1
    <3> QED BY <1>1, <2>2, <3>2 DEF IsWhite, White
  <2> QED BY <1>1, <2>1, <2>2
<1>7. MarkBase'
  BY <1>1, <1>2, <1>3 DEF MarkBase, Tri, GrayOpen, Listed, NoWhite, IsWhite, White
<1>8. MarkAtomic'
  <2>1. grayagain \subseteq Obj /\ weak \subseteq Obj /\ orig \subseteq Obj
    BY <1>2 DEF TypeOK
  <2>2. ~IsWhite(running)'
    BY <1>1, <1>2 DEF MarkAtomic, IsWhite, White
  <2>3. (\A t \in grayagain : Kind[t] = "table" /\ NoWhite(Refs(t)))'
    BY <1>1, <1>2, <1>3, <2>1 DEF MarkAtomic, NoWhite, IsWhite, White
  <2>4. (\A t \in weak : NoWhite(Keys(t)))'
    BY <1>1, <1>2, <1>3, <2>1 DEF MarkAtomic, NoWhite, IsWhite, White
  <2>5. (\A t \in Obj : Kind[t] = "thread" /\ mark[t] = "black" => NoWhite(Stack(t)))'
    BY <1>1, <1>2, <1>3 DEF MarkAtomic, NoWhite, IsWhite, White
  <2>6. (\A u \in Obj : Kind[u] = "upval" /\ mark[u] = "gray" => NoWhite(Refs(u)) \/ owner[u] \in gray \cup again)'
    BY <1>1, <1>2, <1>3 DEF MarkAtomic, NoWhite, IsWhite, White
  <2>7. gray' = {} /\ (\A t \in orig : NoWhite(Vals(t)))'
    BY <1>1, <1>2, <1>3, <2>1 DEF MarkAtomic, NoWhite, IsWhite, White
  <2> QED BY <1>1, <1>6, <2>2, <2>3, <2>4, <2>5, <2>6, <2>7 DEF MarkAtomic
<1> QED BY <1>1, <1>7, <1>8 DEF Marking

LEMMA MarkingBeingFnz ==
  ASSUME TypeInv, Control, Shape, Marking, AtomicMarkBeingFnz
  PROVE  Marking'
<1> USE DEF heapVars, sweepVars, runVars
<1> DEFINE S == BeingFnz
           f == list["finobj"]
<1>1. /\ at = "separate" /\ scan > Len(f) /\ at' = "resurrect"
      /\ mark' = Marked(mark, S) /\ gray' = {} \cup Linked(mark, S)
      /\ UNCHANGED <<fields, owner, list, running, grayagain, weak, ephemeron, allweak, again, todo, orig, changed>>
  BY DEF AtomicMarkBeingFnz
<1>2. gcstate = "atomic" /\ MarkBase /\ MarkAtomic /\ TypeOK /\ again = {} /\ gray = {}
  BY <1>1, AtomicMeans DEF TypeInv, Control, MarkAtomic
<1>3. S \in SUBSET Obj /\ S = Elems(list["tobefnz"]) /\ f \in Seq(Obj)
  BY <1>2 DEF TypeOK, ListName, Elems, BeingFnz
<1> HIDE DEF S
<1>4. MarkBase' /\ Marks(mark, mark', Linked(mark, S))
  <2>1. Listed(mark, {}, grayagain', weak', ephemeron', allweak', again', todo')
    BY <1>1, <1>2 DEF MarkBase, Listed
  <2>2. /\ Tri(mark) /\ GrayOpen(mark)
        /\ \A t \in grayagain' : Kind[t] \in {"thread", "table"}
        /\ \A t \in weak' \cup ephemeron' \cup allweak' \cup todo' : Kind[t] = "table"
        /\ \A x \in {MainThread} \cup RootTables : ~IsWhite(x)
    BY <1>1, <1>2 DEF MarkBase, NoWhite
  <2> QED BY <1>1, <1>3, <2>1, <2>2, BaseMarks
<1>5. /\ ~IsWhite(running)'
      /\ (\A t \in grayagain : Kind[t] = "table" /\ NoWhite(Refs(t)))'
      /\ (\A t \in weak : NoWhite(Keys(t)))'
      /\ (\A t \in Obj : Kind[t] = "thread" /\ mark[t] = "black" => NoWhite(Stack(t)))'
      /\ \A x \in Obj : ~IsWhite(x) => ~IsWhite(x)'
      /\ \A t \in Obj : NoWhite(Refs(t)) => NoWhite(Refs(t))'
      /\ \A t \in Obj : NoWhite(Vals(t)) => NoWhite(Vals(t))'
  BY <1>1, <1>2, <1>4, AtomicKept
<1>6. /\ \A x \in S : ~IsWhite(x)'
      /\ \A u \in Obj : Kind[u] = "upval" /\ mark'[u] # mark[u] => \A x \in Refs(u) : ~IsWhite(x)'
  BY <1>1, <1>2, <1>3, MarkedEffect DEF TypeOK, Heaps, Shape, IsWhite
<1>7. \A x \in Obj : Refs(x)' = Refs(x)
  BY <1>1, SameHeap
<1>8. (\A u \in Obj : Kind[u] = "upval" /\ mark[u] = "gray" => NoWhite(Refs(u)))'
  <2> SUFFICES ASSUME NEW u \in Obj, Kind[u] = "upval", mark'[u] = "gray" PROVE NoWhite(Refs(u))'
    OBVIOUS
  <2>1. CASE mark'[u] # mark[u]
    BY <1>6, <1>7, <2>1 DEF NoWhite
  <2>2. CASE mark[u] = "gray"
    BY <1>1, <1>2, <1>5, <2>2 DEF MarkAtomic
  <2> QED BY <2>1, <2>2
<1>9. (\A t \in orig : NoWhite(Vals(t)))'
  BY <1>1, <1>2, <1>5 DEF MarkAtomic, TypeOK
<1>10. NoWhite(Elems(list["finobj"]) \cup Elems(list["tobefnz"]))'
  <2>1. \A i \in 1 .. Len(f) : i < scan
    BY <1>1, <1>2, <1>3 DEF TypeOK
  <2>2. \A x \in Elems(f) : x \in Obj /\ ~IsWhite(x)
    BY <1>1, <1>2, <1>3, <2>1 DEF MarkAtomic, Elems
  <2>3. \A x \in Elems(f) \cup S : ~IsWhite(x)'
    BY <1>5, <1>6, <2>2
  <2>4. list' = list
    BY <1>1
  <2> QED BY <1>3, <2>3, <2>4 DEF NoWhite
<1>11. MarkAtomic'
  BY <1>1, <1>5, <1>8, <1>9, <1>10 DEF MarkAtomic
<1> QED BY <1>1, <1>4, <1>11 DEF Marking

\* the last clearings: from here on nothing marked points to a white object
LEMMA MarkingClearKeys ==
  ASSUME TypeInv, Control, Shape, Marking, AtomicClearKeys
  PROVE  Marking'
<1> USE DEF heapVars, grayVars, runVars
<1> DEFINE V == (weak \cup allweak) \ orig
           K == ephemeron \cup allweak
<1>1. /\ at = "converge2" /\ gray = {} /\ todo = {} /\ ~changed /\ at' = "flip"
      /\ ClearBy(V, K)
      /\ UNCHANGED <<owner, list, running, gray, grayagain, weak, ephemeron, allweak, again, todo, gcstate, changed>>
  BY DEF AtomicClearKeys, Converged, AtomicAt
<1>2. gcstate = "atomic" /\ MarkBase /\ MarkAtomic /\ TypeOK /\ again = {}
  BY <1>1, AtomicMeans DEF TypeInv, Control
<1>3. PICK S \in SUBSET Obj :
        /\ mark' = Marked(mark, S) /\ Linked(mark, S) = {}
        /\ \A x \in Obj : mark'[x] # mark[x] => Kind[x] = "string"
        /\ \A t \in Obj : fields'[t] \subseteq fields[t]
        /\ \A t \in V : NoWhite(Vals(t))'
        /\ \A t \in K : NoWhite(Keys(t))' /\ Vals(t)' \subseteq EphemeronMarks(t)
  <2>1. V \in SUBSET Obj /\ K \in SUBSET Obj
    BY <1>2 DEF TypeOK
  <2> HIDE DEF V, K
  <2> QED BY <1>1, <2>1, Cleared
<1>4. MarkBase' /\ Marks(mark, mark', Linked(mark, S))
  <2>1. Listed(mark, gray, grayagain', weak', ephemeron', allweak', again', todo')
    BY <1>1, <1>2 DEF MarkBase
  <2>2. /\ Tri(mark) /\ GrayOpen(mark)
        /\ \A t \in grayagain' : Kind[t] \in {"thread", "table"}
        /\ \A t \in weak' \cup ephemeron' \cup allweak' \cup todo' : Kind[t] = "table"
        /\ \A x \in {MainThread} \cup RootTables : ~IsWhite(x)
    BY <1>1, <1>2 DEF MarkBase, NoWhite
  <2>3. gray' = gray \cup Linked(mark, S)
    BY <1>1, <1>3
  <2> QED BY <1>1, <1>3, <2>1, <2>2, <2>3, BaseMarks
<1>5. /\ ~IsWhite(running)'
      /\ (\A t \in grayagain : Kind[t] = "table" /\ NoWhite(Refs(t)))'
      /\ (\A t \in weak : NoWhite(Keys(t)))'
      /\ (\A t \in Obj : Kind[t] = "thread" /\ mark[t] = "black" => NoWhite(Stack(t)))'
      /\ \A x \in Obj : ~IsWhite(x) => ~IsWhite(x)'
      /\ \A t \in Obj : NoWhite(Refs(t)) => NoWhite(Refs(t))'
      /\ \A t \in Obj : NoWhite(Vals(t)) => NoWhite(Vals(t))'
  BY <1>1, <1>2, <1>3, <1>4, AtomicKept
<1>6. (\A u \in Obj : Kind[u] = "upval" /\ mark[u] = "gray" => NoWhite(Refs(u)))'
  <2> SUFFICES ASSUME NEW u \in Obj, Kind[u] = "upval", mark'[u] = "gray" PROVE NoWhite(Refs(u))'
    OBVIOUS
  <2>1. mark[u] = "gray"
    BY <1>3
  <2>2. NoWhite(Refs(u))
    BY <1>1, <1>2, <2>1 DEF MarkAtomic
  <2> QED BY <1>5, <2>2
<1>7. NoWhite(Elems(list["finobj"]) \cup Elems(list["tobefnz"]))'
  <2>1. Elems(list["finobj"]) \cup Elems(list["tobefnz"]) \subseteq Obj
    BY <1>2 DEF TypeOK, ListName, Elems
  <2>2. NoWhite(Elems(list["finobj"]) \cup Elems(list["tobefnz"])) /\ list' = list
    BY <1>1, <1>2 DEF MarkAtomic
  <2> QED BY <1>5, <2>1, <2>2 DEF NoWhite
<1>8. ASSUME NEW t \in Obj, t \in weak \cup allweak PROVE NoWhite(Vals(t))'
  <2>1. CASE t \in V
    BY <1>3, <2>1
  <2>2. CASE t \in orig
    BY <1>1, <1>2, <1>5, <2>2 DEF MarkAtomic
  <2> QED BY <1>8, <2>1, <2>2
<1>9. ASSUME NEW t \in Obj, t \in ephemeron PROVE NoWhite(Vals(t))' /\ NoWhite(Keys(t))'
  <2>1. NoWhite(EphemeronMarks(t))
    BY <1>1, <1>2, <1>9 DEF MarkAtomic
  <2>2. EphemeronMarks(t) \subseteq Obj
    BY <1>2 DEF EphemeronMarks, TypeOK, Entry
  <2>3. \A x \in Vals(t)' : ~IsWhite(x)'
    <3>1. Vals(t)' \subseteq EphemeronMarks(t)
      BY <1>3, <1>9
    <3> QED BY <1>5, <2>1, <2>2, <3>1 DEF NoWhite
  <2>4. t \in K
    BY <1>9
  <2> QED BY <1>3, <2>3, <2>4 DEF NoWhite
<1>10. \A t \in Obj : NoWhite(Keys(t))' /\ NoWhite(Vals(t))' => NoWhite(Refs(t))'
  <2>1. \A t \in Obj : Refs(t)' \subseteq Keys(t)' \cup Vals(t)'
    BY DEF Refs, Objs, Keys, Vals
  <2> QED BY <2>1 DEF NoWhite
<1>11. ASSUME NEW o \in Obj, ~IsWhite(o)' PROVE NoWhite(Succ(o))'
  <2>1. \A x \in Obj : Kind[x] # "thread" => OpenUpvals(x) = {}
    BY ConstantsAssumption DEF Shape, OpenUpvals
  <2>2. /\ OpenUpvals(o)' = OpenUpvals(o) /\ Succ(o)' \subseteq Succ(o)
        /\ Succ(o)' = Refs(o)' \cup OpenUpvals(o)'
    BY <1>1, <1>2, <1>3, LessHeap DEF Succ
  <2>3. CASE mark'[o] = "free"
    <3>1. mark[o] = "free"
      BY <1>4, <2>3 DEF Marks
    <3>2. Refs(o) = {}
      BY <3>1 DEF Shape, Refs
    <3>3. OpenUpvals(o) = {}
      BY <3>1, ConstantsAssumption DEF Shape, OpenUpvals
    <3> QED BY <2>2, <3>2, <3>3 DEF NoWhite, Succ
  <2>4. CASE mark'[o] = "black"
    BY <1>4, <2>4 DEF MarkBase, Tri, NoWhite, IsWhite
  <2>5. CASE mark'[o] = "gray" /\ Kind[o] = "upval"
    BY <1>6, <2>1, <2>2, <2>5 DEF NoWhite
  <2>6. CASE mark'[o] = "gray" /\ Kind[o] # "upval"
    <3>1. o \in gray \cup grayagain \cup weak \cup ephemeron \cup allweak \cup again \cup todo
      BY <1>1, <1>4, <2>6 DEF MarkBase, Listed
    <3>2. Kind[o] = "table"
      BY <1>1, <1>2, <3>1 DEF MarkBase, MarkAtomic
    <3>3. NoWhite(Refs(o))'
      <4>1. CASE o \in grayagain
        BY <1>1, <1>5, <4>1
      <4>2. CASE o \in weak
        BY <1>1, <1>5, <1>8, <1>10, <4>2
      <4>3. CASE o \in allweak
        BY <1>3, <1>8, <1>10, <4>3
      <4>4. CASE o \in ephemeron
        BY <1>9, <1>10, <4>4
      <4> QED BY <1>1, <1>2, <3>1, <4>1, <4>2, <4>3, <4>4
    <3> QED BY <2>1, <2>2, <3>2, <3>3 DEF NoWhite
  <2>7. mark'[o] \in {"free", "black", "gray"}
    <3>1. mark' \in Heaps
      BY <1>2, <1>3, MarkedType DEF TypeOK, Heaps
    <3> QED BY <1>11, <3>1 DEF Heaps, Colours, IsWhite, White, Whites
  <2> QED BY <2>3, <2>4, <2>5, <2>6, <2>7
<1>12. MarkAtomic'
  BY <1>1, <1>5, <1>6, <1>7, <1>11 DEF MarkAtomic
<1> QED BY <1>1, <1>4, <1>12 DEF Marking

-----------------------------------------------------------------------------
(* The steps of the marking phases keep the rest of Safe: they free nothing *)
(* and only take references out of weak tables.                             *)

MarkingStep ==
  \/ RestartCollection \/ Propagate \/ EnterAtomic
  \/ AtomicStart \/ AtomicPropagate \/ AtomicRemarkUpvals \/ AtomicGrayAgain
  \/ ConvergePass \/ (\E o \in Obj : ConvergeVisit(o))
  \/ AtomicClearValues \/ AtomicSeparate \/ AtomicMarkBeingFnz \/ AtomicClearKeys

\* what all of them do to the heap
MarkingHeap ==
  /\ Darker
  /\ UNCHANGED <<owner, running, savedtop, finalizing>>
  /\ \A o \in Obj : fields'[o] \subseteq fields[o] /\ (Kind[o] # "table" => fields'[o] = fields[o])
  /\ ~IsSweepPhase /\ ~IsSweepPhase'
  /\ Elems(list'["finobj"]) \cup Elems(list'["tobefnz"])
       = Elems(list["finobj"]) \cup Elems(list["tobefnz"])

LEMMA MarkingMarks ==
  ASSUME TypeInv, Control, Placement, Marking,
         RestartCollection \/ EnterAtomic \/ AtomicStart
           \/ AtomicRemarkUpvals \/ AtomicGrayAgain \/ ConvergePass \/ AtomicMarkBeingFnz
  PROVE  MarkingHeap
<1> USE DEF heapVars, sweepVars, runVars
<1>0. TypeOK /\ \A x : Refs(x) = UNION {Objs(e) : e \in fields[x]}
  BY DEF TypeInv, Refs
<1>1. /\ UNCHANGED <<owner, fields, list, running, savedtop, finalizing>>
      /\ gcstate \in {"pause", "propagate", "enteratomic", "atomic"}
      /\ gcstate' \in {"pause", "propagate", "enteratomic", "atomic"}
  BY DEF RestartCollection, EnterAtomic, AtomicStart, AtomicRemarkUpvals, AtomicGrayAgain,
         ConvergePass, AtomicMarkBeingFnz, AtomicAt, Control
<1>2. Darker
  <2>1. ASSUME NEW S \in SUBSET Obj, mark' = Marked(mark, S) PROVE Darker
    BY <2>1, MarkDarker
  <2>2. CASE mark' = mark
    BY <2>2 DEF Darker
  <2>3. CASE RestartCollection
    <3>1. {MainThread} \cup RootTables \cup BeingFnz \subseteq Obj
      BY <1>0, ConstantsAssumption DEF ObjOfKind, BeingFnz, TypeOK, ListName, Elems
    <3> QED BY <2>1, <2>3, <3>1 DEF RestartCollection
  <2>4. CASE AtomicStart
    <3>1. {running} \cup RootTables \subseteq Obj
      BY <1>0, ConstantsAssumption DEF ObjOfKind, TypeOK
    <3> QED BY <2>1, <2>4, <3>1 DEF AtomicStart
  <2>5. CASE AtomicRemarkUpvals
    <3> DEFINE keep == {t \in twups : ~IsWhite(t) /\ OpenUpvals(t) # {}}
    <3>1. mark' = Marked(mark, Remarked(twups \ keep))
      BY <2>5 DEF AtomicRemarkUpvals
    <3>2. Remarked(twups \ keep) \subseteq Obj
      <4>1. \A u \in Obj : Refs(u) \subseteq Obj
        BY <1>0, RefsType
      <4> HIDE DEF keep
      <4> QED BY <4>1 DEF Remarked, OpenUpvals
    <3> HIDE DEF keep
    <3> QED BY <2>1, <3>1, <3>2
  <2>6. CASE AtomicMarkBeingFnz
    <3>1. BeingFnz \subseteq Obj
      BY <1>0 DEF BeingFnz, TypeOK, ListName, Elems
    <3> QED BY <2>1, <2>6, <3>1 DEF AtomicMarkBeingFnz
  <2> QED BY <2>2, <2>3, <2>4, <2>5, <2>6 DEF EnterAtomic, AtomicGrayAgain, ConvergePass
<1> QED BY <1>1, <1>2 DEF MarkingHeap, IsSweepPhase

LEMMA MarkingVisits ==
  ASSUME TypeInv, Control, Placement, Marking, Shape,
         Propagate \/ AtomicPropagate \/ \E o \in Obj : ConvergeVisit(o)
  PROVE  MarkingHeap
<1> USE DEF heapVars, sweepVars, runVars
<1>1. UNCHANGED <<owner, fields, list, running, savedtop, finalizing, gcstate>>
  BY DEF Propagate, AtomicPropagate, ConvergeVisit
<1>2. KeepInvariant /\ MarkBase
  BY DEF Propagate, AtomicPropagate, ConvergeVisit, AtomicAt, Control, KeepInvariant, Marking
<1>3. PICK o \in Obj : o \in gray \cup todo /\ Traverses(o)
  BY DEF Propagate, AtomicPropagate, PropagateMark, ConvergeVisit, Traverses
<1>4. Darker
  <2>1. mark[o] = "gray"
    BY <1>2, <1>3 DEF MarkBase, Listed
  <2> QED BY <1>3, <2>1, TraverseDarker DEF Traverses
<1> QED BY <1>1, <1>2, <1>4 DEF MarkingHeap, IsSweepPhase, KeepInvariant

LEMMA MarkingClears ==
  ASSUME TypeInv, Control, Placement, Marking, Shape, AtomicClearValues \/ AtomicClearKeys
  PROVE  MarkingHeap
<1> USE DEF heapVars, sweepVars, runVars
<1>1. /\ UNCHANGED <<owner, list, running, savedtop, finalizing, gcstate>>
      /\ at \in {"converge1", "converge2"}
      /\ \E V \in SUBSET (weak \cup allweak), K \in SUBSET (ephemeron \cup allweak) : ClearBy(V, K)
  <2>1. CASE AtomicClearValues
    BY <2>1 DEF AtomicClearValues, Converged, AtomicAt
  <2>2. CASE AtomicClearKeys
    <3>1. (weak \cup allweak) \ orig \in SUBSET (weak \cup allweak)
      OBVIOUS
    <3> QED BY <2>2, <3>1 DEF AtomicClearKeys, Converged, AtomicAt
  <2> QED BY <2>1, <2>2
<1>2. gcstate = "atomic" /\ MarkBase /\ TypeOK
  BY <1>1, AtomicMeans DEF TypeInv
<1>3. PICK V \in SUBSET (weak \cup allweak), K \in SUBSET (ephemeron \cup allweak) : ClearBy(V, K)
  BY <1>1
<1>4. V \in SUBSET Obj /\ K \in SUBSET Obj /\ \A t \in V \cup K : Kind[t] = "table"
  BY <1>2 DEF TypeOK, MarkBase
<1>5. Darker
  BY <1>3, <1>4, ClearByDarker
<1>6. \A o \in Obj : fields'[o] \subseteq fields[o] /\ (Kind[o] # "table" => fields'[o] = fields[o])
  BY <1>3, <1>4 DEF ClearBy
<1> QED BY <1>1, <1>2, <1>5, <1>6 DEF MarkingHeap, IsSweepPhase

LEMMA MarkingSeparates ==
  ASSUME TypeInv, Control, AtomicSeparate
  PROVE  MarkingHeap
<1> DEFINE f == list["finobj"]
           h == list'["finobj"]
<1>1. /\ UNCHANGED <<mark, fields, owner, running, savedtop, finalizing, gcstate>>
      /\ at # "no" /\ scan \in 1 .. Len(f)
      /\ \/ list' = [list EXCEPT !["finobj"] = Unlinked(f, scan), !["tobefnz"] = LinkLast(@, f[scan])]
         \/ list' = list
  BY DEF AtomicSeparate, TypeInv, TypeOK, sweepVars, runVars
<1>2. list \in Lists /\ f \in Seq(Obj) /\ list["tobefnz"] \in Seq(Obj)
  BY DEF TypeInv, TypeOK, Lists, ListName
<1>3. f[scan] \in Obj /\ f[scan] \in Elems(f)
  BY <1>1, <1>2 DEF Elems
<1>4. Elems(h) \cup Elems(list'["tobefnz"]) = Elems(f) \cup Elems(list["tobefnz"])
  <2>1. CASE list' = [list EXCEPT !["finobj"] = Unlinked(f, scan), !["tobefnz"] = LinkLast(@, f[scan])]
    <3>1. h = Unlinked(f, scan) /\ list'["tobefnz"] = Append(list["tobefnz"], f[scan])
      BY <1>2, <2>1 DEF Lists, ListName, LinkLast
    <3> HIDE DEF f, h
    <3>2. Elems(h) \subseteq Elems(f) /\ Elems(f) \ {f[scan]} \subseteq Elems(h)
      BY <1>1, <1>2, <3>1, UnlinkedElems
    <3>3. Elems(list'["tobefnz"]) = Elems(list["tobefnz"]) \cup {f[scan]}
      BY <1>2, <1>3, <3>1, AppendElems
    <3> QED BY <1>3, <3>2, <3>3
  <2>2. CASE list' = list
    BY <2>2
  <2> QED BY <1>1, <2>1, <2>2
<1> QED BY <1>1, <1>4 DEF MarkingHeap, Darker, IsSweepPhase, Control

LEMMA MarkingKeepsHeap ==
  ASSUME TypeInv, Shape, Closed(Live), MarkingHeap
  PROVE  Shape' /\ Closed(Live)'
<1>1. TypeOK /\ running \in Obj
  BY DEF TypeInv, TypeOK
<1>2. /\ \A o \in Obj : mark'[o] = "free" <=> mark[o] = "free"
      /\ owner' = owner /\ running' = running /\ savedtop' = savedtop /\ finalizing' = finalizing
      /\ \A o \in Obj : Kind[o] # "table" => fields'[o] = fields[o]
      /\ \A o \in Obj : fields'[o] \subseteq fields[o]
  BY DarkerMeans DEF MarkingHeap
<1>3. \A o \in Obj : Refs(o)' \subseteq Refs(o) /\ Succ(o)' \subseteq Succ(o)
  BY <1>1, <1>2, LessHeap
<1>4. Shape'
  <2>1. \A o \in Obj : Kind[o] # "closure" => \A x \in Refs(o)' : Kind[x] # "upval"
    BY <1>3 DEF Shape
  <2>2. \A u \in Obj : owner[u] # Nil => owner[u] \in Obj
    BY <1>1 DEF TypeOK
  <2>3. \A u \in Obj : owner'[u] # Nil =>
          Kind[u] = "upval" /\ Kind[owner'[u]] = "thread" /\ mark'[owner'[u]] # "free"
    BY <1>2, <2>2 DEF Shape
  <2>4. savedtop' \subseteq fields'[running']
    BY <1>1, <1>2 DEF Shape
  <2>5. /\ \A o \in Obj : mark'[o] = "free" => fields'[o] = {}
        /\ \A o \in Obj : Kind[o] = "string" => fields'[o] = {}
    BY <1>2 DEF Shape
  <2> QED BY <1>2, <2>1, <2>3, <2>4, <2>5 DEF Shape
<1>5. Live = Allocated /\ Live' = Allocated /\ Anchors' = Anchors
  <2>1. Live' = Live /\ Live = Allocated
    BY <1>2 DEF MarkingHeap, Live, Allocated
  <2>2. Anchors' = {MainThread, running'} \cup RootTables
                     \cup (Elems(list'["finobj"]) \cup Elems(list'["tobefnz"]))
    BY DEF Anchors
  <2>3. Anchors = {MainThread, running} \cup RootTables
                     \cup (Elems(list["finobj"]) \cup Elems(list["tobefnz"]))
    BY DEF Anchors
  <2> QED BY <1>2, <2>1, <2>2, <2>3 DEF MarkingHeap
<1>6. Closed(Live)'
  <2>1. Allocated \subseteq Obj
    BY DEF Allocated
  <2>2. Anchors' \subseteq Live' /\ \A o \in Live' : Succ(o)' \subseteq Live'
    BY <1>3, <1>5, <2>1 DEF Closed
  <2> QED BY <2>2 DEF Closed
<1> QED BY <1>4, <1>6

\* a thread that turns black has been traversed, and is again in 'twups' if it
\* has open upvalues
LEMMA TwupsMarked ==
  ASSUME TypeInv, Shape, Twups, Marking, Marking', MarkingHeap, twups \subseteq twups',
         KeepInvariant, KeepInvariant',
         at \notin {"no", "propagate"} => at' \notin {"no", "propagate"},
         \A t \in Obj : /\ Kind[t] = "thread" /\ mark'[t] = "black" /\ mark[t] # "black"
                        /\ OpenUpvals(t) # {} /\ at \notin {"no", "propagate"}
                        => t \in twups'
  PROVE  Twups'
<1> SUFFICES ASSUME NEW u \in Obj, owner[u] # Nil, owner[u] \notin twups
             PROVE  \/ owner[u] \in twups'
                    \/ at' \notin {"no", "propagate"}
                       /\ (IsWhite(owner[u])' \/ owner[u] \in gray' \cup again')
  BY DEF Twups, MarkingHeap
<1> DEFINE t == owner[u]
<1>1. t \in Obj /\ Kind[t] = "thread" /\ OpenUpvals(t) # {}
  BY DEF TypeInv, TypeOK, Shape, OpenUpvals
<1>2. at \notin {"no", "propagate"} /\ (IsWhite(t) \/ t \in gray \cup again)
  BY DEF Twups, MarkingHeap
<1> HIDE DEF t
<1>3. mark[t] \in {"white0", "white1", "gray"}
  BY <1>1, <1>2 DEF Marking, MarkBase, Listed, IsWhite, White, Whites
<1>4. mark'[t] \in {"white0", "white1", "gray", "black"}
  BY <1>1, <1>3 DEF MarkingHeap, Darker
<1>5. CASE mark'[t] \in {"white0", "white1"}
  BY <1>1, <1>2, <1>5 DEF t, MarkingHeap, IsWhite, White, Whites
<1>6. CASE mark'[t] = "black"
  BY <1>1, <1>2, <1>3, <1>6 DEF t
<1>7. CASE mark'[t] = "gray"
  <2>1. MarkBase' /\ MarkAtomic'
    BY <1>2 DEF Marking
  <2>2. t \in gray' \cup grayagain' \cup weak' \cup ephemeron' \cup allweak' \cup again' \cup todo'
    BY <1>1, <1>7, <2>1 DEF MarkBase, Listed
  <2>3. t \notin grayagain' \cup weak' \cup ephemeron' \cup allweak' \cup todo'
    BY <1>1, <2>1 DEF MarkBase, MarkAtomic
  <2> QED BY <1>2, <2>2, <2>3 DEF t
<1> QED BY <1>4, <1>5, <1>6, <1>7

LEMMA MarkingTwupsOpen ==
  ASSUME TypeInv, Control, Shape, Twups, Marking, MarkingHeap,
         RestartCollection \/ EnterAtomic \/ AtomicStart \/ Propagate
  PROVE  Twups'
<1>1. at = "no" /\ UNCHANGED owner
  BY DEF RestartCollection, EnterAtomic, AtomicStart, Propagate, CollectorRuns, heapVars
<1>2. twups \subseteq twups'
  <2>1. CASE Propagate
    BY <2>1 DEF Propagate, PropagateMark, TraverseStrong, TraverseWeakValue, TraverseEphemeron,
                TraverseAllWeak, TraverseThread
  <2> QED BY <2>1 DEF RestartCollection, EnterAtomic, AtomicStart, grayVars
<1> QED BY <1>1, <1>2 DEF Twups, MarkingHeap

LEMMA MarkingTwupsVisit ==
  ASSUME TypeInv, Control, Shape, Twups, Marking, Marking', MarkingHeap,
         AtomicPropagate \/ \E o \in Obj : ConvergeVisit(o)
  PROVE  Twups'
<1> USE DEF heapVars, sweepVars, runVars, atomicVars
<1>1. at # "no" /\ UNCHANGED <<at, gcstate>>
  BY DEF AtomicPropagate, ConvergeVisit, AtomicAt
<1>2. gcstate = "atomic" /\ MarkBase /\ MarkAtomic /\ TypeOK /\ KeepInvariant /\ KeepInvariant'
  BY <1>1, AtomicMeans DEF TypeInv, KeepInvariant
<1>3. PICK o \in Obj : o \in gray \cup todo /\ Traverses(o)
  BY DEF AtomicPropagate, PropagateMark, ConvergeVisit, Traverses
<1>4. PICK c \in {"gray", "black"}, S \in SUBSET Obj : Traversal(o, c, S)
  BY <1>2, <1>3, Traversed
<1>5. mark[o] = "gray"
  BY <1>2, <1>3 DEF MarkBase, Listed
<1>6. Painted(o, c, S)
  BY <1>2, <1>4, <1>5, VisitPaints DEF Traversal
<1>7. \A t \in Obj : Kind[t] = "thread" /\ mark'[t] = "black" /\ mark[t] # "black" => t = o
  BY <1>6 DEF Painted
<1>8. twups \subseteq twups' /\ (Kind[o] = "thread" /\ OpenUpvals(o) # {} => o \in twups')
  BY <1>2, <1>4 DEF Traversal
<1> QED BY <1>1, <1>2, <1>7, <1>8, TwupsMarked

LEMMA MarkingTwupsRemark ==
  ASSUME TypeInv, Control, Shape, Twups, Marking, Marking', MarkingHeap, AtomicRemarkUpvals
  PROVE  Twups'
<1> USE DEF heapVars, sweepVars, runVars
<1> DEFINE keep == {t \in twups : ~IsWhite(t) /\ OpenUpvals(t) # {}}
           S == Remarked(twups \ keep)
<1>1. /\ at = "propagate" /\ at' = "remark" /\ twups' = keep
      /\ mark' = Marked(mark, S) /\ UNCHANGED owner
  BY DEF AtomicRemarkUpvals, AtomicAt
<1>2. TypeOK /\ mark \in Heaps /\ ~IsSweepPhase
  BY DEF TypeInv, TypeOK, Heaps, MarkingHeap
<1>3. S \in SUBSET Obj
  <2>1. \A u \in Obj : Refs(u) \subseteq Obj
    BY <1>2, RefsType
  <2> HIDE DEF keep
  <2> QED BY <2>1 DEF Remarked, OpenUpvals
<1> HIDE DEF S
<1>4. Marks(mark, mark', Linked(mark, S))
  BY <1>1, <1>2, <1>3, MarkedEffect DEF Shape
<1> SUFFICES ASSUME NEW u \in Obj, owner[u] # Nil, owner[u] \notin keep
             PROVE  IsWhite(owner[u])' \/ owner[u] \in gray' \cup again'
  BY <1>1 DEF Twups, MarkingHeap
<1>5. owner[u] \in Obj /\ Kind[owner[u]] = "thread" /\ owner[u] \in twups /\ u \in OpenUpvals(owner[u])
  BY <1>1, <1>2 DEF TypeOK, Shape, Twups, OpenUpvals
<1>6. IsWhite(owner[u])
  BY <1>5
<1>7. CASE mark'[owner[u]] = mark[owner[u]]
  BY <1>1, <1>6, <1>7 DEF IsWhite, White
<1>8. CASE mark'[owner[u]] # mark[owner[u]]
  <2>1. mark'[owner[u]] = "gray"
    BY <1>4, <1>5, <1>8 DEF Marks
  <2>2. MarkBase' /\ MarkAtomic'
    <3>1. gcstate' = "atomic"
      BY <1>1 DEF AtomicRemarkUpvals, Control
    <3> QED BY <1>1, <3>1 DEF Marking, KeepInvariant
  <2>3. owner[u] \in gray' \cup grayagain' \cup weak' \cup ephemeron' \cup allweak' \cup again' \cup todo'
    BY <1>5, <2>1, <2>2 DEF MarkBase, Listed
  <2>4. owner[u] \notin grayagain' \cup weak' \cup ephemeron' \cup allweak' \cup todo'
    BY <1>5, <2>2 DEF MarkBase, MarkAtomic
  <2> QED BY <2>3, <2>4
<1> QED BY <1>7, <1>8

LEMMA MarkingTwupsRest ==
  ASSUME TypeInv, Control, Shape, Twups, Marking, Marking', MarkingHeap,
         AtomicGrayAgain \/ ConvergePass \/ AtomicClearValues \/ AtomicSeparate
           \/ AtomicMarkBeingFnz \/ AtomicClearKeys
  PROVE  Twups'
<1> USE DEF heapVars, sweepVars, grayVars, runVars
<1>1. at \notin {"no", "propagate"} /\ at' \notin {"no", "propagate"} /\ UNCHANGED <<gcstate, twups>>
  BY DEF AtomicGrayAgain, ConvergePass, AtomicClearValues, AtomicSeparate,
         AtomicMarkBeingFnz, AtomicClearKeys, AtomicAt, Converged
<1>2. gcstate = "atomic" /\ MarkBase /\ MarkAtomic /\ TypeOK /\ KeepInvariant /\ KeepInvariant'
  BY <1>1, AtomicMeans DEF TypeInv, KeepInvariant
<1>3. \A t \in Obj : Kind[t] = "thread" /\ mark'[t] = "black" => mark[t] = "black"
  <2>1. ASSUME NEW S \in SUBSET Obj, mark' = Marked(mark, S)
        PROVE  \A t \in Obj : Kind[t] = "thread" /\ mark'[t] = "black" => mark[t] = "black"
    <3>1. Marks(mark, mark', Linked(mark, S))
      BY <1>2, <2>1, MarkedEffect DEF Shape, TypeOK, Heaps
    <3> QED BY <3>1 DEF Marks
  <2>2. CASE AtomicGrayAgain \/ ConvergePass \/ AtomicSeparate
    BY <2>2 DEF AtomicGrayAgain, ConvergePass, AtomicSeparate
  <2>3. CASE AtomicMarkBeingFnz
    <3>1. BeingFnz \subseteq Obj
      BY <1>2 DEF BeingFnz, TypeOK, ListName, Elems
    <3> QED BY <2>1, <2>3, <3>1 DEF AtomicMarkBeingFnz
  <2>4. CASE AtomicClearValues \/ AtomicClearKeys
    <3>1. \E V \in SUBSET Obj, K \in SUBSET Obj : ClearBy(V, K)
      <4>1. weak \cup allweak \in SUBSET Obj /\ {} \in SUBSET Obj /\ ephemeron \cup allweak \in SUBSET Obj
            /\ (weak \cup allweak) \ orig \in SUBSET Obj
        BY <1>2 DEF TypeOK
      <4> QED BY <2>4, <4>1 DEF AtomicClearValues, AtomicClearKeys
    <3>2. PICK S \in SUBSET Obj : mark' = Marked(mark, S)
      BY <2>4, <3>1, Cleared DEF AtomicClearValues, AtomicClearKeys
    <3> QED BY <2>1, <3>2
  <2> QED BY <2>2, <2>3, <2>4
<1> QED BY <1>1, <1>2, <1>3, TwupsMarked

\* the marking phases, as a whole
LEMMA SafeMarking ==
  ASSUME TypeInv, Control, Placement, Sweeping, Safe, MarkingStep
  PROVE  Safe'
<1>0. Shape /\ Closed(Live) /\ Marking /\ Twups
  BY DEF Safe
<1>1. MarkingHeap
  BY <1>0, MarkingMarks, MarkingVisits, MarkingClears, MarkingSeparates DEF MarkingStep
<1>2. Marking'
  BY <1>0, MarkingPropagate, MarkingVisit, MarkingStart, MarkingRemark, MarkingLists,
     MarkingClearValues, MarkingSeparate, MarkingBeingFnz, MarkingClearKeys DEF MarkingStep
<1>3. Shape' /\ Closed(Live)'
  BY <1>0, <1>1, MarkingKeepsHeap
<1>4. Twups'
  BY <1>0, <1>1, <1>2, MarkingTwupsOpen, MarkingTwupsVisit, MarkingTwupsRemark, MarkingTwupsRest
     DEF MarkingStep
<1> QED BY <1>2, <1>3, <1>4 DEF Safe

-----------------------------------------------------------------------------
(* The sweep *)

Spared == {o \in Obj : mark[o] # "free" /\ ~IsDead(o)}

\* what a step may not free
Kept == \A x \in Anchors : mark'[x] # "free"

LEMMA SparedLive ==
  /\ IsSweepPhase => Live = Spared
  /\ (\A o \in Obj : ~IsDead(o)) => Live = Spared
  BY DEF Live, Spared

\* freeing dead objects D and repainting others W, when nothing alive refers
\* to a dead object
LEMMA SweptSafe ==
  ASSUME TypeInv, Placement, Shape, NEW D \in SUBSET Obj, NEW W \in SUBSET Spared, Swept(D, W),
         \A o \in D : IsDead(o), \A o \in Spared : Succ(o) \subseteq Spared,
         running \in Spared, Anchors' \subseteq Spared,
         UNCHANGED <<currentwhite, running, savedtop, finalizing, twups>>, IsSweepPhase',
         \A u \in Obj : owner[u] # Nil => owner[u] \in twups \/ IsDead(owner[u])
  PROVE  Safe' /\ Live' = Spared
<1>0. /\ TypeOK /\ D \cap W = {} /\ D \cap Spared = {} /\ W \subseteq Spared
      /\ OtherWhite' = OtherWhite /\ OtherWhite # currentwhite
      /\ OtherWhite \notin {"free", "gray", "black"} /\ currentwhite \notin {"free", "gray", "black"}
      /\ Nil \notin Obj /\ running \in Obj
  BY ConstantsAssumption DEF TypeInv, TypeOK, Spared, OtherWhite, Whites
<1>1. /\ mark' = [o \in Obj |->
           IF o \in D THEN "free"
           ELSE IF o \in W THEN currentwhite
           ELSE IF owner[o] \in D /\ ~IsWhite(o)
                THEN IF \E v \in Refs(o) : IsWhite(v) THEN currentwhite ELSE "black"
           ELSE mark[o]]
      /\ fields' = [o \in Obj |-> IF o \in D THEN {} ELSE fields[o]]
      /\ owner'  = [o \in Obj |-> IF o \in D \/ owner[o] \in D THEN Nil ELSE owner[o]]
  BY DEF Swept
<1>2. \A o \in Obj : mark[o] = "free" => owner[o] \notin D
  BY <1>0 DEF Placement
<1>3. Live' = Spared
  <2>1. \A o \in Obj : mark'[o] # "free" /\ mark'[o] # OtherWhite <=> o \in Spared
    <3> SUFFICES ASSUME NEW o \in Obj
                 PROVE  mark'[o] # "free" /\ mark'[o] # OtherWhite <=> o \in Spared
      OBVIOUS
    <3>1. CASE o \in D
      BY <1>0, <1>1, <3>1
    <3>2. CASE o \notin D /\ o \in W
      BY <1>0, <1>1, <3>2
    <3>3. CASE o \notin D /\ o \notin W /\ owner[o] \in D /\ ~IsWhite(o)
      <4>1. mark'[o] \in {currentwhite, "black"}
        BY <1>1, <3>3
      <4>2. mark[o] # "free" /\ ~IsDead(o)
        BY <1>0, <1>2, <3>3 DEF IsWhite, White, IsDead, OtherWhite, Whites
      <4> QED BY <1>0, <4>1, <4>2 DEF Spared
    <3>4. CASE o \notin D /\ o \notin W /\ ~(owner[o] \in D /\ ~IsWhite(o))
      BY <1>0, <1>1, <3>4 DEF Spared, IsDead
    <3> QED BY <3>1, <3>2, <3>3, <3>4
  <2> QED BY <1>0, <2>1 DEF Live, Spared, IsDead
<1>4. \A o \in Spared : Refs(o)' = Refs(o) /\ OpenUpvals(o)' \subseteq OpenUpvals(o)
  <2>1. \A o \in Spared : o \in Obj /\ o \notin D /\ o # Nil
    BY <1>0 DEF Spared
  <2>2. \A o \in Spared : fields'[o] = fields[o]
    BY <1>1, <2>1
  <2>3. \A o \in Spared : \A u \in Obj : owner'[u] = o => owner[u] = o
    BY <1>1, <2>1
  <2> QED BY <2>2, <2>3 DEF Refs, OpenUpvals
<1>5. Closed(Live)'
  <2>1. \A o \in Spared : Succ(o)' \subseteq Succ(o)
    BY <1>4 DEF Succ
  <2>2. Anchors' \subseteq Live' /\ \A o \in Live' : Succ(o)' \subseteq Live'
    BY <1>3, <2>1
  <2> QED BY <2>2 DEF Closed
<1>6. Shape'
  <2>1. \A o \in Obj : mark'[o] = "free" => mark[o] = "free" \/ o \in D
    BY <1>0, <1>1
  <2>2. \A o \in Obj : mark'[o] = "free" => fields'[o] = {}
    BY <1>1, <2>1 DEF Shape
  <2>3. \A o \in Obj : Kind[o] = "string" => fields'[o] = {}
    BY <1>1 DEF Shape
  <2>4. \A o \in Obj : Refs(o)' \subseteq Refs(o)
    BY <1>1 DEF Refs
  <2>5. \A o \in Obj : Kind[o] # "closure" => \A x \in Refs(o)' : Kind[x] # "upval"
    BY <2>4 DEF Shape
  <2>6. \A u \in Obj : owner'[u] # Nil => owner'[u] = owner[u] /\ owner[u] \notin D /\ owner[u] \in Obj
    BY <1>0, <1>1 DEF TypeOK
  <2>7. \A u \in Obj : owner'[u] # Nil =>
          Kind[u] = "upval" /\ Kind[owner'[u]] = "thread" /\ mark'[owner'[u]] # "free"
    BY <2>1, <2>6 DEF Shape
  <2>8. savedtop' \subseteq fields'[running']
    <3>1. running \notin D
      BY <1>0
    <3> QED BY <1>0, <1>1, <3>1 DEF Shape
  <2>9. Kind[running'] = "thread" /\ (finalizing' # "call" => savedtop' = {})
    BY DEF Shape
  <2> QED BY <2>2, <2>3, <2>5, <2>7, <2>8, <2>9 DEF Shape
<1>7. Twups'
  <2> SUFFICES ASSUME NEW u \in Obj, owner'[u] # Nil, owner'[u] \notin twups
               PROVE  IsDead(owner[u])'
    BY DEF Twups
  <2>1. owner'[u] = owner[u] /\ owner[u] \notin D /\ owner[u] \in Obj
    BY <1>0, <1>1 DEF TypeOK
  <2>2. IsDead(owner[u]) /\ Kind[owner[u]] = "thread"
    BY <2>1 DEF Shape
  <2>3. owner[u] \notin W /\ owner[owner[u]] = Nil
    <3>1. owner[owner[u]] # Nil => Kind[owner[u]] = "upval"
      BY <2>1 DEF Shape
    <3> QED BY <2>2, <3>1 DEF Spared
  <2>4. mark'[owner[u]] = mark[owner[u]]
    BY <1>0, <1>1, <2>1, <2>3
  <2> QED BY <1>0, <2>1, <2>2, <2>4 DEF IsDead
<1>8. Marking'
  BY DEF Marking, KeepInvariant, IsSweepPhase
<1> QED BY <1>3, <1>5, <1>6, <1>7, <1>8 DEF Safe

LEMMA EnterSweepSafe ==
  ASSUME TypeInv, Placement, Shape, EnterSweep,
         \A o \in Spared : Succ(o) \subseteq Spared, Anchors \subseteq Spared,
         UNCHANGED <<currentwhite, running, savedtop, finalizing, twups>>,
         \A u \in Obj : owner[u] # Nil => owner[u] \in twups \/ IsDead(owner[u])
  PROVE  Safe' /\ Live' = Spared
<1> DEFINE p == "allgc"
           r == SweepToLive(p)
<1>1. /\ gcstate' = "swpallgc" /\ list' = r.list /\ Swept(r.dead, r.live)
  BY DEF EnterSweep
<1>2. TypeOK /\ Placed(list, Allocated, tofin) /\ list \in Lists /\ Apart(list) /\ p \in ListName
  BY MainThreadPlaced DEF TypeInv, Placement, Placed, ListName
<1>3. MainThread \in Spared /\ running \in Spared
  BY DEF Anchors
<1> HIDE DEF r, p
<1>4. ListOf(p) = p
  BY <1>2, AheadIndex
<1>5. /\ \A o \in r.dead : IsDead(o) /\ o \in Allocated
      /\ r.live \subseteq Allocated /\ \A o \in r.live : ~IsDead(o)
      /\ \A l \in ListName \ {p} : r.list[l] = list[l]
  <2>1. ~IsDead(MainThread)
    BY <1>3 DEF Spared
  <2>2. r = SweepToLive(p)
    BY DEF r
  <2>3. /\ \A o \in r.dead : IsDead(o) /\ o \in Allocated
        /\ r.live \subseteq Allocated /\ \A o \in r.live : ~IsDead(o)
        /\ \A l \in ListName \ {ListOf(p)} : r.list[l] = list[l]
    BY <1>2, <2>1, <2>2, SweepToLivePlaced
  <2> QED BY <1>4, <2>3
<1>6. r.dead \in SUBSET Obj /\ r.live \in SUBSET Spared
  BY <1>5 DEF Allocated, Spared
<1>7. Anchors' \subseteq Spared
  <2>1. list'["finobj"] = list["finobj"] /\ list'["tobefnz"] = list["tobefnz"]
    BY <1>1, <1>5 DEF ListName, p
  <2>2. Anchors' = Anchors
    BY <2>1 DEF Anchors
  <2> QED BY <2>2
<1>8. IsSweepPhase'
  BY <1>1 DEF IsSweepPhase
<1> QED BY <1>1, <1>3, <1>5, <1>6, <1>7, <1>8, SweptSafe

\* the atomic phase ends: what it left white is garbage, for nothing marked
\* refers to it
LEMMA FlipSpares ==
  ASSUME TypeInv, Control, Placement, Sweeping, Safe, at = "flip"
  PROVE  /\ Anchors \subseteq Spared /\ \A o \in Spared : Succ(o) \subseteq Spared
         /\ \A u \in Obj : owner[u] # Nil => owner[u] \in twups \/ IsDead(owner[u])
<1>1. gcstate = "atomic" /\ MarkBase /\ MarkAtomic /\ TypeOK /\ again = {} /\ gray = {}
  BY AtomicMeans DEF Safe, TypeInv, Control, MarkAtomic
<1>2. \A o \in Obj : mark[o] # currentwhite
  BY DEF Sweeping, Cur
<1>3. \A o \in Obj : IsDead(o) <=> IsWhite(o)
  BY <1>1, <1>2 DEF IsDead, IsWhite, White, Whites, OtherWhite, TypeOK
<1>4. Live = Allocated /\ Spared = {o \in Allocated : ~IsWhite(o)}
  BY <1>1, <1>3 DEF Live, Spared, Allocated, IsSweepPhase
<1>5. \A o \in Spared : Succ(o) \subseteq Spared
  <2> SUFFICES ASSUME NEW o \in Spared, NEW x \in Succ(o) PROVE x \in Spared
    OBVIOUS
  <2>1. o \in Obj /\ o \in Live /\ ~IsWhite(o)
    BY <1>4 DEF Spared
  <2>2. ~IsWhite(x)
    BY <1>1, <2>1 DEF MarkAtomic, NoWhite
  <2>3. x \in Allocated
    BY <1>4, <2>1 DEF Safe, Closed
  <2> QED BY <1>4, <2>2, <2>3
<1>6. Anchors \subseteq Spared
  <2>1. Anchors \subseteq Allocated
    BY <1>4 DEF Safe, Closed
  <2>2. \A x \in Anchors : ~IsWhite(x)
    BY <1>1 DEF MarkBase, MarkAtomic, NoWhite, Anchors
  <2> QED BY <1>4, <2>1, <2>2
<1>7. \A u \in Obj : owner[u] # Nil => owner[u] \in twups \/ IsDead(owner[u])
  BY <1>1, <1>3 DEF Safe, Twups, IsSweepPhase, TypeOK
<1> QED BY <1>5, <1>6, <1>7

LEMMA SafeAtomicEnd ==
  ASSUME TypeInv, Control, Placement, Sweeping, Safe, AtomicEnd
  PROVE  Safe' /\ Kept
<1>1. /\ at = "flip" /\ EnterSweep
      /\ UNCHANGED <<currentwhite, running, savedtop, finalizing, twups>>
  BY DEF AtomicEnd, grayVars, runVars
<1>2. /\ Anchors \subseteq Spared /\ \A o \in Spared : Succ(o) \subseteq Spared
      /\ \A u \in Obj : owner[u] # Nil => owner[u] \in twups \/ IsDead(owner[u])
  BY <1>1, FlipSpares
<1>3. Safe' /\ Live' = Spared
  BY <1>1, <1>2, EnterSweepSafe DEF Safe
<1> QED BY <1>2, <1>3 DEF Kept, Live

\* a full collection that begins in the middle of a cycle starts a sweep that
\* frees nothing
LEMMA SafeFullGC ==
  ASSUME TypeInv, Control, Placement, Sweeping, Safe, NEW emergency, FullGC(emergency)
  PROVE  Safe' /\ Kept
<1>1. at = "no" /\ UNCHANGED <<currentwhite, grayVars, atomicVars, running, finalizing, savedtop>>
  BY DEF FullGC, ProgramRuns
<1>2. CASE KeepInvariant
  <2>1. EnterSweep /\ UNCHANGED twups
    BY <1>1, <1>2 DEF FullGC, grayVars
  <2>2. ~IsSweepPhase
    BY <1>2 DEF KeepInvariant, IsSweepPhase
  <2>3. Spared = Live /\ \A o \in Obj : ~IsDead(o)
    BY <1>1, <2>2, SparedLive DEF Sweeping
  <2>4. Anchors \subseteq Spared /\ \A o \in Spared : Succ(o) \subseteq Spared
    BY <2>3 DEF Safe, Closed
  <2>5. \A u \in Obj : owner[u] # Nil => owner[u] \in twups \/ IsDead(owner[u])
    BY <1>1, <2>2 DEF Safe, Twups
  <2>6. Safe' /\ Live' = Spared
    BY <1>1, <2>1, <2>4, <2>5, EnterSweepSafe DEF Safe
  <2> QED BY <2>4, <2>6 DEF Kept, Live
<1>3. CASE ~KeepInvariant
  <2>1. UNCHANGED <<mark, fields, owner, list, gcstate, currentwhite, running, finalizing, savedtop,
                    gray, again, twups, at>>
    BY <1>1, <1>3 DEF FullGC, heapVars, grayVars, atomicVars
  <2>2. Shape' /\ Closed(Live)' /\ Twups'
    BY <2>1 DEF Safe, Shape, Closed, Live, Anchors, Succ, Refs, OpenUpvals, Twups, IsDead, IsWhite,
                White, IsSweepPhase, OtherWhite
  <2>3. Marking'
    BY <1>3, <2>1 DEF Marking, KeepInvariant
  <2>4. \A x \in Anchors : mark[x] # "free"
    BY DEF Safe, Closed, Live
  <2> QED BY <2>1, <2>2, <2>3, <2>4 DEF Safe, Kept
<1> QED BY <1>2, <1>3

LEMMA SafeSweepObject ==
  ASSUME TypeInv, Control, Placement, Sweeping, Safe, closing = "no", SweepObject
  PROVE  Safe' /\ Kept
<1> DEFINE l == ListOf(sweepgc)
           n == Behind(sweepgc) + 1
           s == list[l]
           o == s[n]
<1>1. /\ gcstate \in {"swpallgc", "swpfinobj", "swptobefnz"} /\ sweepgc # Nil /\ n <= Len(s)
      /\ \/ IsDead(o) /\ Swept({o}, {}) /\ list' = [list EXCEPT ![l] = Unlinked(s, n)]
         \/ ~IsDead(o) /\ Swept({}, {o}) /\ list' = list
      /\ UNCHANGED <<gcstate, currentwhite, running, savedtop, finalizing, twups>>
  BY DEF SweepObject, grayVars, runVars
<1>2. TypeOK /\ IsSweepPhase /\ IsSweepPhase' /\ list \in Lists
  BY <1>1, MainThreadPlaced DEF TypeInv, IsSweepPhase
<1>3. Spared = Live
  BY <1>2, SparedLive
<1>4. l \in ListName /\ Behind(sweepgc) \in 0 .. Len(s)
  <2>1. sweepgc \in ListName \/ \E k \in ListName : sweepgc \in Elems(list[k])
    BY <1>1, <1>2 DEF TypeInv, TypeOK, SweepgcLinked
  <2> QED BY <1>2, <2>1, BehindType
<1>5. s \in Seq(Obj) /\ n \in 1 .. Len(s) /\ \A k \in ListName : list[k] \in Seq(Obj)
  BY <1>1, <1>2, <1>4 DEF Lists
<1>6. o \in Obj /\ o \in Elems(s)
  BY <1>5 DEF Elems
<1>7. o \in Allocated
  BY <1>4, <1>6, MainThreadPlaced
<1>8. \A k \in ListName : Elems(list'[k]) \subseteq Elems(list[k])
  <2>1. CASE list' = [list EXCEPT ![l] = Unlinked(s, n)]
    <3>1. Elems(Unlinked(s, n)) \subseteq Elems(s)
      BY <1>5, UnlinkedElems
    <3> HIDE DEF n
    <3> QED BY <1>2, <1>4, <2>1, <3>1 DEF Lists
  <2>2. CASE list' = list
    BY <2>2
  <2> QED BY <1>1, <2>1, <2>2
<1> HIDE DEF o, n, s, l
<1>9. PICK D \in SUBSET Obj, W \in SUBSET Spared : Swept(D, W) /\ \A x \in D : IsDead(x)
  <2>1. CASE IsDead(o) /\ Swept({o}, {})
    BY <1>6, <2>1
  <2>2. CASE ~IsDead(o) /\ Swept({}, {o})
    BY <1>7, <2>2 DEF Spared, Allocated
  <2> QED BY <1>1, <2>1, <2>2
<1>10. Anchors \subseteq Spared /\ \A x \in Spared : Succ(x) \subseteq Spared
  BY <1>3 DEF Safe, Closed
<1>11. Anchors' \subseteq Spared /\ running \in Spared
  <2>1. Anchors' = {MainThread, running'} \cup RootTables
                     \cup Elems(list'["finobj"]) \cup Elems(list'["tobefnz"])
    BY DEF Anchors
  <2>2. Elems(list'["finobj"]) \subseteq Elems(list["finobj"]) /\ Elems(list'["tobefnz"]) \subseteq Elems(list["tobefnz"])
    BY <1>8 DEF ListName
  <2> QED BY <1>1, <1>10, <2>1, <2>2 DEF Anchors
<1>12. \A u \in Obj : owner[u] # Nil => owner[u] \in twups \/ IsDead(owner[u])
  BY <1>1 DEF Safe, Twups, Control
<1>13. Safe' /\ Live' = Spared
  BY <1>1, <1>2, <1>9, <1>10, <1>11, <1>12, SweptSafe DEF Safe
<1> QED BY <1>10, <1>13 DEF Kept, Live

\* steps that change neither the heap nor the colours
LEMMA SafeQuiet ==
  ASSUME TypeInv, Control, Placement, Sweeping, Orderly, Safe,
         \/ SweepNothing \/ SweepNext \/ FinishCycle \/ FullGCEnd \/ FinalizersEnd
         \/ StopGC \/ RestartGC \/ (\E t, m : SetMode(t, m)) \/ UNCHANGED vars
  PROVE  Safe' /\ Kept
<1>1. UNCHANGED <<mark, fields, owner, list, currentwhite, gray, grayagain, weak, ephemeron, allweak, twups,
                  at, again, todo, changed, orig, scan, running, savedtop>>
  <2> USE DEF heapVars, sweepVars, grayVars, atomicVars, runVars
  <2>1. CASE SweepNothing \/ SweepNext \/ FinishCycle \/ FullGCEnd \/ FinalizersEnd
    BY <2>1 DEF SweepNothing, SweepNext, FinishCycle, FullGCEnd, FinalizersEnd
  <2>2. CASE StopGC \/ RestartGC \/ (\E t, m : SetMode(t, m)) \/ UNCHANGED vars
    BY <2>2 DEF StopGC, RestartGC, SetMode, vars
  <2> QED BY <2>1, <2>2
<1>2. finalizing' = finalizing \/ (finalizing = "loop" /\ finalizing' = "no")
  <2> USE DEF heapVars, sweepVars, grayVars, atomicVars, runVars
  <2>1. CASE SweepNothing \/ SweepNext \/ FinishCycle \/ FullGCEnd \/ FinalizersEnd
    BY <2>1 DEF SweepNothing, SweepNext, FinishCycle, FullGCEnd, FinalizersEnd
  <2>2. CASE StopGC \/ RestartGC \/ (\E t, m : SetMode(t, m)) \/ UNCHANGED vars
    BY <2>2 DEF StopGC, RestartGC, SetMode, vars
  <2> QED BY <2>1, <2>2
<1>3. \/ gcstate' = gcstate
      \/ gcstate = "callfin" /\ gcstate' = "pause"
      \/ gcstate \in {"swpallgc", "swpfinobj", "swptobefnz"} /\ gcstate' \in {"swpfinobj", "swptobefnz", "swpend"}
      \/ gcstate = "swpend" /\ gcstate' = "callfin" /\ closing = "no"
  <2> USE DEF heapVars, sweepVars, grayVars, atomicVars, runVars
  <2>1. CASE SweepNothing \/ SweepNext \/ FinishCycle \/ FullGCEnd \/ FinalizersEnd
    BY <2>1, CollectorWhileOpen DEF SweepNothing, SweepNext, FinishCycle, FullGCEnd, FinalizersEnd
  <2>2. CASE StopGC \/ RestartGC \/ (\E t, m : SetMode(t, m)) \/ UNCHANGED vars
    BY <2>2 DEF StopGC, RestartGC, SetMode, vars
  <2> QED BY <2>1, <2>2
<1>4. Shape'
  BY <1>1, <1>2 DEF Safe, Shape, Refs
<1>5. IsSweepPhase' = IsSweepPhase \/ (IsSweepPhase /\ ~IsSweepPhase' /\ \A o \in Obj : ~IsDead(o))
  <2>1. CASE gcstate = "swpend" /\ gcstate' = "callfin" /\ closing = "no"
    <3>1. \A o \in Allocated : Cur(o)
      BY <2>1 DEF Sweeping
    <3>2. OtherWhite # "free" /\ OtherWhite # currentwhite
      BY DEF OtherWhite, TypeInv, TypeOK, Whites
    <3> QED BY <2>1, <3>1, <3>2 DEF Cur, Allocated, IsDead, IsSweepPhase
  <2> QED BY <1>3, <2>1 DEF IsSweepPhase
<1>6. Live' = Live /\ Twups'
  <2>1. \A o \in Obj : IsDead(o)' = IsDead(o) /\ IsWhite(o)' = IsWhite(o)
    BY <1>1 DEF IsDead, OtherWhite, IsWhite, White
  <2>2. Live' = Live
    BY <1>1, <1>5, <2>1 DEF Live
  <2>3. \A u \in Obj : owner[u] # Nil => owner[u] \in Obj
    BY DEF TypeInv, TypeOK
  <2>4. Twups'
    BY <1>1, <1>5, <2>1, <2>3 DEF Safe, Twups
  <2> QED BY <2>2, <2>4
<1>7. Closed(Live)'
  BY <1>1, <1>6 DEF Safe, Closed, Anchors, Succ, Refs, OpenUpvals
<1>8. Marking'
  <2>1. CASE gcstate' = gcstate
    <3>1. \A x \in Obj : Refs(x)' = Refs(x) /\ OpenUpvals(x)' = OpenUpvals(x) /\ Stack(x)' = Stack(x)
                         /\ Succ(x)' = Succ(x) /\ Keys(x)' = Keys(x) /\ Vals(x)' = Vals(x)
      BY <1>1, SameHeap
    <3>2. MarkBase' = MarkBase
      BY <1>1, <3>1 DEF MarkBase, Tri, Listed, GrayOpen, NoWhite, IsWhite, White
    <3>3. MarkOpen' = MarkOpen
      BY <1>1 DEF MarkOpen
    <3>4. MarkAtomic' = MarkAtomic
      BY <1>1 DEF MarkAtomic, NoWhite, IsWhite, White, Refs, Keys, Vals, Stack, OpenUpvals, Succ, EphemeronMarks
    <3> QED BY <1>1, <2>1, <3>2, <3>3, <3>4 DEF Safe, Marking, KeepInvariant
  <2>2. CASE gcstate' # gcstate
    BY <1>3, <2>2 DEF Marking, KeepInvariant
  <2> QED BY <2>1, <2>2
<1>9. \A x \in Anchors : mark[x] # "free"
  BY DEF Safe, Closed, Live
<1> QED BY <1>1, <1>4, <1>6, <1>7, <1>8, <1>9 DEF Safe, Kept

-----------------------------------------------------------------------------
(* The program.  What it has at hand is alive, so what it writes is too.    *)

LEMMA HandsLive ==
  ASSUME TypeInv, Shape, Closed(Live)
  PROVE  /\ running \in Live /\ Regs \subseteq Live /\ AtHand \subseteq Live
         /\ OpenUpvals(running) \subseteq Live
         /\ \A o \in AtHand : Readable(o) \subseteq Live
         /\ \A v \in AtHand : Kind[v] # "upval"
         /\ Live \subseteq Obj /\ Anchors \subseteq Live
         /\ \A x \in Live : mark[x] # "free" /\ Succ(x) \subseteq Live
<1>1. Live \subseteq Obj /\ Anchors \subseteq Live /\ \A x \in Live : mark[x] # "free" /\ Succ(x) \subseteq Live
  BY DEF Closed, Live
<1>2. \A o \in Live : Refs(o) \subseteq Live /\ OpenUpvals(o) \subseteq Live
  BY <1>1 DEF Succ
<1>3. \A o \in Live : Stack(o) \subseteq Live
  BY <1>2 DEF Stack
<1>4. running \in Live /\ RootTables \subseteq Live
  BY <1>1 DEF Anchors
<1>5. \A o \in Live : Readable(o) \subseteq Live
  BY <1>2, <1>3 DEF Readable
<1>6. \A v \in AtHand : Kind[v] # "upval"
  <2>1. \A v \in RootTables : Kind[v] # "upval"
    BY ConstantsAssumption DEF ObjOfKind
  <2>2. \A u \in OpenUpvals(running) : u \in Obj /\ Kind[u] # "closure"
    <3>1. \A u \in OpenUpvals(running) : u \in Obj /\ owner[u] # Nil
      BY ConstantsAssumption DEF OpenUpvals, TypeInv, TypeOK
    <3> QED BY <3>1 DEF Shape
  <2>3. \A v \in Regs : Kind[v] # "upval"
    BY <1>1, <1>4, <2>2 DEF Shape, Regs, Stack
  <2> QED BY <2>1, <2>3 DEF AtHand
<1> QED BY <1>1, <1>2, <1>3, <1>4, <1>5, <1>6 DEF Regs, AtHand

\* the references of object o are those of F, and what is new in them is in A
Writes(o, F, A) ==
  /\ fields' = [fields EXCEPT ![o] = F]
  /\ F \subseteq Entry
  /\ \A e \in F : e \in fields[o] \/ Objs(e) \subseteq A
  /\ Kind[o] # "string"
  /\ Kind[o] # "closure" => \A x \in A : Kind[x] # "upval"

LEMMA WritesMeans ==
  ASSUME TypeOK, NEW o \in Obj, NEW F, NEW A, Writes(o, F, A), UNCHANGED owner
  PROVE  /\ \A x \in Obj \ {o} : fields'[x] = fields[x] /\ Refs(x)' = Refs(x) /\ Succ(x)' = Succ(x)
         /\ fields'[o] = F
         /\ Refs(o)' \subseteq Refs(o) \cup A /\ Succ(o)' \subseteq Succ(o) \cup A
         /\ \A x \in Obj : OpenUpvals(x)' = OpenUpvals(x)
<1>1. fields'[o] = F /\ \A x \in Obj \ {o} : fields'[x] = fields[x]
  BY DEF Writes, TypeOK
<1>2. \A x \in Obj \ {o} : Refs(x)' = Refs(x)
  BY <1>1 DEF Refs
<1>3. Refs(o)' \subseteq Refs(o) \cup A
  BY <1>1 DEF Refs, Writes
<1>4. \A x \in Obj : OpenUpvals(x)' = OpenUpvals(x)
  BY DEF OpenUpvals
<1> QED BY <1>1, <1>2, <1>3, <1>4 DEF Succ

\* a step that writes one object, allocates at most N, all of it empty, and
\* frees nothing
LEMMA WriteKeepsHeap ==
  ASSUME TypeInv, Shape, Closed(Live), NEW o \in Obj, NEW F, NEW A, Writes(o, F, A),
         UNCHANGED <<owner, running>>, A \subseteq Live', Live \subseteq Live',
         \A x \in Live' : x \notin Live => mark[x] = "free" \/ Kind[x] = "string",
         \A x \in Obj : mark'[x] = "free" => mark[x] = "free" /\ x # o,
         Anchors' \subseteq Anchors \cup A,
         savedtop' \subseteq fields'[running'], finalizing' # "call" => savedtop' = {}
  PROVE  Shape' /\ Closed(Live)' /\ Kept
<1>1. /\ \A x \in Obj \ {o} : fields'[x] = fields[x] /\ Refs(x)' = Refs(x) /\ Succ(x)' = Succ(x)
      /\ Refs(o)' \subseteq Refs(o) \cup A /\ Succ(o)' \subseteq Succ(o) \cup A
  BY WritesMeans DEF TypeInv
<1>2. Live' \subseteq Obj
  BY DEF Live
<1>3. \A x \in Live' : x \notin Live => Succ(x) = {}
  <2>1. \A x \in Live' : x \notin Live => Refs(x) = {}
    BY <1>2 DEF Shape, Refs
  <2>2. \A x \in Live' : x \notin Live => OpenUpvals(x) = {}
    <3> SUFFICES ASSUME NEW x \in Live', x \notin Live, NEW u \in OpenUpvals(x) PROVE FALSE
      OBVIOUS
    <3>1. u \in Obj /\ owner[u] = x /\ x \in Obj /\ x # Nil
      BY <1>2, ConstantsAssumption DEF OpenUpvals
    <3> QED BY <3>1 DEF Shape
  <2> QED BY <2>1, <2>2 DEF Succ
<1>4. Closed(Live)'
  <2>1. ASSUME NEW x \in Live' PROVE Succ(x)' \subseteq Live'
    <3>1. Succ(x)' \subseteq Succ(x) \cup A
      BY <1>1, <1>2, <2>1
    <3>2. Succ(x) \subseteq Live'
      BY <1>3, <2>1 DEF Closed
    <3> QED BY <3>1, <3>2
  <2>2. Anchors' \subseteq Live'
    BY DEF Closed
  <2> QED BY <2>1, <2>2 DEF Closed
<1>5. Shape'
  <2>1. \A x \in Obj : Kind[x] # "closure" => \A y \in Refs(x)' : Kind[y] # "upval"
    BY <1>1 DEF Shape, Writes
  <2>2. \A u \in Obj : owner[u] # Nil => owner[u] \in Obj
    BY DEF TypeInv, TypeOK
  <2>3. \A u \in Obj : owner'[u] # Nil =>
          Kind[u] = "upval" /\ Kind[owner'[u]] = "thread" /\ mark'[owner'[u]] # "free"
    BY <2>2 DEF Shape
  <2>4. /\ \A x \in Obj : mark'[x] = "free" => fields'[x] = {}
        /\ \A x \in Obj : Kind[x] = "string" => fields'[x] = {}
    BY <1>1 DEF Shape, Writes
  <2>5. Kind[running'] = "thread"
    BY DEF Shape
  <2> QED BY <2>1, <2>3, <2>4, <2>5 DEF Shape
<1>6. Kept
  BY DEF Kept, Closed, Live
<1> QED BY <1>4, <1>5, <1>6

\* what the barriers do to the colours
Tinted ==
  \A x \in Obj :
    \/ mark'[x] = mark[x]
    \/ mark[x] \in {"gray", "black"} /\ mark'[x] \in {"gray", "black", currentwhite}
    \/ ~IsSweepPhase /\ mark[x] # "free" /\ mark'[x] # "free"

LEMMA TintedLive ==
  ASSUME TypeInv, UNCHANGED <<gcstate, currentwhite>>, Tinted
  PROVE  /\ Live' = Live
         /\ \A x \in Obj : mark'[x] = "free" <=> mark[x] = "free"
         /\ IsSweepPhase => \A x \in Obj : IsDead(x) => IsDead(x)'
<1>1. OtherWhite' = OtherWhite /\ OtherWhite \notin {"free", "gray", "black", currentwhite}
      /\ currentwhite # "free" /\ IsSweepPhase' = IsSweepPhase
  BY DEF TypeInv, TypeOK, OtherWhite, Whites, IsSweepPhase
<1>2. \A x \in Obj : mark'[x] = "free" <=> mark[x] = "free"
  BY <1>1 DEF Tinted
<1>3. IsSweepPhase => \A x \in Obj : mark'[x] = OtherWhite <=> mark[x] = OtherWhite
  BY <1>1 DEF Tinted
<1>4. Live' = Live
  BY <1>1, <1>2, <1>3 DEF Live, IsDead
<1> QED BY <1>1, <1>2, <1>3, <1>4 DEF IsDead

\* the forward barrier
LEMMA BarrierTints ==
  ASSUME TypeInv, UNCHANGED <<gcstate, currentwhite>>, NEW o \in Obj, NEW v \in Obj, Barrier(o, v)
  PROVE  Tinted
<1>1. CASE UNCHANGED <<mark, gray>>
  BY <1>1 DEF Tinted
<1>2. CASE KeepInvariant /\ mark' = Marked(mark, {v})
  <2>1. Darker
    BY <1>2, MarkDarker
  <2>2. ~IsSweepPhase
    BY <1>2 DEF KeepInvariant, IsSweepPhase
  <2> QED BY <2>1, <2>2 DEF Tinted, Darker
<1>3. CASE mark[o] = "black" /\ mark' = [mark EXCEPT ![o] = currentwhite]
  BY <1>3 DEF Tinted, TypeInv, TypeOK
<1> QED BY <1>1, <1>2, <1>3 DEF Barrier

LEMMA BarrierBackTints ==
  ASSUME TypeInv, NEW o \in Obj, NEW S, BarrierBack(o, S)
  PROVE  Tinted
  BY DEF BarrierBack, Tinted, TypeInv, TypeOK

LEMMA CloseBarrierTints ==
  ASSUME TypeInv, NEW u \in Obj, mark[u] # "free", CloseBarrier(u)
  PROVE  Tinted
<1> DEFINE m      == [mark EXCEPT ![u] = "black"]
           whites == {v \in Refs(u) : IsWhite(v)}
<1>1. mark[u] \in {"gray", "black"} \/ IsWhite(u)
  BY DEF TypeInv, TypeOK, Colours, IsWhite, White, Whites
<1>2. m \in Heaps /\ whites \in SUBSET Obj /\ \A x \in Obj : m[x] = IF x = u THEN "black" ELSE mark[x]
  BY RefsType DEF TypeInv, TypeOK, Heaps, Colours
<1> HIDE DEF m
<1>3. CASE UNCHANGED <<mark, gray>>
  BY <1>3 DEF Tinted
<1>4. CASE ~IsWhite(u) /\ whites = {} /\ mark' = Marked(m, whites)
  <2>1. Marked(m, {}) = m
    <3>1. Reached(m, {}) = {}
      BY DEF Reached
    <3> QED BY <1>2, <3>1 DEF Marked, Heaps
  <2> QED BY <1>1, <1>2, <1>4, <2>1 DEF Tinted
<1>5. CASE ~IsWhite(u) /\ KeepInvariant /\ mark' = Marked(m, whites)
  <2> HIDE DEF whites
  <2>1. \A x \in Obj : mark'[x] = m[x] \/ (White(m, x) /\ mark'[x] \in {"gray", "black"})
    BY <1>2, <1>5, MarkedDarker
  <2>2. ~IsSweepPhase
    BY <1>5 DEF KeepInvariant, IsSweepPhase
  <2> QED BY <1>1, <1>2, <1>5, <2>1, <2>2 DEF Tinted, White, Whites
<1>6. CASE ~IsWhite(u) /\ mark' = [mark EXCEPT ![u] = currentwhite]
  BY <1>1, <1>6 DEF Tinted, TypeInv, TypeOK
<1> QED BY <1>3, <1>4, <1>5, <1>6 DEF CloseBarrier, m

\* where the program runs
Program ==
  /\ at = "no" /\ at' = "no"
  /\ UNCHANGED <<gcstate, currentwhite, weak, ephemeron, allweak, again, todo>>

\* a step that marks nothing: a new object is white, and what black objects
\* newly refer to is not
LEMMA PlainMarking ==
  ASSUME TypeInv, Closed(Live), Marking, Program, UNCHANGED <<gray, grayagain>>,
         KeepInvariant => \A x \in Obj : mark'[x] = mark[x] \/ (mark[x] = "free" /\ IsWhite(x)'),
         KeepInvariant => \A x \in Obj : mark[x] = "black" =>
           \A y \in Succ(x)' : y \in Succ(x) \/ (y \in Live /\ ~IsWhite(y)),
         \A u \in Obj : mark[u] = "gray" => owner'[u] = owner[u]
  PROVE  Marking'
<1> SUFFICES ASSUME KeepInvariant PROVE MarkBase' /\ MarkOpen'
  BY DEF Marking, Program, KeepInvariant
<1>1. MarkBase /\ MarkOpen
  BY DEF Marking, Program
<1>2. \A x \in Obj : mark'[x] = mark[x] \/ (mark[x] = "free" /\ mark'[x] \in {"white0", "white1"})
  BY DEF IsWhite, White, Whites
<1>3. Tri(mark)'
  <2> SUFFICES ASSUME NEW x \in Obj, mark'[x] = "black", NEW y \in Succ(x)', IsWhite(y)' PROVE FALSE
    BY DEF Tri, IsWhite
  <2>1. mark[x] = "black" /\ x \in Live
    <3>1. mark[x] = "black"
      BY <1>2
    <3>2. OtherWhite # "black"
      BY DEF OtherWhite
    <3> QED BY <3>1, <3>2 DEF Live, IsDead
  <2>2. y \in Live /\ ~IsWhite(y)
    <3>1. CASE y \in Succ(x)
      BY <1>1, <2>1, <3>1 DEF Closed, MarkBase, Tri, IsWhite
    <3> QED BY <2>1, <3>1
  <2> QED BY <1>2, <2>2 DEF Live, IsWhite, White, Whites
<1>4. Listed(mark, gray, grayagain, weak, ephemeron, allweak, again, todo)'
  <2>1. \A x \in Obj : mark'[x] = "gray" <=> mark[x] = "gray"
    BY <1>2
  <2> QED BY <1>1, <2>1 DEF Program, MarkBase, Listed
<1>5. GrayOpen(mark)'
  BY <1>1, <1>2 DEF MarkBase, GrayOpen
<1>6. NoWhite({MainThread} \cup RootTables)'
  <2>1. \A x \in {MainThread} \cup RootTables : x \in Obj /\ mark[x] # "free"
    BY DEF Closed, Anchors, Live
  <2> QED BY <1>1, <1>2, <2>1 DEF MarkBase, NoWhite, IsWhite, White, Whites
<1>7. MarkBase'
  BY <1>1, <1>3, <1>4, <1>5, <1>6 DEF Program, MarkBase
<1>8. MarkOpen'
  BY <1>1, <1>2 DEF MarkOpen, Program
<1> QED BY <1>7, <1>8

\* a step that marks S to restore what it broke; the colours it starts from, m,
\* differ from the old ones at most for one upvalue
LEMMA BarrierMarking ==
  ASSUME TypeInv, Shape, Marking, Program, UNCHANGED grayagain, KeepInvariant,
         NEW m \in Heaps, NEW S \in SUBSET Obj,
         mark' = Marked(m, S), gray' = gray \cup Linked(m, S),
         \A x \in Obj : m[x] = mark[x]
                       \/ (Kind[x] = "upval" /\ ~IsWhite(x) /\ m[x] \in {"gray", "black"}),
         \A u \in Obj : Kind[u] = "upval" /\ (m[u] = "gray" \/ White(m, u)) =>
           owner'[u] # Nil \/ (owner[u] = Nil /\ m[u] = mark[u]),
         \A x \in Obj : m[x] = "black" => \A y \in Succ(x)' : White(m, y) => y \in S,
         \A x \in Obj : White(m, x) /\ Kind[x] \in {"string", "upval"} => Succ(x)' \subseteq Refs(x),
         \A x \in Obj : Succ(x)' \subseteq Obj
  PROVE  Marking'
<1>0. TypeOK /\ MarkBase /\ MarkOpen
  BY DEF TypeInv, Marking, Program
<1>1. /\ Marks(m, mark', Linked(m, S))
      /\ \A x \in S : ~White(mark', x)
      /\ \A u \in Obj : Kind[u] = "upval" /\ mark'[u] # m[u] => \A x \in Refs(u) : ~White(mark', x)
  BY <1>0, MarkedEffect DEF Shape
<1> DEFINE L == Linked(m, S)
<1> HIDE DEF L
<1>2. Marks(m, mark', L)
  BY <1>1 DEF L
<1>3. \A x \in Obj : White(mark', x) => White(m, x)
  BY <1>2 DEF Marks, White, Whites
<1>4. Tri(mark)'
  <2> SUFFICES ASSUME NEW x \in Obj, mark'[x] = "black", NEW y \in Succ(x)', White(mark', y) PROVE FALSE
    BY DEF Tri, White
  <2>1. y \in Obj /\ White(m, y)
    BY <1>3
  <2>2. CASE m[x] = "black"
    BY <1>1, <2>1, <2>2
  <2>3. CASE m[x] # "black"
    <3>1. White(m, x) /\ Kind[x] \in {"string", "upval"}
      BY <1>2, <2>3 DEF Marks
    <3>2. y \in Refs(x)
      BY <3>1
    <3>3. Kind[x] # "string"
      BY <3>2 DEF Shape, Refs
    <3> QED BY <1>1, <2>3, <3>1, <3>2, <3>3
  <2> QED BY <2>2, <2>3
<1>5. Listed(mark, gray, grayagain, weak, ephemeron, allweak, again, todo)'
  <2>1. Listed(m, gray, grayagain, weak, ephemeron, allweak, again, todo)
    BY <1>0 DEF MarkBase, Listed
  <2>2. \A x \in Obj : White(m, x) => m[x] # "gray"
    BY DEF White, Whites
  <2>3. ASSUME NEW x \in Obj
        PROVE x \in (gray \cup L) \cup grayagain \cup weak \cup ephemeron \cup allweak \cup again \cup todo
               <=> mark'[x] = "gray" /\ Kind[x] # "upval"
    BY <1>2, <2>1, <2>2 DEF Marks, Listed
  <2>4. \A x \in Obj : x \in L => x \notin grayagain \cup weak \cup ephemeron \cup allweak \cup again \cup todo
    BY <1>2, <2>1, <2>2 DEF Marks, Listed
  <2>5. Listed(mark', gray \cup L, grayagain, weak, ephemeron, allweak, again, todo)
    BY <2>1, <2>3, <2>4 DEF Listed
  <2>6. gray' = gray \cup L
    BY DEF L
  <2> QED BY <2>5, <2>6 DEF Program, Listed
<1>6. GrayOpen(mark)'
  <2> SUFFICES ASSUME NEW u \in Obj, Kind[u] = "upval", mark'[u] = "gray" PROVE owner'[u] # Nil
    BY DEF GrayOpen
  <2>1. CASE m[u] = "gray"
    BY <1>0, <2>1 DEF MarkBase, GrayOpen
  <2>2. CASE m[u] # "gray"
    BY <1>2, <2>2 DEF Marks
  <2> QED BY <2>1, <2>2
<1>7. NoWhite({MainThread} \cup RootTables)'
  <2>1. \A x \in {MainThread} \cup RootTables : x \in Obj /\ Kind[x] # "upval"
    BY ConstantsAssumption DEF ObjOfKind
  <2>2. \A x \in {MainThread} \cup RootTables : ~White(mark, x) /\ m[x] = mark[x]
    BY <1>0, <2>1 DEF MarkBase, NoWhite, IsWhite
  <2>3. \A x \in {MainThread} \cup RootTables : ~White(mark', x)
    BY <1>3, <2>1, <2>2 DEF White
  <2> QED BY <2>3 DEF NoWhite, IsWhite
<1>8. MarkBase'
  BY <1>0, <1>4, <1>5, <1>6, <1>7 DEF Program, MarkBase
<1>9. MarkOpen'
  BY <1>0, <1>2 DEF MarkOpen, Program, Marks
<1> QED BY <1>8, <1>9 DEF Marking, Program

\* the back barrier: a black table becomes gray and waits to be visited again
LEMMA BackMarking ==
  ASSUME TypeInv, Shape, Closed(Live), Marking, Program, UNCHANGED <<gray, owner>>, NEW t \in Obj, Kind[t] = "table",
         NEW S, BarrierBack(t, S), \A v \in S : v \in Live,
         \A x \in Obj \ {t} : Succ(x)' = Succ(x), Succ(t)' \subseteq Succ(t) \cup S
  PROVE  Marking'
<1>1. CASE mark[t] = "black" /\ \E v \in S : IsWhite(v)
  <2> SUFFICES ASSUME KeepInvariant PROVE MarkBase' /\ MarkOpen'
    BY DEF Marking, Program, KeepInvariant
  <2>1. MarkBase /\ MarkOpen /\ TypeOK
    BY DEF Marking, Program, TypeInv
  <2>2. mark' = [mark EXCEPT ![t] = "gray"] /\ grayagain' = grayagain \cup {t}
    BY <1>1 DEF BarrierBack
  <2>3. mark'[t] = "gray" /\ \A x \in Obj \ {t} : mark'[x] = mark[x]
    BY <2>1, <2>2 DEF TypeOK
  <2>4. Tri(mark)'
    <3>1. \A x \in Obj : Succ(x) \subseteq Obj
      BY <2>1, RefsType DEF Succ
    <3> QED BY <2>1, <2>3, <3>1 DEF MarkBase, Tri, White, Whites
  <2>5. Listed(mark, gray, grayagain, weak, ephemeron, allweak, again, todo)'
    BY <1>1, <2>1, <2>2, <2>3 DEF Program, MarkBase, Listed
  <2>6. GrayOpen(mark)' /\ NoWhite({MainThread} \cup RootTables)'
    <3>1. {MainThread} \cup RootTables \subseteq Obj
      BY ConstantsAssumption DEF ObjOfKind
    <3> QED BY <2>1, <2>3, <3>1 DEF MarkBase, GrayOpen, NoWhite, IsWhite, White, Whites
  <2>7. MarkBase'
    BY <2>1, <2>2, <2>4, <2>5, <2>6 DEF Program, MarkBase
  <2>8. MarkOpen'
    BY <2>1, <2>3 DEF MarkOpen, Program
  <2> QED BY <2>7, <2>8
<1>2. CASE ~(mark[t] = "black" /\ \E v \in S : IsWhite(v))
  <2>1. mark' = mark /\ grayagain' = grayagain
    BY <1>2 DEF BarrierBack
  <2>2. \A x \in Obj : mark[x] = "black" =>
          \A y \in Succ(x)' : y \in Succ(x) \/ (y \in Live /\ ~IsWhite(y))
    BY <1>2
  <2> QED BY <2>1, <2>2, PlainMarking
<1> QED BY <1>1, <1>2

\* the program opens upvalues only of the running thread, and repaints no
\* thread the sweep is going to free
LEMMA ProgramTwups ==
  ASSUME TypeInv, Shape, Twups, Program, twups \subseteq twups',
         \A u \in Obj : owner'[u] \in {Nil, owner[u]} \cup twups',
         IsSweepPhase => \A x \in Obj : Kind[x] = "thread" /\ IsDead(x) => IsDead(x)'
  PROVE  Twups'
<1> SUFFICES ASSUME NEW u \in Obj, owner'[u] # Nil, owner'[u] \notin twups'
             PROVE  IsSweepPhase' /\ IsDead(owner[u])' /\ owner'[u] = owner[u]
  BY DEF Twups
<1>1. owner'[u] = owner[u] /\ owner[u] \in Obj /\ Kind[owner[u]] = "thread"
  BY DEF TypeInv, TypeOK, Shape
<1>2. IsSweepPhase /\ IsDead(owner[u])
  BY <1>1 DEF Twups, Program
<1> QED BY <1>1, <1>2 DEF Program, IsSweepPhase

\* a value is pushed on a stack: the object it refers to was alive, or is new,
\* or is a string found dead
LEMMA SafePush ==
  ASSUME TypeInv, Sweeping, Safe, Program, NEW t \in Live, Kind[t] = "thread",
         NEW v \in Obj, Kind[v] # "upval", fields' = OnStack(t, v),
         UNCHANGED <<owner, running, savedtop, finalizing, gray, grayagain, twups>>,
         \A x \in Obj \ {v} : mark'[x] = mark[x],
         \/ v \in Live /\ mark'[v] = mark[v]
         \/ mark[v] = "free" /\ mark'[v] = currentwhite
         \/ Kind[v] = "string" /\ IsDead(v) /\ mark'[v] = currentwhite
         \/ Kind[v] = "string" /\ mark[v] # "free" /\ ~IsDead(v) /\ mark'[v] = mark[v],
         Anchors' \subseteq Anchors
  PROVE  Safe' /\ Kept
<1> DEFINE F == fields[t] \cup {<<Nil, v>>}
<1>0. /\ TypeOK /\ Shape /\ Closed(Live) /\ Marking /\ Twups
      /\ Live \subseteq Obj /\ t \in Obj /\ running \in Obj /\ Nil \notin Obj
      /\ OtherWhite' = OtherWhite /\ OtherWhite \notin {"free", currentwhite} /\ currentwhite \in {"white0", "white1"}
      /\ IsSweepPhase' = IsSweepPhase
  BY ConstantsAssumption DEF Safe, TypeInv, TypeOK, Live, Program, OtherWhite, Whites, IsSweepPhase
<1>1. Writes(t, F, {v})
  <2>1. <<Nil, v>> \in Entry /\ Objs(<<Nil, v>>) \subseteq {v}
    BY DEF Entry, Objs
  <2>2. fields[t] \subseteq Entry
    BY <1>0 DEF TypeOK
  <2>3. fields' = [fields EXCEPT ![t] = F]
    BY DEF OnStack
  <2> QED BY <2>1, <2>2, <2>3 DEF Writes
<1> HIDE DEF F
<1>2. Live' = Live \cup {v}
  <2>1. \A x \in Obj : x \in Live' <=> mark'[x] # "free" /\ ~(IsSweepPhase /\ mark'[x] = OtherWhite)
    BY <1>0 DEF Live, IsDead
  <2>2. \A x \in Obj : x \in Live <=> mark[x] # "free" /\ ~(IsSweepPhase /\ mark[x] = OtherWhite)
    BY DEF Live, IsDead
  <2>3. \A x \in Obj \ {v} : x \in Live' <=> x \in Live
    BY <2>1, <2>2
  <2>4. v \in Live'
    <3>1. mark'[v] # "free" /\ ~(IsSweepPhase /\ mark'[v] = OtherWhite)
      BY <1>0, <2>2 DEF IsDead
    <3> QED BY <2>1, <3>1
  <2> QED BY <1>0, <2>3, <2>4 DEF Live
<1>3. \A x \in Obj : mark'[x] = "free" => mark[x] = "free" /\ x # t
  <2>1. mark'[v] # "free"
    BY <1>0 DEF Live
  <2>2. mark[t] # "free"
    BY DEF Live
  <2> QED BY <2>1, <2>2
<1>4. /\ \A x \in Obj \ {t} : Succ(x)' = Succ(x) /\ fields'[x] = fields[x]
      /\ fields'[t] = F
  BY <1>0, <1>1, WritesMeans
<1>5. Shape' /\ Closed(Live)' /\ Kept
  <2>1. savedtop' \subseteq fields'[running']
    BY <1>0, <1>4 DEF Shape, F
  <2>2. \A x \in Live' : x \notin Live => mark[x] = "free" \/ Kind[x] = "string"
    BY <1>2
  <2>3. (finalizing' # "call" => savedtop' = {}) /\ {v} \subseteq Live' /\ Live \subseteq Live'
    BY <1>0, <1>2 DEF Shape
  <2> QED BY <1>0, <1>1, <1>3, <2>1, <2>2, <2>3, WriteKeepsHeap
<1>6. Marking'
  <2>1. ASSUME KeepInvariant
        PROVE  /\ mark[t] # "black"
               /\ \A x \in Obj : mark'[x] = mark[x] \/ (mark[x] = "free" /\ IsWhite(x)')
    <3>1. \A x \in Obj : ~IsDead(x)
      BY <2>1 DEF Sweeping, Program, KeepInvariant, IsSweepPhase
    <3>2. mark'[v] = currentwhite => IsWhite(v)'
      BY <1>0 DEF IsWhite, White, Whites
    <3>3. mark[t] # "black"
      BY <1>0, <2>1 DEF Marking, MarkOpen, Program
    <3> QED BY <3>1, <3>2, <3>3
  <2>2. KeepInvariant => \A x \in Obj : mark[x] = "black" =>
          \A y \in Succ(x)' : y \in Succ(x) \/ (y \in Live /\ ~IsWhite(y))
    BY <1>4, <2>1
  <2>3. \A u \in Obj : mark[u] = "gray" => owner'[u] = owner[u]
    OBVIOUS
  <2> QED BY <1>0, <2>1, <2>2, <2>3, PlainMarking
<1>7. Twups'
  <2>1. \A x \in Obj : Kind[x] = "thread" /\ IsDead(x) => mark'[x] = mark[x]
    <3>1. IsDead(v) => mark[v] # "free"
      BY <1>0 DEF IsDead
    <3> QED BY <3>1
  <2>2. \A u \in Obj : owner'[u] \in {Nil, owner[u]} \cup twups'
    OBVIOUS
  <2> QED BY <1>0, <2>1, <2>2, ProgramTwups DEF IsDead
<1> QED BY <1>5, <1>6, <1>7 DEF Safe

\* references are taken out of an object
LEMMA SafeDrop ==
  ASSUME TypeInv, Safe, Program, NEW o \in Live, NEW F \in SUBSET fields[o],
         fields' = [fields EXCEPT ![o] = F],
         UNCHANGED <<mark, owner, running, gray, grayagain, twups>>,
         savedtop' \subseteq fields'[running'], finalizing' # "call" => savedtop' = {},
         Anchors' \subseteq Anchors
  PROVE  Safe' /\ Kept
<1>0. /\ TypeOK /\ Shape /\ Closed(Live) /\ Marking /\ Twups /\ o \in Obj
  BY DEF Safe, TypeInv, Live
<1>1. Live' = Live
  BY DEF Live, IsDead, OtherWhite, Program, IsSweepPhase
<1>2. \A x \in Obj : Succ(x)' \subseteq Succ(x)
  <2>1. \A x \in Obj : fields'[x] \subseteq fields[x]
    BY <1>0 DEF TypeOK
  <2> QED BY <1>0, <2>1, LessHeap
<1>3. Shape' /\ Closed(Live)' /\ Kept
  <2>1. CASE Kind[o] # "string"
    <3>1. Writes(o, F, {})
      <4>1. fields[o] \subseteq Entry
        BY <1>0 DEF TypeOK
      <4> QED BY <2>1, <4>1 DEF Writes
    <3>2. {} \subseteq Live' /\ Anchors' \subseteq Anchors \cup {} /\ Live \subseteq Live'
          /\ \A x \in Live' : x \notin Live => mark[x] = "free" \/ Kind[x] = "string"
      BY <1>1
    <3>3. \A x \in Obj : mark'[x] = "free" => mark[x] = "free" /\ x # o
      BY DEF Live
    <3> QED BY <1>0, <3>1, <3>2, <3>3, WriteKeepsHeap
  <2>2. CASE Kind[o] = "string"
    <3>1. \A x \in Obj : fields'[x] = fields[x] /\ Refs(x)' = Refs(x)
      <4>1. fields[o] = {} /\ F = {}
        BY <1>0, <2>2 DEF Shape
      <4>2. \A x \in Obj : fields'[x] = fields[x]
        BY <1>0, <4>1 DEF TypeOK
      <4> QED BY <4>2 DEF Refs
    <3>2. Shape'
      BY <1>0, <3>1 DEF Shape
    <3>3. Closed(Live)'
      <4>1. Anchors' \subseteq Live' /\ \A x \in Live' : Succ(x)' \subseteq Live'
        BY <1>0, <1>1, <1>2 DEF Closed, Live
      <4> QED BY <4>1 DEF Closed
    <3> QED BY <1>0, <3>2, <3>3 DEF Kept, Closed, Live
  <2> QED BY <2>1, <2>2
<1>4. Marking'
  BY <1>0, <1>2, PlainMarking
<1>5. Twups'
  BY <1>0, ProgramTwups DEF IsDead, OtherWhite, Program
<1> QED BY <1>3, <1>4, <1>5 DEF Safe

LEMMA ProgramPushes ==
  ASSUME TypeInv, Control, Sweeping, Safe,
         \/ \E o \in Obj : NewObject(o) \/ InternString(o)
         \/ \E o \in AtHand : \E v \in Readable(o) : Load(o, v)
         \/ \E o \in Regs : \E v \in Regs : Transfer(o, v)
  PROVE  Safe' /\ Kept
<1> USE DEF heapVars, sweepVars, grayVars, atomicVars, runVars
<1>0. /\ TypeOK /\ Shape /\ Closed(Live) /\ Kind[running] = "thread" /\ list \in [ListName -> Seq(Obj)]
  BY DEF Safe, TypeInv, TypeOK, Shape
<1>1. /\ running \in Live /\ Regs \subseteq Live /\ AtHand \subseteq Live
      /\ \A o \in AtHand : Readable(o) \subseteq Live
      /\ \A v \in AtHand : Kind[v] # "upval"
      /\ Live \subseteq Obj /\ Regs \subseteq AtHand
  BY <1>0, HandsLive DEF AtHand
<1>2. /\ Program
      /\ UNCHANGED <<owner, running, savedtop, finalizing, gray, grayagain, twups>>
  BY DEF NewObject, InternString, Load, Transfer, Program, ProgramRuns
<1>3. /\ list'["finobj"] = list["finobj"] /\ list'["tobefnz"] = list["tobefnz"]
  <2>1. ASSUME NEW o \in Obj, list' = [list EXCEPT !["allgc"] = <<o>> \o @]
        PROVE  list'["finobj"] = list["finobj"] /\ list'["tobefnz"] = list["tobefnz"]
    BY <1>0, <2>1 DEF ListName
  <2> QED BY <2>1 DEF NewObject, InternString, Load, Transfer
<1>4. Anchors' \subseteq Anchors
  BY <1>2, <1>3 DEF Anchors
<1>5. ASSUME NEW o \in Obj, NewObject(o) PROVE Safe' /\ Kept
  <2>1. /\ mark[o] = "free" /\ Kind[o] # "upval" /\ fields' = OnStack(running, o)
        /\ mark' = [mark EXCEPT ![o] = currentwhite]
    BY <1>5 DEF NewObject
  <2>2. mark'[o] = currentwhite /\ \A x \in Obj \ {o} : mark'[x] = mark[x]
    BY <1>0, <2>1 DEF TypeOK
  <2> QED BY <1>0, <1>1, <1>2, <1>4, <2>1, <2>2, SafePush
<1>6. ASSUME NEW s \in Obj, InternString(s) PROVE Safe' /\ Kept
  <2>1. /\ Kind[s] = "string" /\ fields' = OnStack(running, s)
        /\ \/ mark[s] = "free" /\ mark' = [mark EXCEPT ![s] = currentwhite]
           \/ mark[s] # "free" /\ IsDead(s) /\ mark' = [mark EXCEPT ![s] = currentwhite]
           \/ mark[s] # "free" /\ ~IsDead(s) /\ mark' = mark
    BY <1>6 DEF InternString
  <2>2. /\ \A x \in Obj \ {s} : mark'[x] = mark[x]
        /\ \/ mark[s] = "free" /\ mark'[s] = currentwhite
           \/ Kind[s] = "string" /\ IsDead(s) /\ mark'[s] = currentwhite
           \/ Kind[s] = "string" /\ mark[s] # "free" /\ ~IsDead(s) /\ mark'[s] = mark[s]
    BY <1>0, <2>1 DEF TypeOK
  <2> QED BY <1>0, <1>1, <1>2, <1>4, <2>1, <2>2, SafePush
<1>7. ASSUME NEW t \in Live, Kind[t] = "thread", NEW v \in Live, Kind[v] # "upval",
             fields' = OnStack(t, v), mark' = mark
      PROVE  Safe' /\ Kept
  BY <1>1, <1>2, <1>4, <1>7, SafePush
<1>8. ASSUME NEW o \in AtHand, NEW v \in Readable(o), Load(o, v) PROVE Safe' /\ Kept
  BY <1>0, <1>1, <1>7, <1>8 DEF Load
<1>9. ASSUME NEW t \in Regs, NEW v \in Regs, Transfer(t, v) PROVE Safe' /\ Kept
  BY <1>1, <1>7, <1>9 DEF Transfer
<1> QED BY <1>5, <1>6, <1>8, <1>9

LEMMA ProgramDrops ==
  ASSUME TypeInv, Control, Sweeping, Safe,
         \/ \E v \in Refs(running) : Pop(v)
         \/ \E o \in AtHand : \E e \in fields[o] : ClearField(o, e)
         \/ FinalizerReturn
         \/ CloseState
  PROVE  Safe' /\ Kept
<1> USE DEF heapVars, sweepVars, grayVars, atomicVars, runVars
<1>0. /\ TypeOK /\ Shape /\ Closed(Live) /\ Kind[running] = "thread" /\ list \in [ListName -> Seq(Obj)]
      /\ running \in Obj
  BY DEF Safe, TypeInv, TypeOK, Shape
<1>1. running \in Live /\ AtHand \subseteq Live /\ Live \subseteq Obj
  BY <1>0, HandsLive DEF AtHand
<1>2. /\ Program
      /\ UNCHANGED <<mark, owner, running, gray, grayagain, twups>>
  BY DEF Pop, ClearField, FinalizerReturn, CloseState, Program, ProgramRuns
<1>3. ASSUME NEW v \in Refs(running), Pop(v) PROVE Safe' /\ Kept
  <2>1. /\ fields' = [fields EXCEPT ![running] = fields[running] \ {<<Nil, v>>}]
        /\ <<Nil, v>> \notin savedtop /\ UNCHANGED <<savedtop, finalizing, list>>
    BY <1>3 DEF Pop
  <2>4. fields'[running] = fields[running] \ {<<Nil, v>>} /\ savedtop \subseteq fields[running]
    BY <1>0, <2>1 DEF Shape, TypeOK
  <2>2. savedtop' \subseteq fields'[running'] /\ (finalizing' # "call" => savedtop' = {})
    BY <1>0, <1>2, <2>1, <2>4 DEF Shape
  <2>3. Anchors' \subseteq Anchors
    BY <1>2, <2>1 DEF Anchors
  <2> QED BY <1>1, <1>2, <2>1, <2>2, <2>3, SafeDrop
<1>4. ASSUME NEW o \in AtHand, NEW e \in fields[o], ClearField(o, e) PROVE Safe' /\ Kept
  <2>1. /\ fields' = [fields EXCEPT ![o] = fields[o] \ {e}]
        /\ Kind[o] = "table" /\ UNCHANGED <<savedtop, finalizing, list>>
    BY <1>4 DEF ClearField
  <2>2. savedtop' \subseteq fields'[running'] /\ (finalizing' # "call" => savedtop' = {})
    BY <1>0, <1>2, <2>1 DEF Shape, TypeOK
  <2>3. Anchors' \subseteq Anchors
    BY <1>2, <2>1 DEF Anchors
  <2> QED BY <1>1, <1>2, <2>1, <2>2, <2>3, SafeDrop
<1>5. ASSUME FinalizerReturn PROVE Safe' /\ Kept
  <2>1. /\ fields' = [fields EXCEPT ![running] = savedtop] /\ savedtop' = {} /\ UNCHANGED list
        /\ savedtop \in SUBSET fields[running]
    BY <1>0, <1>5 DEF FinalizerReturn, Shape
  <2>3. Anchors' \subseteq Anchors
    BY <1>2, <2>1 DEF Anchors
  <2> QED BY <1>1, <1>2, <2>1, <2>3, SafeDrop
<1>6. ASSUME CloseState PROVE Safe' /\ Kept
  <2>1. /\ fields' = [fields EXCEPT ![running] = {}] /\ UNCHANGED savedtop /\ savedtop = {}
        /\ list' = [list EXCEPT !["finobj"] = <<>>, !["tobefnz"] = list["tobefnz"] \o list["finobj"]]
    BY <1>0, <1>6 DEF CloseState, Shape
  <2>2. Anchors' \subseteq Anchors
    <3>1. list'["finobj"] = <<>> /\ list'["tobefnz"] = list["tobefnz"] \o list["finobj"]
      BY <1>0, <2>1 DEF ListName
    <3>2. list["tobefnz"] \in Seq(Obj) /\ list["finobj"] \in Seq(Obj)
      BY <1>0 DEF ListName
    <3>3. Elems(list'["tobefnz"]) = Elems(list["tobefnz"]) \cup Elems(list["finobj"])
      BY <3>1, <3>2, ConcatElems
    <3>4. Elems(list'["finobj"]) = {}
      BY <3>1 DEF Elems
    <3> QED BY <1>2, <3>3, <3>4 DEF Anchors
  <2>3. {} \in SUBSET fields[running] /\ savedtop' \subseteq fields'[running']
    BY <2>1
  <2> QED BY <1>1, <1>2, <2>1, <2>2, <2>3, SafeDrop
<1> QED BY <1>3, <1>4, <1>5, <1>6

\* a coroutine the program has at hand runs, or the main thread again
LEMMA ProgramSwitches ==
  ASSUME TypeInv, Control, Sweeping, Safe, Yield \/ \E t \in Regs : Resume(t)
  PROVE  Safe' /\ Kept
<1> USE DEF heapVars, sweepVars, grayVars, atomicVars, runVars
<1>0. /\ TypeOK /\ Shape /\ Closed(Live) /\ Marking /\ Twups
  BY DEF Safe, TypeInv
<1>1. /\ UNCHANGED <<mark, fields, owner, list, gcstate, currentwhite, savedtop, finalizing,
                    gray, grayagain, weak, ephemeron, allweak, twups, at, again, todo>>
      /\ finalizing = "no" /\ at = "no"
      /\ running' = MainThread \/ (running' \in Regs /\ Kind[running'] = "thread")
  BY DEF Yield, Resume, ProgramRuns
<1>2. running' \in Live /\ Kind[running'] = "thread"
  <2>1. MainThread \in Live /\ Regs \subseteq Live
    BY <1>0, HandsLive DEF Anchors
  <2> QED BY <1>1, <2>1, ConstantsAssumption DEF ObjOfKind
<1>3. /\ \A x \in Obj : Refs(x)' = Refs(x) /\ OpenUpvals(x)' = OpenUpvals(x) /\ Succ(x)' = Succ(x)
      /\ Live' = Live
  <2>1. Live' = Live
    BY <1>1 DEF Live, IsDead, OtherWhite, IsSweepPhase
  <2> QED BY <1>1, <2>1, SameHeap
<1>4. Shape'
  BY <1>0, <1>1, <1>2, <1>3 DEF Shape
<1>5. Closed(Live)'
  <2>1. Anchors' \subseteq Anchors \cup {running'}
    BY <1>1 DEF Anchors
  <2>2. Anchors' \subseteq Live' /\ \A x \in Live' : Succ(x)' \subseteq Live'
    BY <1>0, <1>2, <1>3, <2>1 DEF Closed, Live
  <2> QED BY <2>2 DEF Closed
<1>6. Marking'
  <2>1. Program
    BY <1>1 DEF Program
  <2> QED BY <1>0, <1>1, <1>3, <2>1, PlainMarking
<1>7. Twups'
  BY <1>0, <1>1 DEF Twups, IsDead, OtherWhite, IsSweepPhase
<1> QED BY <1>0, <1>1, <1>4, <1>5, <1>6, <1>7 DEF Safe, Kept, Closed, Live

\* t[k] = v
LEMMA SafeSetField ==
  ASSUME TypeInv, Control, Sweeping, Safe, NEW t \in AtHand, NEW e \in Slots[t], SetField(t, e)
  PROVE  Safe' /\ Kept
<1> USE DEF heapVars, sweepVars, grayVars, atomicVars, runVars
<1> DEFINE old  == {x \in fields[t] : e[1] # Nil /\ x[1] = e[1]}
           news == IF old = {} THEN Objs(e) ELSE {e[2]} \ {Nil}
           F    == (fields[t] \ old) \cup {e}
<1>0. /\ TypeOK /\ Shape /\ Closed(Live) /\ Marking /\ Twups /\ running \in Obj
      /\ t \in Live /\ AtHand \subseteq Live /\ Live \subseteq Obj /\ t \in Obj
      /\ \A v \in AtHand : Kind[v] # "upval"
  BY HandsLive DEF Safe, TypeInv, TypeOK
<1>1. /\ Kind[t] = "table" /\ Objs(e) \subseteq AtHand
      /\ fields' = [fields EXCEPT ![t] = F] /\ BarrierBack(t, news)
      /\ at = "no" /\ UNCHANGED <<owner, list, gcstate, currentwhite, gray, weak, ephemeron, allweak, twups, at, again,
                      todo, running, savedtop, finalizing>>
  BY DEF SetField, ProgramRuns
<1>2. Program /\ news \subseteq Objs(e) /\ news \subseteq Live
  BY <1>0, <1>1 DEF Program, Objs
<1>3. Writes(t, F, Objs(e))
  <2>1. e \in Entry /\ fields[t] \subseteq Entry
    BY <1>0, ConstantsAssumption DEF TypeOK
  <2> QED BY <1>0, <1>1, <2>1 DEF Writes
<1>4. /\ \A x \in Obj \ {t} : fields'[x] = fields[x] /\ Refs(x)' = Refs(x) /\ Succ(x)' = Succ(x)
      /\ fields'[t] = F /\ \A x \in Obj : OpenUpvals(x)' = OpenUpvals(x)
  BY <1>0, <1>1, <1>3, WritesMeans
<1>5. Succ(t)' \subseteq Succ(t) \cup news
  <2> SUFFICES ASSUME NEW y \in Refs(t)' PROVE y \in Refs(t) \cup news
    BY <1>0, <1>4 DEF Succ
  <2>1. PICK x \in F : y \in Objs(x)
    BY <1>4 DEF Refs
  <2>2. CASE x \in fields[t]
    BY <2>1, <2>2 DEF Refs
  <2>3. CASE x = e /\ old = {}
    BY <2>1, <2>3
  <2>4. CASE x = e /\ old # {}
    <3>1. PICK z \in fields[t] : e[1] # Nil /\ z[1] = e[1]
      BY <2>4
    <3>2. e[1] \in Refs(t)
      BY <3>1 DEF Refs, Objs
    <3> QED BY <2>1, <2>4, <3>2 DEF Objs
  <2> QED BY <2>1, <2>2, <2>3, <2>4
<1> HIDE DEF F, news, old
<1>6. Tinted /\ Live' = Live /\ \A x \in Obj : mark'[x] = "free" <=> mark[x] = "free"
  BY <1>0, <1>1, BarrierBackTints, TintedLive
<1>7. Shape' /\ Closed(Live)' /\ Kept
  <2>1. Anchors' \subseteq Anchors \cup Objs(e)
    BY <1>1 DEF Anchors
  <2>2. savedtop' \subseteq fields'[running'] /\ (finalizing' # "call" => savedtop' = {})
    BY <1>0, <1>1, <1>4 DEF Shape
  <2>3. mark[t] # "free"
    BY <1>0 DEF Live
  <2>4. /\ Objs(e) \subseteq Live' /\ Live \subseteq Live'
        /\ \A x \in Obj : mark'[x] = "free" => mark[x] = "free" /\ x # t
        /\ \A x \in Live' : x \notin Live => mark[x] = "free" \/ Kind[x] = "string"
    BY <1>0, <1>1, <1>6, <2>3
  <2> QED BY <1>0, <1>1, <1>3, <2>1, <2>2, <2>4, WriteKeepsHeap
<1>8. Marking'
  BY <1>0, <1>1, <1>2, <1>4, <1>5, BackMarking
<1>9. Twups'
  BY <1>0, <1>1, <1>2, <1>6, TintedLive, ProgramTwups
<1> QED BY <1>7, <1>8, <1>9 DEF Safe

\* one value written in a closure or an upvalue, with the forward barrier
LEMMA SafeBarrier ==
  ASSUME TypeInv, Safe, Program, NEW o \in Live, Kind[o] \in {"closure", "upval"},
         NEW v \in Live, Kind[v] = "upval" => Kind[o] = "closure",
         fields' = [fields EXCEPT ![o] = {<<Nil, v>>}], Barrier(o, v),
         UNCHANGED <<owner, list, running, savedtop, finalizing, grayagain, twups>>
  PROVE  Safe' /\ Kept
<1>0. /\ TypeOK /\ Shape /\ Closed(Live) /\ Marking /\ Twups /\ running \in Obj
      /\ Live \subseteq Obj /\ o \in Obj /\ v \in Obj /\ Nil \notin Obj
      /\ UNCHANGED <<gcstate, currentwhite>>
  BY ConstantsAssumption DEF Safe, TypeInv, TypeOK, Live, Program
<1>1. Writes(o, {<<Nil, v>>}, {v}) /\ Objs(<<Nil, v>>) = {v}
  <2>1. <<Nil, v>> \in Entry
    BY <1>0 DEF Entry
  <2>2. Objs(<<Nil, v>>) = {v}
    BY <1>0 DEF Objs
  <2> QED BY <2>1, <2>2 DEF Writes
<1>2. /\ \A x \in Obj \ {o} : fields'[x] = fields[x] /\ Refs(x)' = Refs(x) /\ Succ(x)' = Succ(x)
      /\ fields'[o] = {<<Nil, v>>} /\ \A x \in Obj : OpenUpvals(x)' = OpenUpvals(x)
  BY <1>0, <1>1, WritesMeans
<1>3. Succ(o)' = {v} /\ OpenUpvals(o) = {}
  <2>1. Refs(o)' = {v}
    BY <1>1, <1>2 DEF Refs
  <2>2. OpenUpvals(o) = {}
    BY <1>0 DEF Shape, OpenUpvals
  <2> QED BY <1>0, <1>2, <2>1, <2>2 DEF Succ
<1>4. Tinted /\ Live' = Live /\ \A x \in Obj : mark'[x] = "free" <=> mark[x] = "free"
  BY <1>0, BarrierTints, TintedLive
<1>5. Shape' /\ Closed(Live)' /\ Kept
  <2>1. Anchors' \subseteq Anchors \cup {v}
    BY DEF Anchors
  <2>2. savedtop' \subseteq fields'[running'] /\ (finalizing' # "call" => savedtop' = {})
    BY <1>0, <1>2 DEF Shape
  <2>3. mark[o] # "free"
    BY <1>0 DEF Live
  <2>4. /\ {v} \subseteq Live' /\ Live \subseteq Live'
        /\ \A x \in Obj : mark'[x] = "free" => mark[x] = "free" /\ x # o
        /\ \A x \in Live' : x \notin Live => mark[x] = "free" \/ Kind[x] = "string"
    BY <1>0, <1>4, <2>3
  <2> QED BY <1>0, <1>1, <2>1, <2>2, <2>4, WriteKeepsHeap
<1>6. Marking'
  <2>1. CASE ~KeepInvariant
    BY <1>0, <2>1 DEF Marking, KeepInvariant
  <2>2. CASE KeepInvariant /\ UNCHANGED <<mark, gray>> /\ (mark[o] # "black" \/ ~IsWhite(v))
    <3>1. \A x \in Obj : mark[x] = "black" =>
            \A y \in Succ(x)' : y \in Succ(x) \/ (y \in Live /\ ~IsWhite(y))
      BY <1>2, <1>3, <2>2
    <3> QED BY <1>0, <2>2, <3>1, PlainMarking
  <2>3. CASE KeepInvariant /\ mark[o] = "black" /\ mark' = Marked(mark, {v}) /\ gray' = gray \cup Linked(mark, {v})
    <3>1. mark \in Heaps /\ MarkBase /\ {v} \in SUBSET Obj
      BY <1>0, <2>3 DEF TypeOK, Heaps, Marking
    <3>2. \A x \in Obj : mark[x] = "black" => \A y \in Succ(x)' : White(mark, y) => y \in {v}
      BY <1>2, <1>3, <3>1 DEF MarkBase, Tri
    <3>3. \A x \in Obj : White(mark, x) /\ Kind[x] \in {"string", "upval"} => Succ(x)' \subseteq Refs(x)
      <4> SUFFICES ASSUME NEW x \in Obj, White(mark, x), Kind[x] \in {"string", "upval"} PROVE Succ(x)' \subseteq Refs(x)
        OBVIOUS
      <4>1. x # o
        BY <2>3 DEF White, Whites
      <4>2. OpenUpvals(x) = {}
        BY <1>0 DEF Shape, OpenUpvals
      <4> QED BY <1>2, <4>1, <4>2 DEF Succ
    <3>4. \A x \in Obj : Succ(x)' \subseteq Obj
      BY <1>0, <1>2, <1>3, RefsType DEF Succ
    <3>5. \A u \in Obj : Kind[u] = "upval" /\ (mark[u] = "gray" \/ White(mark, u)) =>
            owner'[u] # Nil \/ (owner[u] = Nil /\ mark[u] = mark[u])
      OBVIOUS
    <3> QED BY <1>0, <2>3, <3>1, <3>2, <3>3, <3>4, <3>5, BarrierMarking
  <2> QED BY <2>1, <2>2, <2>3 DEF Barrier
<1>7. Twups'
  BY <1>0, <1>4, TintedLive, ProgramTwups
<1> QED BY <1>5, <1>6, <1>7 DEF Safe

LEMMA ProgramBarriers ==
  ASSUME TypeInv, Control, Sweeping, Safe,
         \E o \in Regs : \/ \E v \in Regs \cup OpenUpvals(running) : SetClosure(o, v)
                         \/ \E u \in ObjOfKind({"upval"}), v \in Regs : SetUpval(o, u, v)
  PROVE  Safe' /\ Kept
<1> USE DEF heapVars, sweepVars, grayVars, atomicVars, runVars
<1>0. /\ Shape /\ Closed(Live) /\ Regs \subseteq Live /\ OpenUpvals(running) \subseteq Live
      /\ (\A x \in Live : Succ(x) \subseteq Live) /\ \A v \in Regs : Kind[v] # "upval"
  BY HandsLive DEF Safe, AtHand
<1>1. ASSUME NEW c \in Regs, NEW v \in Regs \cup OpenUpvals(running), SetClosure(c, v)
      PROVE  Safe' /\ Kept
  <2>1. Program
    BY <1>1 DEF SetClosure, ProgramRuns, Program
  <2> QED BY <1>0, <1>1, <2>1, SafeBarrier DEF SetClosure
<1>2. ASSUME NEW c \in Regs, NEW u \in Obj, NEW v \in Regs, SetUpval(c, u, v)
      PROVE  Safe' /\ Kept
  <2>1. Program
    BY <1>2 DEF SetUpval, ProgramRuns, Program
  <2>2. u \in Live /\ Kind[u] = "upval"
    BY <1>0, <1>2 DEF SetUpval, Succ
  <2>3. /\ fields' = [fields EXCEPT ![u] = {<<Nil, v>>}] /\ Barrier(u, v)
        /\ UNCHANGED <<owner, list, running, savedtop, finalizing, grayagain, twups>>
    BY <1>2 DEF SetUpval
  <2>4. v \in Live /\ Kind[v] # "upval"
    BY <1>0
  <2> QED BY <2>1, <2>2, <2>3, <2>4, SafeBarrier
<1> QED BY <1>1, <1>2 DEF ObjOfKind

-----------------------------------------------------------------------------
(* Upvalues *)

\* what a closure's new upvalue does to references and colours
LEMMA NewUpvalMeans ==
  ASSUME TypeInv, Placement, Safe, NEW c \in Regs, NEW u \in Obj, NEW v \in Regs, NewUpval(c, u, v)
  PROVE  /\ c \in Live /\ v \in Live /\ running \in Live /\ Kind[v] # "upval" /\ Kind[running] = "thread"
         /\ u \notin {c, running} /\ c # running /\ mark[u] = "free" /\ owner[u] = Nil
         /\ running' = running /\ fields'[u] = {<<Nil, v>>} /\ fields'[running] \subseteq fields[running]
         /\ \A x \in Obj \ {u, c, running} : fields'[x] = fields[x]
         /\ owner'[u] = running /\ \A x \in Obj \ {u} : owner'[x] = owner[x]
         /\ Refs(u)' = {v} /\ Refs(running)' \subseteq Refs(running)
         /\ \A x \in Obj \ {u, c, running} : Refs(x)' = Refs(x)
         /\ Succ(u)' = {v} /\ Succ(c)' = {u} /\ Succ(running)' \subseteq Succ(running) \cup {u}
         /\ \A x \in Obj \ {u, c, running} : Succ(x)' = Succ(x)
<1>0. /\ TypeOK /\ Shape /\ Closed(Live) /\ running \in Obj /\ Nil \notin Obj /\ Live \subseteq Obj
      /\ owner \in [Obj -> Obj \cup {Nil}]
  BY ConstantsAssumption DEF Safe, TypeInv, TypeOK, Live
<1>1. /\ Kind[c] = "closure" /\ Kind[u] = "upval" /\ mark[u] = "free" /\ Kind[running] = "thread"
      /\ owner' = [owner EXCEPT ![u] = running]
      /\ fields' = [fields EXCEPT ![u] = {<<Nil, v>>}, ![c] = {<<Nil, u>>},
                                  ![running] = fields[running] \ {<<Nil, v>>}]
  <2>1. Kind[c] = "closure" /\ Kind[u] = "upval" /\ Kind[running] = "thread"
    BY <1>0 DEF NewUpval, Shape
  <2>2. c # running /\ u # running
    BY <2>1
  <2> QED BY <1>0, <2>1, <2>2 DEF NewUpval
<1>2. /\ c \in Live /\ v \in Live /\ running \in Live /\ Kind[v] # "upval" /\ owner[u] = Nil
      /\ u \notin {c, running} /\ c # running /\ c \in Obj /\ v \in Obj
  BY <1>0, <1>1, HandsLive DEF AtHand, Placement
<1>3. /\ running' = running /\ fields'[u] = {<<Nil, v>>} /\ fields'[c] = {<<Nil, u>>}
      /\ fields'[running] = fields[running] \ {<<Nil, v>>}
      /\ \A x \in Obj \ {u, c, running} : fields'[x] = fields[x]
      /\ owner'[u] = running /\ \A x \in Obj \ {u} : owner'[x] = owner[x]
  <2>1. fields \in [Obj -> SUBSET Entry]
    BY <1>0 DEF TypeOK
  <2>2. running' = running
    BY DEF NewUpval, runVars
  <2> QED BY <1>0, <1>1, <1>2, <2>1, <2>2
<1>4. \A x \in Obj : Objs(<<Nil, x>>) = {x}
  BY <1>0 DEF Objs
<1>5. /\ Refs(u)' = {v} /\ Refs(c)' = {u} /\ Refs(running)' \subseteq Refs(running)
      /\ \A x \in Obj \ {u, c, running} : Refs(x)' = Refs(x)
  <2>1. Refs(u)' = {v} /\ Refs(c)' = {u}
    <3>1. UNION {Objs(e) : e \in {<<Nil, v>>}} = {v} /\ UNION {Objs(e) : e \in {<<Nil, u>>}} = {u}
      BY <1>2, <1>4
    <3> QED BY <1>3, <3>1 DEF Refs
  <2>2. Refs(running)' \subseteq Refs(running)
    BY <1>3 DEF Refs
  <2>3. \A x \in Obj \ {u, c, running} : Refs(x)' = Refs(x)
    BY <1>3 DEF Refs
  <2> QED BY <2>1, <2>2, <2>3
<1>6. /\ OpenUpvals(running)' = OpenUpvals(running) \cup {u}
      /\ \A x \in Obj \ {running} : OpenUpvals(x)' = OpenUpvals(x)
      /\ OpenUpvals(u) = {} /\ OpenUpvals(c) = {}
  <2>1. \A x \in Obj : Kind[x] # "thread" => OpenUpvals(x) = {}
    BY <1>0 DEF Shape, OpenUpvals
  <2>2. OpenUpvals(running)' = OpenUpvals(running) \cup {u}
    BY <1>3 DEF OpenUpvals
  <2>3. \A x \in Obj \ {running} : OpenUpvals(x)' = OpenUpvals(x)
    BY <1>0, <1>2, <1>3 DEF OpenUpvals
  <2> QED BY <1>1, <1>2, <2>1, <2>2, <2>3
<1>7. Succ(u)' = {v} /\ Succ(c)' = {u}
  BY <1>2, <1>5, <1>6 DEF Succ
<1>8. Succ(running)' \subseteq Succ(running) \cup {u}
  BY <1>3, <1>5, <1>6 DEF Succ
<1>9. \A x \in Obj \ {u, c, running} : Succ(x)' = Succ(x)
  BY <1>5, <1>6 DEF Succ
<1> QED BY <1>1, <1>2, <1>3, <1>5, <1>7, <1>8, <1>9

LEMMA SafeNewUpval ==
  ASSUME TypeInv, Control, Placement, Sweeping, Safe,
         NEW c \in Regs, NEW u \in Obj, NEW v \in Regs, NewUpval(c, u, v)
  PROVE  Safe' /\ Kept
<1> USE DEF heapVars, sweepVars, grayVars, atomicVars, runVars
<1> DEFINE g == [mark EXCEPT ![u] = "gray"]
           w == [mark EXCEPT ![u] = currentwhite]
<1>0. /\ TypeOK /\ Shape /\ Closed(Live) /\ Marking /\ Twups /\ running \in Obj /\ Nil \notin Obj
      /\ Live \subseteq Obj /\ Kind[u] = "upval" /\ Kind[c] = "closure"
      /\ OtherWhite' = OtherWhite /\ OtherWhite \notin {"free", "black", "gray", currentwhite}
      /\ currentwhite \in {"white0", "white1"} /\ mark \in [Obj -> Colours]
  BY ConstantsAssumption DEF Safe, TypeInv, TypeOK, Live, NewUpval, OtherWhite, Whites
<1>1. /\ Program /\ twups' = twups \cup {running} /\ finalizing = "no"
      /\ UNCHANGED <<running, savedtop, finalizing, grayagain>>
      /\ list' = [list EXCEPT !["allgc"] = <<u>> \o @]
      /\ \/ mark[c] # "black" /\ mark' = w /\ UNCHANGED gray
         \/ KeepInvariant /\ mark[c] = "black" /\ mark' = Marked(g, {v}) /\ gray' = gray \cup Linked(g, {v})
         \/ ~KeepInvariant /\ mark[c] = "black" /\ mark' = [w EXCEPT ![c] = currentwhite] /\ UNCHANGED gray
  BY DEF NewUpval, ProgramRuns, Program
<1>2. /\ c \in Live /\ v \in Live /\ running \in Live /\ Kind[v] # "upval" /\ Kind[running] = "thread"
      /\ u \notin {c, running} /\ c # running /\ mark[u] = "free" /\ owner[u] = Nil
      /\ c \in Obj /\ v \in Obj
  BY <1>0, NewUpvalMeans
<1>3. /\ running' = running /\ fields'[u] = {<<Nil, v>>} /\ fields'[running] \subseteq fields[running]
      /\ \A x \in Obj \ {u, c, running} : fields'[x] = fields[x]
      /\ owner'[u] = running /\ \A x \in Obj \ {u} : owner'[x] = owner[x]
  BY NewUpvalMeans
<1>4. /\ running' = running /\ Refs(u)' = {v} /\ Refs(running)' \subseteq Refs(running)
      /\ \A x \in Obj \ {u, c, running} : Refs(x)' = Refs(x)
      /\ Succ(u)' = {v} /\ Succ(c)' = {u} /\ Succ(running)' \subseteq Succ(running) \cup {u}
      /\ \A x \in Obj \ {u, c, running} : Succ(x)' = Succ(x)
  BY NewUpvalMeans
<1>5. /\ g \in Heaps /\ g[u] = "gray" /\ \A x \in Obj \ {u} : g[x] = mark[x]
      /\ w[u] = currentwhite /\ \A x \in Obj \ {u} : w[x] = mark[x]
      /\ w \in Heaps
  BY <1>0 DEF Heaps, Colours
<1> HIDE DEF g, w
<1>6. /\ (mark'[u] # "free" /\ mark'[u] # OtherWhite) \/ KeepInvariant
      /\ mark'[u] # "free"
      /\ \A x \in Obj \ {u} : /\ mark'[x] = "free" <=> mark[x] = "free"
                              /\ ~KeepInvariant => \/ mark'[x] = mark[x]
                                                   \/ x = c /\ mark[c] = "black" /\ mark'[c] = currentwhite
  <2>1. CASE mark' = w
    BY <1>0, <1>5, <2>1
  <2>2. CASE KeepInvariant /\ mark' = Marked(g, {v})
    <3>1. \A x \in Obj : mark'[x] = g[x] \/ (White(g, x) /\ mark'[x] \in {"gray", "black"})
      BY <1>2, <1>5, <2>2, MarkedDarker
    <3> QED BY <1>5, <2>2, <3>1 DEF White, Whites
  <2>3. CASE mark[c] = "black" /\ mark' = [w EXCEPT ![c] = currentwhite]
    BY <1>0, <1>2, <1>5, <2>3 DEF Heaps
  <2> QED BY <1>1, <2>1, <2>2, <2>3
<1>7. Live' = Live \cup {u}
  <2>1. KeepInvariant => ~IsSweepPhase
    BY DEF KeepInvariant, IsSweepPhase
  <2>2. IsSweepPhase' = IsSweepPhase
    BY <1>1 DEF Program, IsSweepPhase
  <2>3. \A x \in Obj : x \in Live' <=> mark'[x] # "free" /\ ~(IsSweepPhase /\ mark'[x] = OtherWhite)
    BY <1>0, <2>2 DEF Live, IsDead
  <2>4. \A x \in Obj : x \in Live <=> mark[x] # "free" /\ ~(IsSweepPhase /\ mark[x] = OtherWhite)
    BY DEF Live, IsDead
  <2>5. \A x \in Obj \ {u} : x \in Live' <=> x \in Live
    BY <1>0, <1>6, <2>1, <2>3, <2>4
  <2>6. u \in Live'
    BY <1>6, <2>1, <2>3
  <2> QED BY <1>0, <2>5, <2>6 DEF Live
<1>8. Anchors' = Anchors
  <2>1. list'["finobj"] = list["finobj"] /\ list'["tobefnz"] = list["tobefnz"]
    BY <1>0, <1>1 DEF TypeOK, ListName
  <2> QED BY <1>1, <2>1 DEF Anchors
<1>9. Closed(Live)' /\ Kept
  <2>1. \A x \in Live' : Succ(x)' \subseteq Live'
    BY <1>0, <1>2, <1>4, <1>7 DEF Closed
  <2>2. Anchors' \subseteq Live'
    BY <1>0, <1>7, <1>8 DEF Closed
  <2>3. \A x \in Live' : mark'[x] # "free"
    BY DEF Live
  <2> QED BY <1>8, <2>1, <2>2, <2>3 DEF Closed, Kept
<1>10. Shape'
  <2>1. \A x \in Obj : mark'[x] = "free" => mark[x] = "free" /\ x \notin {u, c, running}
    BY <1>2, <1>6 DEF Live
  <2>2. /\ \A x \in Obj : mark'[x] = "free" => fields'[x] = {}
        /\ \A x \in Obj : Kind[x] = "string" => fields'[x] = {}
    BY <1>0, <1>2, <1>3, <2>1 DEF Shape
  <2>3. \A x \in Obj : Kind[x] # "closure" => \A y \in Refs(x)' : Kind[y] # "upval"
    BY <1>0, <1>2, <1>4 DEF Shape
  <2>4. \A x \in Obj : owner'[x] # Nil =>
          Kind[x] = "upval" /\ Kind[owner'[x]] = "thread" /\ mark'[owner'[x]] # "free"
    <3>1. \A x \in Obj : owner'[x] # Nil =>
            owner'[x] = running \/ (owner'[x] = owner[x] /\ owner[x] \in Obj /\ mark[owner[x]] # "free")
      BY <1>0, <1>3 DEF Shape, TypeOK
    <3>2. mark'[running] # "free"
      BY <1>0, <2>1
    <3> QED BY <1>0, <1>2, <1>3, <2>1, <3>1, <3>2 DEF Shape
  <2>5. savedtop' = {} /\ Kind[running'] = "thread"
    BY <1>0, <1>1, <1>2 DEF Shape
  <2> QED BY <2>2, <2>3, <2>4, <2>5 DEF Shape
<1>11. Marking'
  <2>1. CASE ~KeepInvariant
    BY <1>1, <2>1 DEF Marking, KeepInvariant, Program
  <2>2. CASE KeepInvariant /\ mark[c] # "black"
    <3>1. mark' = w /\ UNCHANGED gray
      BY <1>1, <2>2
    <3>2. mark[running] # "black"
      BY <1>0, <1>1, <1>2, <2>2 DEF Marking, MarkOpen, Program
    <3>3. \A x \in Obj : mark[x] = "black" =>
            \A y \in Succ(x)' : y \in Succ(x) \/ (y \in Live /\ ~IsWhite(y))
      BY <1>2, <1>4, <2>2, <3>2
    <3>4. \A x \in Obj : mark[x] = "gray" => owner'[x] = owner[x]
      BY <1>2, <1>3
    <3>5. \A x \in Obj : mark'[x] = mark[x] \/ (mark[x] = "free" /\ IsWhite(x)')
      BY <1>0, <1>2, <1>5, <3>1 DEF IsWhite, White, Whites
    <3> QED BY <1>0, <1>1, <3>1, <3>3, <3>4, <3>5, PlainMarking
  <2>3. CASE KeepInvariant /\ mark[c] = "black"
    <3>1. mark' = Marked(g, {v}) /\ gray' = gray \cup Linked(g, {v}) /\ {v} \in SUBSET Obj
      BY <1>1, <1>2, <2>3
    <3>2. MarkBase /\ mark[running] # "black"
      BY <1>0, <1>1, <1>2, <2>3 DEF Marking, MarkOpen, Program
    <3>3. \A x \in Obj : g[x] = mark[x]
                        \/ (Kind[x] = "upval" /\ ~IsWhite(x) /\ g[x] \in {"gray", "black"})
      BY <1>0, <1>2, <1>5 DEF IsWhite, White, Whites
    <3>4. \A x \in Obj : Kind[x] = "upval" /\ (g[x] = "gray" \/ White(g, x)) =>
            owner'[x] # Nil \/ (owner[x] = Nil /\ g[x] = mark[x])
      BY <1>0, <1>3, <1>5
    <3>5. \A x \in Obj : g[x] = "black" => \A y \in Succ(x)' : White(g, y) => y \in {v}
      <4> SUFFICES ASSUME NEW x \in Obj, g[x] = "black", NEW y \in Succ(x)', White(g, y) PROVE FALSE
        OBVIOUS
      <4>1. x # u /\ x # running /\ mark[x] = "black"
        BY <1>5, <3>2
      <4>2. y # u
        BY <1>5 DEF White, Whites
      <4>3. y \in Succ(x) /\ x # c
        BY <1>4, <4>1, <4>2
      <4>4. Succ(x) \subseteq Obj
        BY <1>0, RefsType DEF Succ
      <4>5. IsWhite(y)
        BY <1>5, <4>2, <4>3, <4>4 DEF White, IsWhite
      <4> QED BY <3>2, <4>1, <4>3, <4>5 DEF MarkBase, Tri, IsWhite
    <3>6. \A x \in Obj : White(g, x) /\ Kind[x] \in {"string", "upval"} => Succ(x)' \subseteq Refs(x)
      <4> SUFFICES ASSUME NEW x \in Obj, White(g, x), Kind[x] \in {"string", "upval"} PROVE Succ(x)' \subseteq Refs(x)
        OBVIOUS
      <4>1. x \notin {u, c, running}
        BY <1>0, <1>2, <1>5 DEF White, Whites
      <4>2. OpenUpvals(x) = {}
        BY <1>0 DEF Shape, OpenUpvals
      <4> QED BY <1>4, <4>1, <4>2 DEF Succ
    <3>7. \A x \in Obj : Succ(x)' \subseteq Obj
      <4>1. \A x \in Obj : Succ(x) \subseteq Obj
        BY <1>0, RefsType DEF Succ
      <4> QED BY <1>2, <1>4, <4>1
    <3> QED BY <1>0, <1>1, <1>5, <2>3, <3>1, <3>3, <3>4, <3>5, <3>6, <3>7, BarrierMarking
  <2> QED BY <2>1, <2>2, <2>3
<1>12. Twups'
  <2>1. \A x \in Obj : owner'[x] \in {Nil, owner[x]} \cup twups'
    BY <1>1, <1>3
  <2>2. ASSUME IsSweepPhase, NEW x \in Obj, Kind[x] = "thread", IsDead(x) PROVE IsDead(x)'
    <3>1. ~KeepInvariant /\ x \notin {u, c}
      BY <1>0, <2>2 DEF KeepInvariant, IsSweepPhase
    <3> QED BY <1>0, <1>6, <2>2, <3>1 DEF IsDead
  <2> QED BY <1>0, <1>1, <2>1, <2>2, ProgramTwups
<1> QED BY <1>9, <1>10, <1>11, <1>12 DEF Safe

LEMMA SafeCloseUpval ==
  ASSUME TypeInv, Control, Placement, Sweeping, Safe, NEW u \in OpenUpvals(running), CloseUpval(u)
  PROVE  Safe' /\ Kept
<1> USE DEF heapVars, sweepVars, grayVars, atomicVars, runVars
<1> DEFINE m      == [mark EXCEPT ![u] = "black"]
           whites == {v \in Refs(u) : IsWhite(v)}
<1>0. /\ TypeOK /\ Shape /\ Closed(Live) /\ Marking /\ Twups /\ running \in Obj /\ Nil \notin Obj
      /\ Live \subseteq Obj /\ u \in Obj /\ owner[u] = running /\ mark \in [Obj -> Colours]
      /\ owner \in [Obj -> Obj \cup {Nil}]
  BY ConstantsAssumption DEF Safe, TypeInv, TypeOK, Live, OpenUpvals
<1>1. /\ Program /\ owner' = [owner EXCEPT ![u] = Nil] /\ CloseBarrier(u)
      /\ UNCHANGED <<fields, list, running, savedtop, finalizing, grayagain, twups>>
  BY DEF CloseUpval, ProgramRuns, Program
<1>2. Kind[u] = "upval" /\ mark[u] # "free" /\ OpenUpvals(u) = {}
  <2>1. mark[u] # "free"
    BY <1>0 DEF Placement
  <2>2. Kind[u] = "upval"
    BY <1>0 DEF Shape
  <2> QED BY <1>0, <2>1, <2>2 DEF Shape, OpenUpvals
<1>3. owner'[u] = Nil /\ \A x \in Obj \ {u} : owner'[x] = owner[x]
  BY <1>0, <1>1
<1>4. /\ \A x \in Obj : Refs(x)' = Refs(x) /\ OpenUpvals(x)' \subseteq OpenUpvals(x)
      /\ \A x \in Obj : Succ(x)' \subseteq Succ(x)
      /\ Succ(u)' \subseteq Refs(u)
  <2>1. \A x \in Obj : Refs(x)' = Refs(x)
    BY <1>1 DEF Refs
  <2>2. \A x \in Obj : OpenUpvals(x)' \subseteq OpenUpvals(x)
    <3>1. \A x, y \in Obj : owner'[y] = x => owner[y] = x
      BY <1>0, <1>3
    <3> QED BY <3>1 DEF OpenUpvals
  <2> QED BY <1>0, <1>2, <2>1, <2>2 DEF Succ
<1>5. Tinted
  BY <1>0, <1>1, <1>2, CloseBarrierTints
<1>6. /\ Live' = Live /\ \A x \in Obj : mark'[x] = "free" <=> mark[x] = "free"
      /\ IsSweepPhase => \A x \in Obj : IsDead(x) => IsDead(x)'
  BY <1>1, <1>5, TintedLive DEF Program
<1>7. Anchors' = Anchors
  BY <1>1 DEF Anchors
<1>8. Closed(Live)' /\ Kept
  <2>1. Anchors' \subseteq Live' /\ \A x \in Live' : Succ(x)' \subseteq Live'
    BY <1>0, <1>4, <1>6, <1>7 DEF Closed
  <2>2. \A x \in Live' : mark'[x] # "free"
    BY DEF Live
  <2> QED BY <1>7, <2>1, <2>2 DEF Closed, Kept
<1>9. Shape'
  <2>1. \A x \in Obj : owner'[x] # Nil =>
          owner'[x] = owner[x] /\ owner[x] \in Obj /\ mark'[owner[x]] # "free"
    BY <1>0, <1>3, <1>6 DEF Shape
  <2> QED BY <1>0, <1>1, <1>4, <1>6, <2>1 DEF Shape
<1>10. Marking'
  <2>1. CASE ~KeepInvariant
    BY <1>1, <2>1 DEF Marking, KeepInvariant, Program
  <2>2. CASE KeepInvariant /\ IsWhite(u)
    <3>1. UNCHANGED <<mark, gray>>
      BY <1>1, <2>2 DEF CloseBarrier
    <3>2. \A x \in Obj : mark[x] = "gray" => owner'[x] = owner[x]
      BY <1>3, <2>2 DEF IsWhite, White, Whites
    <3>3. \A x \in Obj : mark[x] = "black" => \A y \in Succ(x)' : y \in Succ(x)
      BY <1>4
    <3> QED BY <1>0, <1>1, <3>1, <3>2, <3>3, PlainMarking
  <2>3. CASE KeepInvariant /\ ~IsWhite(u)
    <3>1. mark' = Marked(m, whites) /\ gray' = gray \cup Linked(m, whites)
      BY <1>1, <2>3 DEF CloseBarrier
    <3>2. m \in Heaps /\ whites \in SUBSET Obj /\ m[u] = "black" /\ \A x \in Obj \ {u} : m[x] = mark[x]
      BY <1>0, RefsType DEF Heaps, Colours
    <3>3. MarkBase
      BY <1>0, <2>3 DEF Marking
    <3> HIDE DEF m
    <3>4. \A x \in Obj : m[x] = mark[x]
                        \/ (Kind[x] = "upval" /\ ~IsWhite(x) /\ m[x] \in {"gray", "black"})
      BY <1>2, <2>3, <3>2
    <3>5. \A x \in Obj : Kind[x] = "upval" /\ (m[x] = "gray" \/ White(m, x)) =>
            owner'[x] # Nil \/ (owner[x] = Nil /\ m[x] = mark[x])
      BY <1>3, <3>2 DEF White, Whites
    <3>6. \A x \in Obj : m[x] = "black" => \A y \in Succ(x)' : White(m, y) => y \in whites
      <4> SUFFICES ASSUME NEW x \in Obj, m[x] = "black", NEW y \in Succ(x)', White(m, y) PROVE y \in whites
        OBVIOUS
      <4>1. y \in Succ(x) /\ Succ(x) \subseteq Obj
        BY <1>0, <1>4, RefsType DEF Succ
      <4>2. IsWhite(y)
        BY <3>2, <4>1 DEF White, IsWhite, Whites
      <4>3. x = u
        BY <3>2, <3>3, <4>1, <4>2 DEF MarkBase, Tri, IsWhite
      <4> QED BY <1>4, <4>2, <4>3
    <3>7. \A x \in Obj : White(m, x) /\ Kind[x] \in {"string", "upval"} => Succ(x)' \subseteq Refs(x)
      <4>1. \A x \in Obj : Kind[x] # "thread" => OpenUpvals(x) = {}
        BY <1>0 DEF Shape, OpenUpvals
      <4> QED BY <1>4, <4>1 DEF Succ
    <3>8. \A x \in Obj : Succ(x)' \subseteq Obj
      BY <1>0, <1>4, RefsType DEF Succ
    <3> HIDE DEF whites
    <3> QED BY <1>0, <1>1, <2>3, <3>1, <3>2, <3>4, <3>5, <3>6, <3>7, <3>8, BarrierMarking
  <2> QED BY <2>1, <2>2, <2>3
<1>11. Twups'
  <2>1. \A x \in Obj : owner'[x] \in {Nil, owner[x]} \cup twups'
    BY <1>3
  <2> QED BY <1>0, <1>1, <1>6, <2>1, ProgramTwups
<1> QED BY <1>8, <1>9, <1>10, <1>11 DEF Safe

-----------------------------------------------------------------------------
(* Finalizers *)

\* an object gets a finalizer: what was alive stays so, and it among them
LEMMA SafeCheckFinalizer ==
  ASSUME TypeInv, Control, Placement, Sweeping, Safe, NEW o \in Regs, CheckFinalizer(o)
  PROVE  Safe' /\ Kept
<1> USE DEF heapVars, grayVars, atomicVars, runVars
<1> DEFINE lists == IF SweptLast(o) THEN SweepToLive(sweepgc).list ELSE list
           s     == lists["allgc"]
<1>0. /\ TypeOK /\ Shape /\ Closed(Live) /\ Marking /\ Twups /\ Kind[o] = "table"
      /\ Live \subseteq Obj /\ o \in Live /\ o \in Obj /\ mark[o] # "free" /\ running \in Live
      /\ mark \in [Obj -> Colours] /\ list \in Lists
  BY HandsLive, MainThreadPlaced, ConstantsAssumption
     DEF Safe, TypeInv, TypeOK, AtHand, CheckFinalizer, ObjOfKind
<1>1. /\ at = "no" /\ closing # "done" /\ UNCHANGED <<gcstate, currentwhite, grayVars, atomicVars, runVars>>
      /\ list' = [lists EXCEPT !["allgc"] = Unlinked(s, Index(s, o)), !["finobj"] = <<o>> \o @]
  BY DEF CheckFinalizer, ProgramRuns
<1>2. ASSUME lists \in Lists, \A l \in ListName : Elems(lists[l]) \subseteq Elems(list[l])
      PROVE  Anchors' \subseteq Anchors \cup {o}
  <2> HIDE DEF s, lists
  <2>1. list'["finobj"] = <<o>> \o lists["finobj"] /\ list'["tobefnz"] = lists["tobefnz"]
        /\ lists["finobj"] \in Seq(Obj)
    BY <1>1, <1>2 DEF Lists, ListName
  <2>2. Elems(list'["finobj"]) = Elems(lists["finobj"]) \cup {o}
    BY <1>0, <2>1, PrependProperties
  <2>3. Elems(list'["finobj"]) \subseteq Elems(list["finobj"]) \cup {o}
        /\ Elems(list'["tobefnz"]) \subseteq Elems(list["tobefnz"])
    BY <1>2, <2>1, <2>2 DEF ListName
  <2>4. running' = running
    BY <1>1
  <2> QED BY <2>3, <2>4 DEF Anchors
<1>3. CASE ~SweptLast(o)
  <2>1. /\ mark' = Repainted(o) /\ UNCHANGED <<fields, owner>> /\ lists = list
    BY <1>3 DEF CheckFinalizer
  <2>2. Anchors' \subseteq Anchors \cup {o}
    <3> HIDE DEF s, lists
    <3> QED BY <1>0, <1>2, <2>1
  <2>3. Tinted /\ Program
    <3>1. Program
      BY <1>1 DEF Program
    <3>2. IsSweepPhase => mark[o] \in {"gray", "black", currentwhite}
      BY <1>0 DEF Live, IsDead, Colours, OtherWhite, TypeOK, Whites
    <3>3. \A x \in Obj : mark'[x] = mark[x] \/ (IsSweepPhase /\ x = o /\ mark'[x] = currentwhite)
      BY <1>0, <2>1 DEF Repainted
    <3>4. Tinted
      BY <3>2, <3>3 DEF Tinted
    <3> QED BY <3>1, <3>4
  <2>4. /\ Live' = Live /\ \A x \in Obj : mark'[x] = "free" <=> mark[x] = "free"
        /\ IsSweepPhase => \A x \in Obj : IsDead(x) => IsDead(x)'
    BY <1>1, <2>3, TintedLive
  <2>5. Shape' /\ Closed(Live)' /\ Kept
    <3>1. Writes(o, fields[o], {o})
      <4>1. fields' = [fields EXCEPT ![o] = fields[o]] /\ fields[o] \subseteq Entry
        BY <1>0, <2>1 DEF TypeOK
      <4> QED BY <1>0, <4>1 DEF Writes
    <3>2. savedtop' \subseteq fields'[running'] /\ (finalizing' # "call" => savedtop' = {})
          /\ UNCHANGED <<owner, running>>
      BY <1>0, <1>1, <2>1 DEF Shape
    <3>3. /\ {o} \subseteq Live' /\ Live \subseteq Live'
          /\ \A x \in Obj : mark'[x] = "free" => mark[x] = "free" /\ x # o
          /\ \A x \in Live' : x \notin Live => mark[x] = "free" \/ Kind[x] = "string"
      BY <1>0, <2>4
    <3> HIDE DEF s, lists
    <3> QED BY <1>0, <2>2, <3>1, <3>2, <3>3, WriteKeepsHeap
  <2>6. Marking'
    <3>1. \A x \in Obj : Succ(x)' = Succ(x)
      BY <2>1, SameHeap
    <3>2. KeepInvariant => mark' = mark
      BY <2>1 DEF Repainted, KeepInvariant, IsSweepPhase
    <3>3. UNCHANGED <<gray, grayagain>>
      BY <1>1
    <3> HIDE DEF s, lists
    <3> QED BY <1>0, <2>1, <2>3, <3>1, <3>2, <3>3, PlainMarking
  <2>7. Twups'
    <3>1. UNCHANGED twups
      BY <1>1
    <3> HIDE DEF s, lists
    <3> QED BY <1>0, <2>1, <2>3, <2>4, <3>1, ProgramTwups
  <2> HIDE DEF s, lists
  <2> QED BY <2>5, <2>6, <2>7 DEF Safe
<1>4. CASE SweptLast(o)
  <2> DEFINE p == sweepgc
             r == SweepToLive(p)
             D == r.dead
             W == r.live \cup {o}
  <2>1. Swept(r.dead, r.live \cup {o}) /\ IsSweepPhase /\ lists = r.list
    BY <1>4 DEF CheckFinalizer, SweptLast
  <2>2. p \in ListName \/ \E l \in ListName : p \in Elems(list[l])
    BY <1>0, <1>1, <1>4 DEF TypeInv, SweepgcLinked, SweptLast
  <2>3. Spared = Live /\ IsSweepPhase' /\ ~IsDead(MainThread) /\ Placed(list, Allocated, tofin)
    BY <1>1, <2>1, SparedLive DEF IsSweepPhase, Placement, MainKept
  <2>4. r = SweepToLive(p)
    OBVIOUS
  <2> HIDE DEF s, lists, r, p
  <2>5. /\ r.list \in Lists
        /\ \A x \in r.dead : IsDead(x) /\ x \in Allocated
        /\ r.live \subseteq Allocated /\ \A x \in r.live : ~IsDead(x)
        /\ Elems(r.list[ListOf(p)]) = Elems(list[ListOf(p)]) \ r.dead
        /\ \A l \in ListName \ {ListOf(p)} : r.list[l] = list[l]
    BY <1>0, <2>2, <2>3, <2>4, SweepToLivePlaced
  <2>6. \A l \in ListName : Elems(r.list[l]) \subseteq Elems(list[l])
    BY <2>5
  <2>7. Anchors' \subseteq Anchors \cup {o}
    BY <1>2, <2>1, <2>5, <2>6
  <2>8. /\ D \in SUBSET Obj /\ W \in SUBSET Spared /\ Swept(D, W) /\ \A x \in D : IsDead(x)
    BY <1>0, <2>1, <2>3, <2>5 DEF Allocated, Spared
  <2>9. Anchors' \subseteq Spared /\ \A x \in Spared : Succ(x) \subseteq Spared
    BY <1>0, <2>3, <2>7 DEF Closed
  <2>10. \A u \in Obj : owner[u] # Nil => owner[u] \in twups \/ IsDead(owner[u])
    BY <1>0, <1>1 DEF Twups
  <2>11. UNCHANGED <<currentwhite, running, savedtop, finalizing, twups>>
    BY <1>1
  <2> HIDE DEF D, W
  <2>12. Safe' /\ Live' = Spared
    BY <1>0, <2>3, <2>8, <2>9, <2>10, <2>11, SweptSafe
  <2> QED BY <1>0, <2>3, <2>12 DEF Kept, Closed, Live
<1> QED BY <1>3, <1>4

\* a finalizer is called, or found missing: its object goes back to allgc
LEMMA SafeGCTM ==
  ASSUME TypeInv, Control, Placement, Sweeping, Safe, CallFinalizer \/ NextFinalizer
  PROVE  Safe' /\ Kept
<1> USE DEF heapVars, sweepVars, grayVars, atomicVars, runVars
<1> DEFINE o == Head(list["tobefnz"])
           F == fields'[running]
<1>0. /\ TypeOK /\ Shape /\ Closed(Live) /\ Marking /\ Twups /\ Kind[running] = "thread"
      /\ Live \subseteq Obj /\ running \in Live /\ running \in Obj /\ Nil \notin Obj
      /\ mark \in [Obj -> Colours] /\ fields \in [Obj -> SUBSET Entry] /\ list \in Lists
  BY HandsLive, MainThreadPlaced, ConstantsAssumption DEF Safe, TypeInv, TypeOK, Shape
<1>1. /\ at = "no" /\ savedtop = {} /\ GCTM
      /\ UNCHANGED <<gcstate, currentwhite, owner, running, gray, grayagain, twups>> /\ Program
  <2>1. at = "no" /\ finalizing # "call" /\ GCTM
    BY DEF CallFinalizer, NextFinalizer, CollectorRuns, Control, InEmergency
  <2>2. UNCHANGED <<gcstate, currentwhite, owner, running, gray, grayagain, twups>> /\ Program
    BY <2>1 DEF GCTM, Program
  <2> QED BY <1>0, <2>1, <2>2 DEF Shape
<1>2. /\ list["tobefnz"] # <<>> /\ list["tobefnz"] \in Seq(Obj)
      /\ list' = [list EXCEPT !["tobefnz"] = Tail(@), !["allgc"] = <<o>> \o @]
      /\ mark' = Repainted(o)
      /\ \/ /\ finalizing' = "call" /\ savedtop' = fields[running]
            /\ fields' = [fields EXCEPT ![running] = @ \cup {<<Nil, o>>}]
         \/ finalizing' = "loop" /\ UNCHANGED <<savedtop, fields>>
  BY <1>0, <1>1 DEF GCTM, Lists, ListName
<1>3. o \in Elems(list["tobefnz"]) /\ Elems(Tail(list["tobefnz"])) \subseteq Elems(list["tobefnz"])
  <2> DEFINE q == list["tobefnz"]
  <2>1. q \in Seq(Obj) /\ q # <<>>
    BY <1>2
  <2> HIDE DEF q
  <2>2. Head(q) \in Elems(q) /\ Elems(Tail(q)) \subseteq Elems(q)
    BY <2>1, HeadTailElems
  <2> QED BY <2>2 DEF q
<1> HIDE DEF o
<1>4. o \in Live /\ o \in Obj /\ Kind[o] = "table" /\ mark[o] # "free"
  <2>1. o \in Anchors /\ o \in tofin
    BY <1>3 DEF Anchors, Placement, Placed
  <2>2. Kind[o] = "table"
    BY <2>1, ConstantsAssumption DEF Placement, ObjOfKind
  <2> QED BY <1>0, <2>1, <2>2 DEF Closed, Live
<1>5. Anchors' \subseteq Anchors \cup {o}
  <2>1. list'["finobj"] = list["finobj"] /\ list'["tobefnz"] = Tail(list["tobefnz"])
    BY <1>0, <1>2 DEF Lists, ListName
  <2> QED BY <1>1, <1>3, <2>1 DEF Anchors
<1>6. /\ fields' = [fields EXCEPT ![running] = F]
      /\ F = fields[running] \/ F = fields[running] \cup {<<Nil, o>>}
      /\ savedtop' \subseteq F /\ (finalizing' # "call" => savedtop' = {})
  BY <1>0, <1>1, <1>2
<1> HIDE DEF F
<1>7. Writes(running, F, {o})
  <2>1. <<Nil, o>> \in Entry /\ Objs(<<Nil, o>>) \subseteq {o} /\ fields[running] \subseteq Entry
    BY <1>0, <1>4 DEF Entry, Objs
  <2> QED BY <1>0, <1>4, <1>6, <2>1 DEF Writes
<1>8. Tinted
  <2>1. IsSweepPhase => mark[o] \in {"gray", "black", currentwhite}
    BY <1>0, <1>4 DEF Live, IsDead, Colours, OtherWhite, TypeOK, Whites
  <2>2. \A x \in Obj : mark'[x] = mark[x] \/ (IsSweepPhase /\ x = o /\ mark'[x] = currentwhite)
    BY <1>0, <1>2, <1>4 DEF Repainted
  <2> QED BY <2>1, <2>2 DEF Tinted
<1>9. /\ Live' = Live /\ \A x \in Obj : mark'[x] = "free" <=> mark[x] = "free"
      /\ IsSweepPhase => \A x \in Obj : IsDead(x) => IsDead(x)'
  BY <1>1, <1>8, TintedLive
<1>10. Shape' /\ Closed(Live)' /\ Kept
  <2>1. savedtop' \subseteq fields'[running'] /\ UNCHANGED <<owner, running>>
    BY <1>1, <1>6 DEF F
  <2>2. /\ {o} \subseteq Live' /\ Live \subseteq Live'
        /\ \A x \in Obj : mark'[x] = "free" => mark[x] = "free" /\ x # running
        /\ \A x \in Live' : x \notin Live => mark[x] = "free" \/ Kind[x] = "string"
    BY <1>0, <1>4, <1>9 DEF Live
  <2> QED BY <1>0, <1>5, <1>6, <1>7, <2>1, <2>2, WriteKeepsHeap
<1>11. Marking'
  <2>1. \A x \in Obj \ {running} : Succ(x)' = Succ(x)
    BY <1>0, <1>1, <1>7, WritesMeans
  <2>2. KeepInvariant => mark' = mark /\ mark[running] # "black"
    BY <1>0, <1>1, <1>2 DEF Repainted, KeepInvariant, IsSweepPhase, Marking, MarkOpen
  <2>3. KeepInvariant => \A x \in Obj : mark[x] = "black" => \A y \in Succ(x)' : y \in Succ(x)
    BY <2>1, <2>2
  <2> QED BY <1>0, <1>1, <2>2, <2>3, PlainMarking
<1>12. Twups'
  BY <1>0, <1>1, <1>9, ProgramTwups
<1> QED BY <1>10, <1>11, <1>12 DEF Safe

\* the marking phases free nothing
LEMMA KeptMarking ==
  ASSUME TypeInv, Control, Placement, Sweeping, Safe, MarkingStep
  PROVE  Safe' /\ Kept
<1>1. Shape /\ Closed(Live) /\ Marking
  BY DEF Safe
<1>2. MarkingHeap
  BY <1>1, MarkingMarks, MarkingVisits, MarkingClears, MarkingSeparates DEF MarkingStep
<1>3. \A x \in Obj : mark'[x] = "free" <=> mark[x] = "free"
  BY <1>2, DarkerMeans DEF MarkingHeap
<1>4. Kept
  BY <1>1, <1>3 DEF Kept, Closed, Live
<1> QED BY <1>4, SafeMarking

-----------------------------------------------------------------------------
(* All steps but the last *)

LEMMA SafeCollector ==
  ASSUME TypeInv, Control, Placement, Sweeping, Orderly, Safe, CollectorStep
  PROVE  Safe' /\ Kept
<1>1. CASE MarkingStep
  BY <1>1, KeptMarking
<1>2. CASE AtomicEnd
  BY <1>2, SafeAtomicEnd
<1>3. CASE SweepObject
  <2>1. closing = "no"
    BY <1>3, CollectorWhileOpen DEF SweepObject
  <2> QED BY <1>3, <2>1, SafeSweepObject
<1>4. CASE SweepNothing \/ SweepNext \/ FinishCycle \/ FullGCEnd \/ FinalizersEnd
  BY <1>4, SafeQuiet
<1>5. CASE CallFinalizer \/ NextFinalizer
  BY <1>5, SafeGCTM
<1> QED BY <1>1, <1>2, <1>3, <1>4, <1>5 DEF CollectorStep, MarkingStep

LEMMA SafeProgram ==
  ASSUME TypeInv, Control, Placement, Sweeping, Orderly, Safe, ProgramStep
  PROVE  Safe' /\ Kept
<1>1. CASE \/ \E o \in Obj : NewObject(o) \/ InternString(o)
           \/ \E o \in AtHand : \E v \in Readable(o) : Load(o, v)
           \/ \E o \in Regs : \E v \in Regs : Transfer(o, v)
  BY <1>1, ProgramPushes
<1>2. CASE \/ \E v \in Refs(running) : Pop(v)
           \/ \E o \in AtHand : \E e \in fields[o] : ClearField(o, e)
           \/ FinalizerReturn
           \/ CloseState
  BY <1>2, ProgramDrops
<1>3. CASE \E o \in AtHand : \E e \in Slots[o] : SetField(o, e)
  BY <1>3, SafeSetField
<1>4. CASE Yield \/ \E t \in Regs : Resume(t)
  BY <1>4, ProgramSwitches
<1>5. CASE \E o \in Regs : \/ \E v \in Regs \cup OpenUpvals(running) : SetClosure(o, v)
                           \/ \E u \in ObjOfKind({"upval"}), v \in Regs : SetUpval(o, u, v)
  BY <1>5, ProgramBarriers
<1>6. CASE \E o \in Regs, u \in ObjOfKind({"upval"}), v \in Regs : NewUpval(o, u, v)
  BY <1>6, SafeNewUpval DEF ObjOfKind
<1>7. CASE \E u \in OpenUpvals(running) : CloseUpval(u)
  BY <1>7, SafeCloseUpval
<1>8. CASE \E o \in Regs : CheckFinalizer(o)
  BY <1>8, SafeCheckFinalizer
<1>9. CASE \E emergency \in BOOLEAN : FullGC(emergency)
  BY <1>9, SafeFullGC
<1>10. CASE StopGC \/ RestartGC \/ \E t, m : SetMode(t, m)
  BY <1>10, SafeQuiet
<1> QED BY <1>1, <1>2, <1>3, <1>4, <1>5, <1>6, <1>7, <1>8, <1>9, <1>10 DEF ProgramStep

-----------------------------------------------------------------------------
(* The invariant, and what follows from it *)

\* once luaC_freeallobjects is done nothing happens any more
SafeInv ==
  /\ SweepInv
  /\ Orderly /\ closing # "done" => Safe
  /\ closing = "done" => finalizing = "no" /\ (Orderly => TriColor)

LEMMA SafeMeans ==
  ASSUME TypeInv, Safe
  PROVE  TriColor /\ NoDangling /\ GrayLists /\ \A x \in Anchors : mark[x] # "free"
<1>1. Closed(Live) /\ Marking /\ (KeepInvariant => MarkBase)
  BY DEF Safe, Marking
<1>2. TriColor
  BY <1>1 DEF TriColor, MarkBase, Tri, IsWhite
<1>3. NoDangling
  BY <1>1 DEF NoDangling
<1>4. \A x \in Anchors : mark[x] # "free"
  BY <1>1 DEF Closed, Live
<1>5. ASSUME KeepInvariant
      PROVE  LET lists == <<gray, grayagain, weak, ephemeron, allweak, again, todo>>
             IN  /\ UNION Elems(lists) = {o \in Obj : mark[o] = "gray" /\ Kind[o] # "upval"}
                 /\ \A i, j \in DOMAIN lists : i # j => lists[i] \cap lists[j] = {}
                 /\ \A u \in Obj : Kind[u] = "upval" /\ mark[u] = "gray" => owner[u] # Nil
  <2> DEFINE lists == <<gray, grayagain, weak, ephemeron, allweak, again, todo>>
  <2>1. /\ GrayOpen(mark) /\ Listed(mark, gray, grayagain, weak, ephemeron, allweak, again, todo)
        /\ gray \subseteq Obj /\ grayagain \subseteq Obj /\ weak \subseteq Obj
        /\ ephemeron \subseteq Obj /\ allweak \subseteq Obj /\ again \subseteq Obj /\ todo \subseteq Obj
    BY <1>1, <1>5 DEF MarkBase, TypeInv, TypeOK
  <2>2. /\ DOMAIN lists = {1, 2, 3, 4, 5, 6, 7}
        /\ lists[1] = gray /\ lists[2] = grayagain /\ lists[3] = weak /\ lists[4] = ephemeron
        /\ lists[5] = allweak /\ lists[6] = again /\ lists[7] = todo
    OBVIOUS
  <2>3. UNION Elems(lists)
          = gray \cup grayagain \cup weak \cup ephemeron \cup allweak \cup again \cup todo
    <3> HIDE DEF lists
    <3> QED BY <2>2 DEF Elems
  <2>4. UNION Elems(lists) = {o \in Obj : mark[o] = "gray" /\ Kind[o] # "upval"}
    <3> HIDE DEF lists
    <3> QED BY <2>1, <2>3 DEF Listed
  <2>5. ASSUME NEW x \in Obj, NEW i \in DOMAIN lists, NEW j \in DOMAIN lists, x \in lists[i], x \in lists[j]
        PROVE  i = j
    <3> HIDE DEF lists
    <3> QED BY <2>1, <2>2, <2>5 DEF Listed
  <2>6. \A i \in DOMAIN lists : lists[i] \subseteq Obj
    <3> HIDE DEF lists
    <3> QED BY <2>1, <2>2
  <2>7. \A i, j \in DOMAIN lists : i # j => lists[i] \cap lists[j] = {}
    <3> HIDE DEF lists
    <3> QED BY <2>5, <2>6
  <2>8. \A u \in Obj : Kind[u] = "upval" /\ mark[u] = "gray" => owner[u] # Nil
    BY <2>1 DEF GrayOpen
  <2> QED BY <2>4, <2>7, <2>8
<1>6. GrayLists
  BY <1>5 DEF GrayLists
<1> QED BY <1>2, <1>3, <1>4, <1>6

LEMMA SafeInvInit == Init => SafeInv
<1> SUFFICES ASSUME Init PROVE SafeInv
  OBVIOUS
<1>1. SweepInv
  BY SweepInvInit
<1>2. /\ mark = [o \in Obj |-> IF o \in {MainThread} \cup RootTables THEN "white0" ELSE "free"]
      /\ fields = [o \in Obj |-> {}] /\ owner = [o \in Obj |-> Nil]
      /\ gcstate = "pause" /\ running = MainThread /\ savedtop = {} /\ closing = "no"
      /\ \A l \in ListName \ {"allgc"} : list[l] = <<>>
  BY DEF Init
<1>3. /\ MainThread \in Obj /\ Kind[MainThread] = "thread" /\ RootTables \subseteq Obj
  BY ConstantsAssumption DEF ObjOfKind
<1>4. \A o \in Obj : Refs(o) = {} /\ OpenUpvals(o) = {} /\ Succ(o) = {}
  <2>1. \A o \in Obj : Refs(o) = {} /\ OpenUpvals(o) = {}
    BY <1>2, ConstantsAssumption DEF Refs, OpenUpvals
  <2> QED BY <2>1 DEF Succ
<1>5. Live = {MainThread} \cup RootTables
  BY <1>2, <1>3 DEF Live, IsSweepPhase
<1>6. Anchors = {MainThread} \cup RootTables
  <2>1. list["finobj"] = <<>> /\ list["tobefnz"] = <<>>
    BY <1>2 DEF ListName
  <2> QED BY <1>2, <2>1 DEF Anchors, Elems
<1>7. Closed(Live)
  BY <1>3, <1>4, <1>5, <1>6 DEF Closed
<1>8. Shape
  BY <1>2, <1>3, <1>4 DEF Shape
<1>9. Marking /\ Twups
  BY <1>2 DEF Marking, KeepInvariant, Twups
<1> QED BY <1>1, <1>2, <1>7, <1>8, <1>9 DEF SafeInv, Safe

\* what DeleteAll frees has no finalizer due, and it turns nothing white
LEMMA DeleteKeeps ==
  ASSUME TypeInv, Placement, DeleteAll
  PROVE  /\ TriColor => TriColor'
         /\ \A o \in tofin : mark'[o] # "free"
<1> USE DEF heapVars, sweepVars, grayVars, atomicVars
<1> DEFINE s == list["allgc"]
           D == {s[i] : i \in 1 .. Index(s, MainThread) - 1}
<1>1. /\ mark' = [o \in Obj |-> IF o \in D THEN "free" ELSE mark[o]]
      /\ fields' = [o \in Obj |-> IF o \in D THEN {} ELSE fields[o]]
      /\ owner' = [o \in Obj |-> IF o \in D THEN Nil ELSE owner[o]]
      /\ gcstate' = gcstate
  BY DEF DeleteAll
<1>2. TypeOK /\ Nil \notin Obj
  BY ConstantsAssumption DEF TypeInv
<1>3. D \cap tofin = {}
  <2>1. /\ s \in Seq(Obj) /\ Len(s) \in Nat /\ Apart(list) /\ s # <<>> /\ s[Len(s)] = MainThread
        /\ tofin = Elems(list["finobj"]) \cup Elems(list["tobefnz"])
    BY MainThreadPlaced DEF Placement, Placed, ListName
  <2>2. Elems(list["allgc"]) \cap tofin = {}
    BY <2>1 DEF Apart, ListName
  <2>3. D \subseteq Elems(s)
    <3> HIDE DEF s
    <3>1. MainThread \in Elems(s)
      BY <2>1 DEF Elems
    <3>2. Index(s, MainThread) \in 1 .. Len(s)
      BY <2>1, <3>1, IndexProperties
    <3> QED BY <2>1, <3>2 DEF Elems
  <2> HIDE DEF D
  <2> QED BY <2>2, <2>3
<1> HIDE DEF D
<1>4. \A o \in tofin : mark'[o] # "free"
  <2>1. \A o \in tofin : o \in Obj /\ mark[o] # "free"
    <3>1. tofin \subseteq Allocated
      BY DEF Placement, Placed, ListName
    <3> QED BY <3>1 DEF Allocated
  <2> QED BY <1>1, <1>3, <2>1
<1>5. \A o \in Obj : mark'[o] = "black" => mark[o] = "black" /\ Succ(o)' \subseteq Succ(o)
  <2> SUFFICES ASSUME NEW o \in Obj, mark'[o] = "black" PROVE mark[o] = "black" /\ Succ(o)' \subseteq Succ(o)
    OBVIOUS
  <2>1. o \notin D /\ mark[o] = "black" /\ fields'[o] = fields[o]
    BY <1>1
  <2>2. Refs(o)' \subseteq Refs(o)
    BY <2>1 DEF Refs
  <2>3. OpenUpvals(o)' \subseteq OpenUpvals(o)
    <3>1. \A u \in Obj : owner'[u] = o => owner[u] = o
      BY <1>1, <1>2
    <3> QED BY <3>1 DEF OpenUpvals
  <2> QED BY <2>1, <2>2, <2>3 DEF Succ
<1>6. \A o \in Obj : IsWhite(o)' => IsWhite(o)
  BY <1>1 DEF IsWhite, White, Whites
<1>7. \A o \in Obj : Succ(o) \subseteq Obj
  BY <1>2, RefsType DEF Succ
<1>8. TriColor => TriColor'
  BY <1>1, <1>5, <1>6, <1>7 DEF TriColor, KeepInvariant
<1> QED BY <1>4, <1>8

\* when luaC_freeallobjects is done nothing runs any more
LEMMA DoneStops ==
  ASSUME Control, closing = "done", finalizing = "no"
  PROVE  ~CollectorStep /\ ~ProgramStep
<1>1. at = "no" /\ finalizing = "no" /\ ~ProgramRuns /\ ~CollectorRuns
  BY DEF Control, ProgramRuns, CollectorRuns
<1>2. ~CollectorStep
  <2>1. ~(RestartCollection \/ Propagate \/ EnterAtomic \/ AtomicStart \/ AtomicPropagate)
    BY <1>1 DEF RestartCollection, Propagate, EnterAtomic, AtomicStart, AtomicPropagate
  <2>2. ~(AtomicRemarkUpvals \/ AtomicGrayAgain \/ ConvergePass \/ \E o \in Obj : ConvergeVisit(o))
    BY <1>1 DEF AtomicRemarkUpvals, AtomicGrayAgain, ConvergePass, ConvergeVisit, AtomicAt
  <2>3. ~(AtomicClearValues \/ AtomicSeparate \/ AtomicMarkBeingFnz \/ AtomicClearKeys \/ AtomicEnd)
    BY <1>1 DEF AtomicClearValues, AtomicSeparate, AtomicMarkBeingFnz, AtomicClearKeys, AtomicEnd,
                Converged, AtomicAt
  <2>4. ~(SweepObject \/ SweepNothing \/ SweepNext \/ FinishCycle \/ FullGCEnd)
    BY <1>1 DEF SweepObject, SweepNothing, SweepNext, FinishCycle, FullGCEnd
  <2>5. ~(CallFinalizer \/ NextFinalizer \/ FinalizersEnd)
    BY <1>1 DEF CallFinalizer, NextFinalizer, FinalizersEnd
  <2> QED BY <2>1, <2>2, <2>3, <2>4, <2>5 DEF CollectorStep
<1>3. ~ProgramStep
  <2>1. \A o : ~(NewObject(o) \/ InternString(o) \/ Pop(o) \/ CheckFinalizer(o) \/ Resume(o)
                 \/ CloseUpval(o))
    BY <1>1 DEF NewObject, InternString, Pop, CheckFinalizer, Resume, CloseUpval
  <2>2. \A o, v : ~(Load(o, v) \/ SetField(o, v) \/ ClearField(o, v) \/ SetMode(o, v)
                    \/ Transfer(o, v) \/ SetClosure(o, v))
    BY <1>1 DEF Load, SetField, ClearField, SetMode, Transfer, SetClosure
  <2>3. \A o, u, v : ~(NewUpval(o, u, v) \/ SetUpval(o, u, v))
    BY <1>1 DEF NewUpval, SetUpval
  <2>4. ~(Yield \/ StopGC \/ RestartGC \/ FinalizerReturn \/ CloseState) /\ \A b : ~FullGC(b)
    BY <1>1 DEF Yield, StopGC, RestartGC, FinalizerReturn, CloseState, FullGC
  <2> QED BY <2>1, <2>2, <2>3, <2>4 DEF ProgramStep
<1> QED BY <1>2, <1>3

\* one step, and what it does not free
LEMMA SafeInvStep ==
  ASSUME SafeInv, [Next]_vars
  PROVE  /\ SafeInv'
         /\ Orderly /\ ~UNCHANGED vars => \A o \in tofin : mark'[o] # "free"
<1>0. /\ TypeInv /\ Control /\ Placement /\ SweepInv' /\ (Orderly => Sweeping)
      /\ Orderly' => Orderly
  BY SweepInvNext, OrderlyBefore DEF SafeInv, SweepInv
<1>1. CASE UNCHANGED vars
  <2> USE DEF vars, heapVars, sweepVars, grayVars, atomicVars, runVars
  <2>1. ASSUME Orderly, closing # "done" PROVE Safe'
    <3>1. Safe
      BY <2>1 DEF SafeInv
    <3> QED BY <1>0, <1>1, <2>1, <3>1, SafeQuiet
  <2>2. TriColor => TriColor'
    BY <1>1 DEF TriColor, KeepInvariant, IsWhite, White, Succ, Refs, OpenUpvals
  <2>3. UNCHANGED <<closing, finalizing>> /\ (Orderly' => Orderly)
    BY <1>0, <1>1
  <2> QED BY <1>0, <1>1, <2>1, <2>2, <2>3 DEF SafeInv
<1>2. CASE DeleteAll
  <2>1. closing = "finalizers" /\ closing' = "done" /\ finalizing' = "no"
    BY <1>2 DEF DeleteAll
  <2>2. (TriColor => TriColor') /\ \A o \in tofin : mark'[o] # "free"
    BY <1>0, <1>2, DeleteKeeps
  <2>3. Orderly => TriColor
    BY <1>0, <2>1, SafeMeans DEF SafeInv
  <2> QED BY <1>0, <2>1, <2>2, <2>3 DEF SafeInv
<1>3. CASE (CollectorStep \/ ProgramStep) /\ ~DeleteAll
  <2>1. closing # "done"
    BY <1>0, <1>3, DoneStops DEF SafeInv
  <2>2. closing' # "done"
    BY <1>3, <2>1, ClosingSteps
  <2>3. Orderly => Safe' /\ Kept
    BY <1>0, <1>3, <2>1, SafeCollector, SafeProgram DEF SafeInv
  <2>4. tofin \subseteq Anchors
    BY <1>0 DEF Placement, Placed, Anchors
  <2> QED BY <1>0, <2>2, <2>3, <2>4 DEF SafeInv, Kept
<1> QED BY <1>1, <1>2, <1>3 DEF Next

LEMMA SafeInvAlways == Spec => []SafeInv
<1>1. SafeInv /\ [Next]_vars => SafeInv'
  BY SafeInvStep
<1> QED BY <1>1, SafeInvInit, PTL DEF Spec

\* Nothing the program can reach is ever freed: whatever the order in which
\* the collector's steps, the barriers, the finalizers and full collections
\* interleave, there are objects, none freed nor about to be, that hold the
\* stack that runs, the roots and what is due for finalization, and all they
\* refer to.  While the state closes, if nothing can fail to allocate then:
\* an emergency collection there is what run gc_close_emergency shows.
THEOREM Reachability == Spec => [](Orderly => NoDangling)
<1>1. SafeInv => (Orderly => NoDangling)
  BY SafeMeans DEF SafeInv, SweepInv, NoDangling
<1> QED BY <1>1, SafeInvAlways, PTL

\* No black object points to a white one while the collector must keep it so:
\* what luaC_barrier, luaC_barrierback and the barrier of closed upvalues are
\* for, with the weak tables and threads that wait in grayagain instead.
THEOREM Barriers == Spec => [](Orderly => TriColor)
<1>1. SafeInv => (Orderly => TriColor)
  BY SafeMeans DEF SafeInv, SweepInv
<1> QED BY <1>1, SafeInvAlways, PTL

\* Each gray object waits in exactly one gray list, as its one gclist field
\* demands, and an upvalue is gray only while open.
THEOREM OneGrayList == Spec => [](Orderly => GrayLists)
<1>1. SafeInv => (Orderly => GrayLists)
  BY SafeMeans DEF SafeInv, SweepInv, GrayLists
<1> QED BY <1>1, SafeInvAlways, PTL

\* No object is freed with its finalizer still due, neither by a sweep nor by
\* luaC_freeallobjects.
THEOREM FinalizersFirst == Spec /\ []Orderly => FinalizedBeforeFreed
<1>1. SafeInv /\ Orderly /\ [Next]_vars => [\A o \in tofin : mark'[o] # "free"]_vars
  BY SafeInvStep
<1> QED BY <1>1, SafeInvAlways, PTL DEF Spec, FinalizedBeforeFreed

=============================================================================
