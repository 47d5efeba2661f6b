------------------------------- MODULE GenGC -------------------------------
(***************************************************************************)
(* The generational mode of the garbage collector (lgc.c).  Collections    *)
(* are not incremental here, so each is one action; between them the       *)
(* program stores references and the barriers keep track of the old        *)
(* objects that may refer to young ones.  In incremental mode this model   *)
(* has the collector at rest: module LuaGC is about its work.              *)
(*                                                                         *)
(* As in LuaGC the gray lists are sets, the content of a table is a set of *)
(* entries <<key, value>>, a thread's stack, a closure's upvalues and the  *)
(* value of an upvalue are entries without a key.  A pointer into a list   *)
(* is the object it points to; Null is the end of the list.                *)
(***************************************************************************)
EXTENDS Naturals, Sequences, FiniteSets, SequencesExt

CONSTANTS
  Slots,       \* memory an object can occupy
  Null,
  MaxStack,    \* most values on one thread's stack (a bound)
  MaxEntries   \* most entries in one object (a bound)

ASSUME GenAssumption == IsFiniteSet(Slots) /\ Null \notin Slots /\ MaxStack \in Nat /\ MaxEntries \in Nat

Main  == "main"      \* g->mainthread; it is never freed
Obj   == Slots \cup {Main}
Kinds == {"thread", "strong", "weakv", "weakk", "weakkv", "closure", "upval"}  \* all but
                     \* thread, closure and upval are tables, by weakness
Ages  == {"NEW", "SURVIVAL", "OLD0", "OLD1", "OLD", "TOUCHED1", "TOUCHED2"}

VARIABLE gen
\* gen: the heap [kind, colour, age, refs, owner (of an open upvalue), fin (FINALIZEDBIT),
\* allgc, finobj, tobefnz, pointers into these, gray lists], gckind, bad
\* (lastatomic # 0: the last collection freed too little), and what the
\* program does: kinds of objects and operations (uses), how many objects at
\* a time (room, a bound)

Pointers == {"survival", "old1", "reallyold", "firstold1", "finobjsur", "finobjold1", "finobjrold"}

Allocated(h) == {o \in Obj : h.colour[o] # "free"}
Is(h, o, K)  == o # Null /\ h.kind[o] \in K
IsTable(h, o) == Is(h, o, {"strong", "weakv", "weakk", "weakkv"})
IsOld(h, o)  == h.age[o] \notin {"NEW", "SURVIVAL"}
Whites(h)    == {o \in Obj : h.colour[o] = "white"}
Refs(h, o)   == UNION {{e[1], e[2]} : e \in h.refs[o]} \ {Null}
OpenUpvals(h, t) == {u \in Obj : h.owner[u] = t}
StackOf(h, t)  == Refs(h, t) \cup UNION {Refs(h, u) : u \in OpenUpvals(h, t)}

First(s)     == IF s = <<>> THEN Null ELSE s[1]
Place(s, p)  == IF p = Null THEN Len(s) + 1 ELSE CHOOSE i \in DOMAIN s : s[i] = p
Before(s, p) == SubSeq(s, 1, Place(s, p) - 1)
From(s, p)   == SubSeq(s, Place(s, p), Len(s))
Paint(h, S, c) == [h EXCEPT !.colour = [o \in Obj |-> IF o \in S THEN c ELSE @[o]]]
SetAge(h, S, a) == [h EXCEPT !.age = [o \in Obj |-> IF o \in S THEN a ELSE @[o]]]

-----------------------------------------------------------------------------
\* Marking

\* reallymarkobject on each of S; an upvalue is visited at once
ReallyMark(h, S) ==
  LET Up == {u \in S : Is(h, u, {"upval"})}
      V  == S \cup (UNION {Refs(h, u) : u \in Up} \cap Whites(h))
      closed == {u \in Up : h.owner[u] = Null}
  IN  [Paint(Paint(h, V, "gray"), closed, "black") EXCEPT !.gray = @ \cup (V \ Up)]
Mark(h, S) == ReallyMark(h, S \cap Whites(h))

\* (there are no strings here, which iscleared takes for values)
IsCleared(h, x) == x # Null /\ x \in Whites(h)

GenLink(h, o) ==
  CASE h.age[o] = "TOUCHED1" -> [Paint(h, {o}, "gray") EXCEPT !.grayagain = @ \cup {o}]
    [] h.age[o] = "TOUCHED2" -> SetAge(h, {o}, "OLD")
    [] OTHER -> h
Link(h, o, list) == [Paint(h, {o}, "gray") EXCEPT ![list] = @ \cup {o}]

TraverseWeakValue(h, o) ==
  LET k == Mark(h, {e[1] : e \in h.refs[o]})
  IN  IF \E e \in h.refs[o] : IsCleared(k, e[2]) THEN Link(k, o, "weak") ELSE Link(k, o, "grayagain")

EphemeronMarks(h, o) == {e[2] : e \in {x \in h.refs[o] : ~IsCleared(h, x[1])}} \cap Whites(h)
TraverseEphemeron(h, o) ==
  LET k         == Mark(h, EphemeronMarks(h, o))
      hasclears == {e \in h.refs[o] : IsCleared(h, e[1])}
      hasww     == \E e \in hasclears : e[2] \in Whites(h)
  IN  IF hasww THEN Link(k, o, "ephemeron")
      ELSE IF hasclears # {} THEN Link(k, o, "allweak") ELSE GenLink(k, o)

\* traversetable, traverseLclosure, traversethread
Traverse(h, o) ==
  CASE h.kind[o] = "strong"  -> GenLink(Mark(h, Refs(h, o)), o)
    [] h.kind[o] = "weakv"   -> TraverseWeakValue(h, o)
    [] h.kind[o] = "weakk"   -> TraverseEphemeron(h, o)
    [] h.kind[o] = "weakkv"  -> Link(h, o, "allweak")
    [] h.kind[o] = "closure" -> Mark(h, Refs(h, o))
    [] h.kind[o] = "thread"  ->   \* old threads are visited at every cycle
         Mark(IF IsOld(h, o) THEN Link(h, o, "grayagain") ELSE h, StackOf(h, o) \cup OpenUpvals(h, o))

\* 'gray' is a set: which one comes next decides nothing
RECURSIVE PropagateAll(_)
PropagateAll(h) ==
  IF h.gray = {} THEN h
  ELSE LET o == CHOOSE x \in h.gray : TRUE
       IN  PropagateAll(Traverse([Paint(h, {o}, "black") EXCEPT !.gray = @ \ {o}], o))

\* the values of marked upvalues of threads that are not marked
RemarkUpvals(h) ==
  Mark(h, UNION {Refs(h, u) : u \in {x \in Obj : /\ h.owner[x] # Null /\ h.owner[x] \in Whites(h)
                                                /\ x \notin Whites(h)}})

RECURSIVE ConvergeEphemerons(_)
ConvergeEphemerons(h) ==
  LET Again(k, o) == PropagateAll(TraverseEphemeron(Paint(k, {o}, "black"), o))
      after == FoldSet(LAMBDA o, k : Again(k, o), [h EXCEPT !.ephemeron = {}], h.ephemeron)
  IN  IF Whites(after) = Whites(h) THEN after ELSE ConvergeEphemerons(after)

Clear(h, S, i) ==
  [h EXCEPT !.refs = [o \in Obj |-> IF o \in S THEN {e \in @[o] : ~IsCleared(h, e[i])} ELSE @[o]]]
ClearByKeys(h)   == Clear(h, h.ephemeron \cup h.allweak, 1)
ClearByValues(h) == Clear(h, h.weak \cup h.allweak, 2)

\* objects after finobjold1 cannot be white
SeparateToBeFnz(h) ==
  LET young == Before(h.finobj, h.finobjold1)
      alive == SelectSeq(young, LAMBDA o : o \notin Whites(h))
      rest  == From(h.finobj, h.finobjold1)
  IN  [h EXCEPT !.finobj = alive \o rest,
                !.tobefnz = @ \o SelectSeq(young, LAMBDA o : o \in Whites(h)),
                !.finobjsur = First(SelectSeq(From(h.finobj, @), LAMBDA o : o \in ToSet(alive \o rest)))]

MarkBeingFnz(h) == Mark(h, ToSet(h.tobefnz))

Atomic(h) ==
  LET a == PropagateAll(Mark([h EXCEPT !.grayagain = {}], {Main}))
      b == PropagateAll(RemarkUpvals(a))
      c == ClearByValues(ConvergeEphemerons(PropagateAll([b EXCEPT !.gray = h.grayagain])))
      d == ConvergeEphemerons(PropagateAll(MarkBeingFnz(SeparateToBeFnz(c))))
  IN  ClearByValues(ClearByKeys(d))

-----------------------------------------------------------------------------
\* Sweeping

\* freeobj.  The open upvalues of a thread are closed (luaF_closethread); the
\* barrier does nothing in a sweep of this mode.
Free(h, D) ==
  LET orphans == {u \in Obj \ D : h.owner[u] \in D}
      k == Paint(Paint(h, D, "free"), orphans \ Whites(h), "black")
  IN  [SetAge(k, D, "NEW") EXCEPT
         !.refs  = [o \in Obj |-> IF o \in D THEN {} ELSE @[o]],
         !.owner = [o \in Obj |-> IF o \in D \cup orphans THEN Null ELSE @[o]],
         !.kind  = [o \in Obj |-> IF o \in D THEN "strong" ELSE @[o]],
         !.fin   = @ \ D]

NextAge == [a \in Ages |-> CASE a = "NEW" -> "SURVIVAL" [] a \in {"SURVIVAL", "OLD0"} -> "OLD1"
                             [] a = "OLD1" -> "OLD" [] OTHER -> a]

\* sweepgen on the objects S, which are those of a part of a list
SweepGen(h, S) ==
  LET live == S \ Whites(h)
      new  == {o \in live : h.age[o] = "NEW"}
      aged == [h EXCEPT !.age = [o \in Obj |-> IF o \in live THEN NextAge[@[o]] ELSE @[o]]]
  IN  Paint(Free(aged, S \cap Whites(h)), new, "white")

\* sweep the nursery and the survivals of a list, and advance its pointers
SweepList(h, list, sur, old1, rold) ==
  LET young == ToSet(Before(h[list], h[old1]))
      k     == SweepGen(h, young)
      Live(s) == SelectSeq(s, LAMBDA o : o \notin Whites(h))
      all   == Live(Before(h[list], h[old1])) \o From(h[list], h[old1])
  IN  [k EXCEPT ![list] = all, ![rold] = h[old1],
                ![old1] = First(Live(SubSeq(h[list], Place(h[list], h[sur]), Place(h[list], h[old1]) - 1))
                                \o From(h[list], h[old1])),
                ![sur]  = First(all)]

FirstOld1(h, young) ==
  First(SelectSeq(h.allgc, LAMBDA o : o \in young /\ h.age[o] = "OLD1"))

\* correctgraylists: all lists become one
CorrectGrayLists(h) ==
  LET all      == h.grayagain \cup h.weak \cup h.allweak \cup h.ephemeron
      kept     == all \ Whites(h)
      touched1 == {o \in kept : h.age[o] = "TOUCHED1"}
      touched2 == {o \in kept : h.age[o] = "TOUCHED2"}
      threads  == {o \in kept : Is(h, o, {"thread"})}
  IN  [SetAge(SetAge(Paint(h, kept \ threads, "black"), touched2, "OLD"), touched1, "TOUCHED2") EXCEPT
         !.grayagain = touched1 \cup threads, !.weak = {}, !.allweak = {}, !.ephemeron = {}]

\* markold on the objects S
MarkOld(h, S) ==
  LET old1 == {o \in S : h.age[o] = "OLD1"}
  IN  ReallyMark(SetAge(h, old1, "OLD"), {o \in old1 : h.colour[o] = "black"})

-----------------------------------------------------------------------------
\* Collections

NoGrayLists(h) == [h EXCEPT !.gray = {}, !.grayagain = {}, !.weak = {}, !.allweak = {}, !.ephemeron = {}]
RestartCollection(h) == MarkBeingFnz(Mark(NoGrayLists(h), {Main}))

\* firstold1 is left alone; it is not used before the next atomic2gen
EnterInc(h) ==
  [SetAge(Paint(h, Allocated(h), "white"), Obj, "NEW") EXCEPT
     !.survival = Null, !.old1 = Null, !.reallyold = Null,
     !.finobjsur = Null, !.finobjold1 = Null, !.finobjrold = Null, !.gckind = "inc"]

\* what youngcollection does before and after the atomic step
MarkOlds(h) ==
  LET old1s == IF h.firstold1 = Null THEN {}
               ELSE ToSet(From(h.allgc, h.firstold1)) \ ToSet(From(h.allgc, h.reallyold))
  IN  MarkOld([h EXCEPT !.firstold1 = Null],
              old1s \cup ToSet(Before(h.finobj, h.finobjrold)) \cup ToSet(h.tobefnz))
SweepYoung(h) ==
  LET young == ToSet(Before(h.allgc, h.old1))
      s     == SweepList(h, "allgc", "survival", "old1", "reallyold")
      f     == SweepList([s EXCEPT !.firstold1 = FirstOld1(s, young)],
                         "finobj", "finobjsur", "finobjold1", "finobjrold")
  IN  CorrectGrayLists(SweepGen(f, ToSet(f.tobefnz)))

\* take the white objects out of the lists
Sweep(h) ==
  LET Live(s) == SelectSeq(s, LAMBDA o : o \notin Whites(h))
  IN  Free([h EXCEPT !.allgc = Live(@), !.finobj = Live(@), !.tobefnz = Live(@)], Whites(h))

\* the sweep of the incremental mode
SweepInc(h) == LET k == Sweep(h) IN SetAge(Paint(k, Allocated(k), "white"), Obj, "NEW")

\* sweep2old on every list: what lives is old
Atomic2Gen(h) ==
  LET k       == Sweep(h)
      live    == Allocated(k)
      threads == {o \in live : Is(k, o, {"thread"})}
      open    == {o \in live : k.owner[o] # Null}
      aged    == Paint(Paint(SetAge(NoGrayLists(k), live, "OLD"), live, "black"), threads \cup open, "gray")
  IN  CorrectGrayLists(
        [aged EXCEPT !.grayagain = threads, !.gckind = "gen", !.firstold1 = Null,
           !.survival = First(k.allgc), !.old1 = First(k.allgc), !.reallyold = First(k.allgc),
           !.finobjsur = First(k.finobj), !.finobjold1 = First(k.finobj), !.finobjrold = First(k.finobj)])

\* A collection: a young one, or a whole cycle that ends in generational or in
\* incremental mode.
Collection(h, way) ==
  LET a == Atomic(IF way = "young" THEN MarkOlds(h)
                  ELSE RestartCollection(IF h.gckind = "gen" THEN EnterInc(h) ELSE h))
  IN  CASE way = "young" -> SweepYoung(a) [] way = "gen" -> Atomic2Gen(a) [] way = "inc" -> SweepInc(a)

-----------------------------------------------------------------------------
\* Barriers

\* a mutant: the object marked stays young
Barrier_Young(h, o, v) ==
  IF h.colour[o] # "black" \/ h.colour[v] # "white" THEN h ELSE ReallyMark(h, {v})
\* luaC_barrier_, if o is black and v white
Barrier(h, o, v) ==
  LET k == ReallyMark(h, {v})
  IN  IF h.colour[o] # "black" \/ h.colour[v] # "white" THEN h
      ELSE IF IsOld(h, o) THEN SetAge(k, {v}, "OLD0") ELSE k

\* luaC_barrierback_; a TOUCHED2 object is in a gray list already
BarrierBack(h, o, v) ==
  LET k == IF h.age[o] = "TOUCHED2" THEN Paint(h, {o}, "gray") ELSE Link(h, o, "grayagain")
  IN  IF h.colour[o] # "black" \/ h.colour[v] # "white" THEN h
      ELSE IF IsOld(h, o) THEN SetAge(k, {o}, "TOUCHED1") ELSE k

\* a stack has no barrier
Stored(h, o, v) ==
  CASE IsTable(h, o)             -> BarrierBack(h, o, v)
    [] Is(h, o, {"closure", "upval"}) -> Barrier(h, o, v)
    [] OTHER                     -> h

-----------------------------------------------------------------------------
\* The program, which runs in the main thread

Regs(h)  == StackOf(h, Main)
Room(h, o) == Cardinality(h.refs[o]) < IF Is(h, o, {"thread"}) THEN MaxStack ELSE MaxEntries
Value(v) == <<Null, v>>
UpvalsAtHand == {u \in Obj : /\ Is(gen, u, {"upval"})
                             /\ \E cl \in Regs(gen) : Is(gen, cl, {"closure"}) /\ u \in Refs(gen, cl)}

\* luaC_newobj
NewObject(o, k) ==
  /\ gen.colour[o] = "free" /\ Cardinality(Allocated(gen)) <= gen.room /\ Room(gen, Main)
  /\ gen' = [gen EXCEPT !.colour[o] = "white", !.kind[o] = k, !.allgc = <<o>> \o @,
                        !.refs[Main] = @ \cup {Value(o)}]

\* read from an object, or from a coroutine's stack; forget a value
Load(o, v) ==
  /\ ~Is(gen, v, {"upval"}) /\ Value(v) \notin gen.refs[Main] /\ Room(gen, Main)
  /\ gen' = [gen EXCEPT !.refs[Main] = @ \cup {Value(v)}]
Drop(v) == Value(v) \in gen.refs[Main] /\ gen' = [gen EXCEPT !.refs[Main] = @ \ {Value(v)}]

\* store a value, as a value or, in a table, as a key; the upvalues of a C closure
\* are values, those of a Lua closure are not
Store(o, e) ==
  /\ Room(gen, o) /\ (Is(gen, o, {"closure"}) => "upval" \notin gen.uses)
  /\ e # <<Null, Null>> /\ (e[1] # Null => IsTable(gen, o))
  /\ LET h == [gen EXCEPT !.refs[o] = @ \cup {e}]
     IN  gen' = FoldSet(LAMBDA v, k : Stored(k, o, v), h, {e[1], e[2]} \ {Null})
Erase(o, e) == ~Is(gen, e[2], {"upval"}) /\ gen' = [gen EXCEPT !.refs[o] = @ \ {e}]

\* pushclosure: a closure just made captures the variable of thread t that
\* holds v
Capture(u, cl, t, v) ==
  /\ gen.colour[u] = "free" /\ Cardinality(Allocated(gen)) <= gen.room /\ Is(gen, cl, {"closure"}) /\ Room(gen, cl)
  /\ "upval" \in gen.uses /\ gen.age[cl] = "NEW" /\ Is(gen, t, {"thread"}) /\ Value(v) \in gen.refs[t]
  /\ LET h == [gen EXCEPT !.colour[u] = "white", !.kind[u] = "upval", !.owner[u] = t,
                          !.allgc = <<u>> \o @, !.refs[t] = @ \ {Value(v)}, !.refs[u] = {Value(v)},
                          !.refs[cl] = @ \cup {Value(u)}]
     IN  gen' = Barrier(h, cl, u)

\* pushclosure: a variable captured before, or one of the enclosing closure
Share(u, cl) ==
  /\ Is(gen, cl, {"closure"}) /\ Room(gen, cl) /\ gen.age[cl] = "NEW"
  /\ gen' = Barrier([gen EXCEPT !.refs[cl] = @ \cup {Value(u)}], cl, u)

\* lua_upvaluejoin: a closure takes an upvalue of another
Join(cl, u) ==
  /\ "join" \in gen.uses /\ Is(gen, cl, {"closure"}) /\ \E w \in gen.refs[cl] : Is(gen, w[2], {"upval"})
  /\ gen' = Barrier([gen EXCEPT !.refs[cl] = (@ \ {CHOOSE w \in @ : Is(gen, w[2], {"upval"})}) \cup {Value(u)}], cl, u)

\* OP_SETUPVAL in a closure that has u
SetUpval(u, v) ==
  gen' = Barrier([gen EXCEPT !.refs[u] = {Value(v)}], u, v)

\* luaF_closeupval
CloseUpval(u) ==
  /\ gen.owner[u] # Null /\ gen.owner[u] \in Regs(gen) \cup {Main}
  /\ LET h == [gen EXCEPT !.owner[u] = Null]
         k == Paint(h, {u} \ Whites(h), "black")
     IN  gen' = FoldSet(LAMBDA v, x : Barrier(x, u, v), k, Refs(h, u))

\* a mutant: the pointer stays
CorrectPointer_Stays(h, p, o) == h
\* luaC_checkfinalizer: a pointer to an object that leaves allgc moves on
CorrectPointer(h, p, o) == [h EXCEPT ![p] = IF @ = o THEN First(Tail(From(h.allgc, o))) ELSE @]
SetFinalizer(o) ==
  /\ "finalizer" \in gen.uses /\ o \in Regs(gen) \ gen.fin /\ IsTable(gen, o)
  /\ LET h == FoldSet(LAMBDA p, k : CorrectPointer(k, p, o), gen,
                      {"survival", "old1", "reallyold", "firstold1"})
     IN  gen' = [h EXCEPT !.allgc = SelectSeq(@, LAMBDA x : x # o), !.finobj = <<o>> \o @,
                          !.fin = @ \cup {o}]

\* udata2finalize: the object returns to allgc, and to the program
Finalize ==
  /\ gen.tobefnz # <<>> /\ Room(gen, Main)
  /\ LET o == Head(gen.tobefnz)
     IN  gen' = [gen EXCEPT !.tobefnz = Tail(@), !.allgc = <<o>> \o @, !.fin = @ \ {o},
                   !.firstold1 = IF gen.age[o] = "OLD1" THEN o ELSE @,
                   !.refs[Main] = @ \cup {Value(o)}]

\* genstep and stepgenfull, luaC_fullgc, luaC_changemode choose the collection,
\* and whether it counts as bad; what they decide by the memory in use, or the
\* objects traversed, is free.  The finalizers they call are the action Finalize.
GenStep(way, bad) ==
  \/ gen.gckind = "gen" /\ ~gen.bad /\ ((way = "young" /\ ~bad) \/ (way = "gen" /\ "major" \in gen.uses))
  \/ gen.bad /\ way = IF bad THEN "inc" ELSE "gen"
FullGC(way, bad) == "major" \in gen.uses /\ way = gen.gckind /\ bad = (gen.bad /\ way = "inc")
ToGen(way, bad)  == gen.gckind = "inc" /\ way = "gen" /\ ~bad
Collect ==
  \E way \in {"young", "gen", "inc"}, bad \in BOOLEAN :
    /\ GenStep(way, bad) \/ FullGC(way, bad) \/ ToGen(way, bad)
    /\ gen' = [Collection(gen, way) EXCEPT !.bad = bad]

\* the rest of luaC_changemode
ChangeMode(mode) ==
  /\ \/ mode = "inc" /\ gen.gckind = "gen" /\ "major" \in gen.uses
     \/ mode = gen.gckind /\ gen.bad
  /\ gen' = [(IF mode = gen.gckind THEN gen ELSE EnterInc(gen)) EXCEPT !.bad = FALSE]

\* lua_newstate
NewHeap(uses, room) ==
  [kind   |-> [o \in Obj |-> IF o = Main THEN "thread" ELSE "strong"],
   colour |-> [o \in Obj |-> IF o = Main THEN "white" ELSE "free"],
   age    |-> [o \in Obj |-> "NEW"], refs |-> [o \in Obj |-> {}], owner |-> [o \in Obj |-> Null],
   fin    |-> {}, allgc |-> <<Main>>, finobj |-> <<>>, tobefnz |-> <<>>,
   survival |-> Null, old1 |-> Null, reallyold |-> Null, firstold1 |-> Null,
   finobjsur |-> Null, finobjold1 |-> Null, finobjrold |-> Null,
   gray |-> {}, grayagain |-> {}, weak |-> {}, allweak |-> {}, ephemeron |-> {},
   gckind |-> "inc", bad |-> FALSE, uses |-> uses, room |-> room]
GenInit ==
  \E uses \in SUBSET (Kinds \cup {"finalizer", "major", "join"}), room \in 1 .. Cardinality(Slots) :
    gen = NewHeap(uses, room)

GenNext ==
  \/ \E o \in Slots, k \in gen.uses \cap (Kinds \ {"upval"}) : NewObject(o, k)
  \/ \E o \in Regs(gen) \cup UpvalsAtHand : \E v \in Refs(gen, o) : Load(o, v)
  \/ \E v \in Refs(gen, Main) : Drop(v)
  \/ \E o \in Regs(gen) : \E e \in (Regs(gen) \cup {Null}) \X (Regs(gen) \cup {Null}) : Store(o, e)
  \/ \E o \in Regs(gen) : \E e \in gen.refs[o] : Erase(o, e)
  \/ \E u \in Slots, cl \in Regs(gen), t \in Regs(gen) \cup {Main} : \E v \in Refs(gen, t) : Capture(u, cl, t, v)
  \/ \E u \in UpvalsAtHand \cup OpenUpvals(gen, Main), cl \in Regs(gen) : Share(u, cl)
  \/ \E u \in UpvalsAtHand, v \in Regs(gen) : SetUpval(u, v)
  \/ \E cl \in Regs(gen), u \in UpvalsAtHand : Join(cl, u)
  \/ \E u \in Slots : CloseUpval(u)
  \/ \E o \in Slots : SetFinalizer(o)
  \/ Finalize \/ Collect
  \/ \E m \in {"gen", "inc"} : ChangeMode(m)

-----------------------------------------------------------------------------
\* Properties

\* What ages and colours are for: an object that a young collection does not
\* visit refers to none that it sweeps, and one that it visits for the last time
\* to none created since, but for threads, whose stacks have no barrier: old ones, and
\* open upvalues, are gray.
OldRefersToOld(h) ==
  \A o \in {x \in Allocated(h) : h.colour[x] = "black"} : \A v \in Refs(h, o) :
    /\ h.age[o] = "OLD" => IsOld(h, v)
    /\ h.age[o] \in {"OLD1", "TOUCHED2"} /\ ~Is(h, o, {"thread"}) => h.age[v] # "NEW"

\* The sublists are what their pointers say, so that the parts of the lists
\* that sweepgen, markold and separatetobefnz leave out hold nothing for them:
\* no white object after old1, no OLD1 object out of the reach of firstold1.
SublistsTrue(h) ==
  LET InOrder(s, ps) == \A i \in DOMAIN ps :
                          /\ h[ps[i]] \in ToSet(s) \cup {Null}
                          /\ i > 1 => Place(s, h[ps[i - 1]]) <= Place(s, h[ps[i]])
      Old(s, p)      == \A o \in ToSet(From(s, p)) : IsOld(h, o)
      old1s          == {o \in ToSet(h.allgc) : h.age[o] = "OLD1"}
  IN  /\ InOrder(h.allgc, <<"survival", "old1", "reallyold">>) /\ Old(h.allgc, h.old1)
      /\ InOrder(h.finobj, <<"finobjsur", "finobjold1", "finobjrold">>) /\ Old(h.finobj, h.finobjold1)
      /\ \A o \in ToSet(From(h.allgc, h.survival)) \cup ToSet(From(h.finobj, h.finobjsur)) :
           h.age[o] # "NEW"
      /\ old1s # {} => /\ h.firstold1 # Null
                       /\ old1s \subseteq ToSet(From(h.allgc, h.firstold1)) \ ToSet(From(h.allgc, h.reallyold))

\* Gray objects are in a gray list, where correctgraylists finds those it must
\* age, but for open upvalues, which threads know; old threads always are.
GrayAreListed(h) ==
  LET lists == h.gray \cup h.grayagain
  IN  \A o \in Allocated(h) :
        /\ h.colour[o] = "gray" => o \in lists \/ h.owner[o] # Null
        /\ h.age[o] \in {"TOUCHED1", "TOUCHED2"} => o \in h.grayagain
        /\ Is(h, o, {"thread"}) /\ h.age[o] = "OLD" => o \in lists

\* In generational mode, between collections: an old object refers to a young
\* one only while the collector will visit it (lgc.c:1251).
GenerationsApart ==
  gen.gckind = "gen" => OldRefersToOld(gen) /\ SublistsTrue(gen) /\ GrayAreListed(gen)

\* No collection frees, in either mode and across changes of mode, an object
\* that another one refers to; every object is in one list.
NothingLost ==
  /\ \A o \in Allocated(gen) : Refs(gen, o) \subseteq Allocated(gen)
  /\ \A o \in Allocated(gen) : gen.owner[o] # Null => gen.owner[o] \in Allocated(gen)
  /\ LET all == gen.allgc \o gen.finobj \o gen.tobefnz
     IN  Len(all) = Cardinality(Allocated(gen)) /\ ToSet(all) = Allocated(gen)
  /\ gen.fin = ToSet(gen.finobj \o gen.tobefnz)
=============================================================================
