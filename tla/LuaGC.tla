------------------------------- MODULE LuaGC -------------------------------
(***************************************************************************)
(* The incremental garbage collector of Lua 5.4.8 (src/src/lgc.c), with    *)
(* the program that runs between its steps.                                *)
(*                                                                         *)
(* One C call of singlestep() is one action here, but for two loops that   *)
(* are cut into one action per iteration: atomic(), during which nothing   *)
(* else is enabled (variable at is its program counter), and the sweep,    *)
(* which this model lets the program interrupt after every object while    *)
(* the code does so after GCSWEEPMAX of them.  A full collection           *)
(* (luaC_fullgc) is the same actions with the program suspended.           *)
(*                                                                         *)
(* Data is abstracted: an object is a member of Obj, its content a set of  *)
(* entries <<key, value>> (key Nil: not collectable), the gray lists are   *)
(* sets (their order decides nothing but the order of the work).  allgc,   *)
(* finobj and tobefnz stay sequences: the sweep position and the order of  *)
(* finalizers are about their order.                                       *)
(***************************************************************************)
EXTENDS Naturals, Sequences, FiniteSets

CONSTANTS
  Obj,          \* memory slots a collectable object can occupy
  Nil,          \* the null pointer, and any value that is not collectable
  Kind,         \* [Obj -> Kinds]: the type tag of the object in a slot
  MainThread,   \* g->mainthread
  RootTables,   \* the registry and the global metatables g->mt
  Slots,        \* [Obj -> entries]: what an object may hold (a bound)
  MaxStack,     \* most values on one thread's stack (a bound)
  MaxEntries,   \* most entries in one table (a bound)
  WeakModes,    \* [Obj -> set of modes]: the modes a table may be given
  Finalizable,  \* objects the program gives a __gc metamethod
  Features      \* which of these happen: "collect" and "stop" (the program calls
                \* collectgarbage), "emergency" (an allocation fails: tryagain),
                \* "setmode" (__mode changes), "close" (the host calls lua_close)

Kinds     == {"thread", "table", "closure", "string", "upval"}
Modes     == {"strong", "weakv", "weakk", "weakkv"}
Colours   == {"free", "white0", "white1", "gray", "black"}
ListName  == {"allgc", "finobj", "tobefnz"}
Entry     == (Obj \cup {Nil}) \X (Obj \cup {Nil})
ObjOfKind(K) == {o \in Obj : Kind[o] \in K}

ASSUME ConstantsAssumption ==
  /\ IsFiniteSet(Obj)
  /\ Nil \notin Obj
  /\ Obj \cap ListName = {} /\ Nil \notin ListName
  /\ Kind \in [Obj -> Kinds]
  /\ MainThread \in ObjOfKind({"thread"})
  /\ RootTables \subseteq ObjOfKind({"table"})
  /\ Slots \in [Obj -> SUBSET Entry]
  /\ WeakModes \in [Obj -> SUBSET Modes]
  /\ Finalizable \subseteq ObjOfKind({"table"})
  /\ MaxStack \in Nat /\ MaxEntries \in Nat
  /\ Features \subseteq {"collect", "stop", "emergency", "setmode", "close"}

VARIABLES
  \* the heap
  mark,         \* colour bits of 'marked'; "free": the slot holds no object
  fields,       \* entries of a table, upvalues of a closure, stack of a thread
  mode,         \* weak mode of a table, from __mode of its metatable
  owner,        \* thread in whose stack an open upvalue points, or Nil
  tofin,        \* objects with FINALIZEDBIT set
  list,         \* g->allgc, g->finobj, g->tobefnz
  \* the collector
  gcstate, currentwhite,
  sweepgc,      \* g->sweepgc: the object, or the list header, whose 'next'
                \* field it points to, or Nil
  gray, grayagain, weak, ephemeron, allweak,
  twups,        \* threads with open upvalues
  at,           \* where atomic() is, "no" outside it
  again,        \* atomic(): the saved 'grayagain' list
  todo,         \* convergeephemerons(): tables still to visit in this pass
  changed,      \* convergeephemerons(): the pass marked something
  orig,         \* atomic(): origweak and origall together
  scan,         \* separatetobefnz(): position in finobj
  \* who runs
  running,      \* the lua_State that executes
  gcstp,        \* reasons why the collector is stopped
  full,         \* stack of luaC_fullgc calls in progress, innermost first
  finalizing,   \* "call": inside a finalizer; "loop": between two of them
  savedtop,     \* stack of 'running' below the finalizer's frame
  closing       \* whether luaC_freeallobjects has started or ended

heapVars   == <<fields, mode, owner, tofin, list>>
grayVars   == <<gray, grayagain, weak, ephemeron, allweak, twups>>
atomicVars == <<at, again, todo, changed, orig, scan>>
sweepVars  == <<gcstate, currentwhite, sweepgc>>
runVars    == <<running, gcstp, full, finalizing, savedtop, closing>>
vars == <<mark, heapVars, sweepVars, grayVars, atomicVars, runVars>>

-----------------------------------------------------------------------------
(* Colours (lgc.h) *)

Whites        == {"white0", "white1"}
White(m, o)   == m[o] \in Whites
IsWhite(o)    == White(mark, o)
BlackBit      == IF currentwhite = "white0" THEN "black" ELSE "white0"  \* mutant
OtherWhite    == IF currentwhite = "white0" THEN "white1" ELSE "white0"
IsDead(o)     == mark[o] = OtherWhite
KeepInvariant == gcstate \in {"propagate", "enteratomic", "atomic"}
IsSweepPhase  == gcstate \in {"swpallgc", "swpfinobj", "swptobefnz", "swpend"}
Allocated     == {o \in Obj : mark[o] # "free"}

(* What an object refers to *)

Elems(s)      == {s[i] : i \in DOMAIN s}
NoneBeingFnz  == {}   \* mutant: markbeingfnz forgotten
BeingFnz      == Elems(list["tobefnz"])
Objs(e)       == {e[1], e[2]} \ {Nil}
Refs(o)       == UNION {Objs(e) : e \in fields[o]}
OpenUpvals(t) == {u \in Obj : owner[u] = t}
Stack(t)      == Refs(t) \cup UNION {Refs(u) : u \in OpenUpvals(t)}
Regs          == Stack(running)

-----------------------------------------------------------------------------
(* Marking *)

\* reallymarkobject on each white member of S, given marks m: the objects it
\* reaches.  Marking an upvalue marks its content at once.
Reached(m, S) ==
  LET W == {o \in S : White(m, o)}
  IN  W \cup {v \in Obj : White(m, v) /\ \E u \in W : Kind[u] = "upval" /\ v \in Refs(u)}

\* the marks after it: strings and closed upvalues turn black, open upvalues
\* gray; the others turn gray and Linked lists them for the gray list.
Marked(m, S) ==
  [o \in Obj |->
     IF o \notin Reached(m, S) THEN m[o]
     ELSE IF Kind[o] = "string" \/ (Kind[o] = "upval" /\ owner[o] = Nil)
          THEN "black" ELSE "gray"]
Linked(m, S) == Reached(m, S) \cap ObjOfKind({"thread", "table", "closure"})

\* iscleared: would x be removed from a weak table? (strings are values)
ClearableString(m, x) == x # Nil /\ White(m, x)   \* mutant: strings cleared too
Clearable(m, x) == x # Nil /\ Kind[x] # "string" /\ White(m, x)
Strings(S)      == S \cap ObjOfKind({"string"})

-----------------------------------------------------------------------------
(* traversetable, traverseLclosure, ...: each visits o, which was taken out *)
(* of its gray list and painted black (nw2black), and may link it again.    *)

\* paint o, then mark the members of S
Visit(o, colour, S) ==
  LET m == [mark EXCEPT ![o] = colour]
  IN  /\ mark' = Marked(m, S)
      /\ gray' = (gray \ {o}) \cup Linked(m, S)

\* strong tables, closures, prototypes, userdata: genlink links nothing in
\* incremental mode
TraverseStrong(o) ==
  /\ Kind[o] = "closure" \/ (Kind[o] = "table" /\ mode[o] = "strong")
  /\ Visit(o, "black", Refs(o))
  /\ UNCHANGED <<grayagain, weak, ephemeron, allweak, twups>>

\* keys are strong; a string value is marked by iscleared, which is asked
\* only until the first value that will have to be cleared
TraverseWeakValue(o) ==
  LET hasclears == \E e \in fields[o] : Clearable(mark, e[2])
      keys      == {e[1] : e \in fields[o]} \ {Nil}
      values    == {e[2] : e \in fields[o]} \ {Nil}
  IN  /\ Kind[o] = "table" /\ mode[o] = "weakv"
      /\ Visit(o, "gray", IF hasclears THEN keys ELSE keys \cup Strings(values))
      /\ IF gcstate = "atomic" /\ hasclears
         THEN weak' = weak \cup {o} /\ UNCHANGED grayagain
         ELSE grayagain' = grayagain \cup {o} /\ UNCHANGED weak
      /\ UNCHANGED <<ephemeron, allweak, twups>>

EphemeronMarks(o) ==   \* the values whose key is not (or cannot be) cleared
  {e[2] : e \in {x \in fields[o] : ~Clearable(mark, x[1])}} \ {Nil}

TraverseEphemeron(o) ==
  LET hasclears == \E e \in fields[o] : Clearable(mark, e[1])
      hasww     == \E e \in fields[o] :
                     Clearable(mark, e[1]) /\ e[2] # Nil /\ IsWhite(e[2])
      keys      == {e[1] : e \in fields[o]} \ {Nil}
      dest      == IF gcstate = "propagate" THEN "grayagain"
                   ELSE IF hasww THEN "ephemeron"
                   ELSE IF hasclears THEN "allweak" ELSE "none"
  IN  /\ Kind[o] = "table" /\ mode[o] = "weakk"
      /\ Visit(o, IF dest = "none" THEN "black" ELSE "gray",
               EphemeronMarks(o) \cup Strings(keys))
      /\ grayagain' = IF dest = "grayagain" THEN grayagain \cup {o} ELSE grayagain
      /\ ephemeron' = IF dest = "ephemeron" THEN ephemeron \cup {o} ELSE ephemeron
      /\ allweak'   = IF dest = "allweak" THEN allweak \cup {o} ELSE allweak
      /\ UNCHANGED <<weak, twups>>

TraverseAllWeak(o) ==
  /\ Kind[o] = "table" /\ mode[o] = "weakkv"
  /\ Visit(o, "gray", {})
  /\ allweak' = allweak \cup {o}
  /\ UNCHANGED <<grayagain, weak, ephemeron, twups>>

\* a thread goes back to 'grayagain' while the program may still change its
\* stack; in the atomic phase it may rejoin 'twups'
TraverseThread(o) ==
  /\ Kind[o] = "thread"
  /\ Visit(o, IF gcstate = "propagate" THEN "gray" ELSE "black",
           Stack(o) \cup OpenUpvals(o))
  /\ IF gcstate = "propagate"
     THEN grayagain' = grayagain \cup {o} /\ UNCHANGED twups
     ELSE /\ twups' = IF OpenUpvals(o) # {} THEN twups \cup {o} ELSE twups
          /\ UNCHANGED grayagain
  /\ UNCHANGED <<weak, ephemeron, allweak>>

PropagateMark(o) ==
  /\ o \in gray
  /\ \/ TraverseStrong(o)
     \/ TraverseWeakValue(o)
     \/ TraverseEphemeron(o)
     \/ TraverseAllWeak(o)
     \/ TraverseThread(o)

-----------------------------------------------------------------------------
(* Sweeping *)

\* take element i out of a list
StillLinked(s, i) == s   \* mutant
Unlinked(s, i)    == SubSeq(s, 1, i-1) \o SubSeq(s, i+1, Len(s))

\* an object that changes lists in a sweep is repainted, as the sweep may
\* already be past the list it goes to
Repainted(o) == IF IsSweepPhase THEN [mark EXCEPT ![o] = currentwhite] ELSE mark

\* where a search for o in list s ends
Index(s, o) == IF o \in Elems(s) THEN CHOOSE i \in DOMAIN s : s[i] = o ELSE Len(s) + 1

\* where the pointer p leads: the list it runs through, and how many of its
\* elements are behind it
ListOf(p) == CHOOSE l \in ListName : p = l \/ p \in Elems(list[l])
Behind(p) == IF p \in ListName THEN 0 ELSE Index(list[ListOf(p)], p)

\* freeobj on the objects of D and the repainting of those of W.  A thread's
\* open upvalues are closed (luaE_freethread), with the barrier of
\* luaF_closeupval, which in a sweep turns the upvalue white.
Swept(D, W) ==
  /\ mark' = [o \in Obj |->
       IF o \in D THEN "free"
       ELSE IF o \in W THEN currentwhite
       ELSE IF owner[o] \in D /\ ~IsWhite(o)
            THEN IF \E v \in Refs(o) : IsWhite(v) THEN currentwhite ELSE "black"
       ELSE mark[o]]
  /\ fields' = [o \in Obj |-> IF o \in D THEN {} ELSE fields[o]]
  /\ owner'  = [o \in Obj |-> IF o \in D \/ owner[o] \in D THEN Nil ELSE owner[o]]
  /\ mode'   = [o \in Obj |-> IF o \in D THEN "strong" ELSE mode[o]]

\* sweeptolive(p): free objects up to the first live one, which is repainted
\* and becomes the new position; Nil at the end of the list
SweepToLive(p) ==
  LET l    == ListOf(p)
      s    == list[l]
      n    == Behind(p)
      live == {i \in n+1 .. Len(s) : ~IsDead(s[i])}
      stop == IF live = {} THEN Len(s) + 1 ELSE CHOOSE i \in live : \A j \in live : i <= j
  IN  [dead    |-> {s[i] : i \in n+1 .. stop-1},
       live    |-> {s[i] : i \in live \cap {stop}},
       sweepgc |-> IF stop >= Len(s) THEN Nil ELSE s[stop],
       list    |-> [list EXCEPT ![l] = SubSeq(s, 1, n) \o SubSeq(s, stop, Len(s))]]

EnterSweep ==
  LET r == SweepToLive("allgc")
  IN  /\ gcstate' = "swpallgc"
      /\ Swept(r.dead, r.live)
      /\ sweepgc' = r.sweepgc
      /\ list' = r.list
      /\ tofin' = tofin \ r.dead

-----------------------------------------------------------------------------
(* Who runs *)

InEmergency == full # <<>> /\ Head(full).emergency

\* the program runs unless a collection suspends it; a finalizer called by a
\* collection is the program again
ProgramRuns ==
  /\ at = "no" /\ closing # "done" /\ finalizing # "loop" /\ ~InEmergency
  /\ full # <<>> => finalizing = "call"

\* singlestep may be called: by a full collection, or by luaC_step when the
\* collector is not stopped
CollectorRuns ==
  /\ at = "no" /\ closing # "done"
  /\ IF full # <<>> THEN InEmergency \/ finalizing = "no"
     ELSE gcstp = {} /\ finalizing = "no"

-----------------------------------------------------------------------------
(* singlestep *)

\* GCSpause: restartcollection.  fullinc goes straight to the atomic phase.
RestartCollection ==
  LET roots == {MainThread} \cup RootTables \cup BeingFnz
  IN  /\ CollectorRuns /\ gcstate = "pause"
      /\ full # <<>> => Head(full).phase = "topause"
      /\ mark' = Marked(mark, roots)
      /\ gray' = Linked(mark, roots)
      /\ grayagain' = {} /\ weak' = {} /\ ephemeron' = {} /\ allweak' = {}
      /\ IF full = <<>>
         THEN gcstate' = "propagate" /\ UNCHANGED full
         ELSE /\ gcstate' = "enteratomic"
              /\ full' = [full EXCEPT ![1].phase = "tofinish"]
      /\ UNCHANGED <<heapVars, currentwhite, sweepgc, twups, atomicVars, running,
                     gcstp, finalizing, savedtop, closing>>

\* GCSpropagate: one gray object
Propagate ==
  /\ CollectorRuns /\ gcstate = "propagate"
  /\ \E o \in Obj : PropagateMark(o)
  /\ UNCHANGED <<heapVars, sweepVars, atomicVars, runVars>>

EnterAtomic ==
  /\ CollectorRuns /\ gcstate = "propagate" /\ gray = {}
  /\ gcstate' = "enteratomic"
  /\ UNCHANGED <<mark, heapVars, currentwhite, sweepgc, grayVars, atomicVars, runVars>>

(* GCSenteratomic: atomic(), one action per loop or loop iteration *)

AtomicStart ==
  LET roots == {running} \cup RootTables
  IN  /\ CollectorRuns /\ gcstate = "enteratomic"
      /\ gcstate' = "atomic" /\ at' = "propagate"
      /\ again' = grayagain /\ grayagain' = {}
      /\ mark' = Marked(mark, roots)
      /\ gray' = gray \cup Linked(mark, roots)
      /\ UNCHANGED <<heapVars, currentwhite, sweepgc, weak, ephemeron, allweak, twups,
                     todo, changed, orig, scan, runVars>>

AtomicPropagate ==   \* propagateall
  /\ at # "no"
  /\ \E o \in Obj : PropagateMark(o)
  /\ UNCHANGED <<heapVars, sweepVars, atomicVars, runVars>>

\* the next stretch of atomic() starts when propagateall has emptied 'gray'
AtomicAt(from) == at = from /\ gray = {}

\* remarkupvals: mark what the open upvalues of unmarked threads hold
NoneRemarked(threads) == {}   \* mutant
Remarked(threads) ==
  UNION {Refs(u) : u \in {x \in UNION {OpenUpvals(t) : t \in threads} : ~IsWhite(x)}}

AtomicRemarkUpvals ==
  LET keep   == {t \in twups : ~IsWhite(t) /\ OpenUpvals(t) # {}}
      values == Remarked(twups \ keep)
  IN  /\ AtomicAt("propagate") /\ at' = "remark"
      /\ twups' = keep
      /\ mark' = Marked(mark, values)
      /\ gray' = Linked(mark, values)
      /\ UNCHANGED <<heapVars, sweepVars, grayagain, weak, ephemeron, allweak, again,
                     todo, changed, orig, scan, runVars>>

AtomicGrayAgain ==
  /\ AtomicAt("remark") /\ at' = "grayagain"
  /\ gray' = again /\ again' = {}
  /\ UNCHANGED <<mark, heapVars, sweepVars, grayagain, weak, ephemeron, allweak, twups,
                 todo, changed, orig, scan, runVars>>

\* convergeephemerons: 'do' and each 'while (changed)' start a pass
ConvergePass ==
  /\ \/ AtomicAt("grayagain") /\ at' = "converge1"
     \/ AtomicAt("resurrect") /\ at' = "converge2"
     \/ /\ AtomicAt("converge1") \/ AtomicAt("converge2")
        /\ todo = {} /\ changed
        /\ UNCHANGED at
  /\ todo' = ephemeron /\ ephemeron' = {} /\ changed' = FALSE
  /\ UNCHANGED <<mark, heapVars, sweepVars, gray, grayagain, weak, allweak, twups, again,
                 orig, scan, runVars>>

ConvergeVisit(o) ==
  /\ AtomicAt("converge1") \/ AtomicAt("converge2")
  /\ o \in todo
  /\ todo' = todo \ {o}
  /\ TraverseEphemeron(o)
  /\ changed' = (changed \/ \E v \in EphemeronMarks(o) : IsWhite(v))
  /\ UNCHANGED <<heapVars, sweepVars, at, again, orig, scan, runVars>>

Converged(pass) == AtomicAt(pass) /\ todo = {} /\ ~changed

\* clearbyvalues and clearbykeys on the tables of T: drop entries whose value
\* (key) was not marked; iscleared marks the strings it is asked about
ClearBy(values, keys) ==
  LET asked == Strings((UNION {{e[2] : e \in fields[t]} : t \in values})
                       \cup (UNION {{e[1] : e \in fields[t]} : t \in keys}))
  IN  /\ mark' = Marked(mark, asked)
      /\ fields' = [t \in Obj |->
           {e \in fields[t] : /\ t \in values => ~Clearable(mark, e[2])
                              /\ t \in keys => ~Clearable(mark, e[1])}]

AtomicClearValues ==
  /\ Converged("converge1") /\ at' = "separate"
  /\ ClearBy(weak \cup allweak, {})
  /\ orig' = weak \cup allweak /\ scan' = 1
  /\ UNCHANGED <<mode, owner, tofin, list, sweepVars, grayVars, again, todo, changed, runVars>>

\* separatetobefnz(g, 0): one object of 'finobj'
LinkFirst(s, o) == <<o>> \o s   \* mutant
LinkLast(s, o)  == Append(s, o)

AtomicSeparate ==
  LET f == list["finobj"]
  IN  /\ at = "separate" /\ scan <= Len(f)
      /\ IF IsWhite(f[scan])
         THEN /\ list' = [list EXCEPT !["finobj"]  = Unlinked(f, scan),
                                      !["tobefnz"] = LinkLast(@, f[scan])]
              /\ UNCHANGED scan
         ELSE scan' = scan + 1 /\ UNCHANGED list
      /\ UNCHANGED <<mark, fields, mode, owner, tofin, sweepVars, grayVars, at, again, todo,
                     changed, orig, runVars>>

AtomicMarkBeingFnz ==
  /\ at = "separate" /\ scan > Len(list["finobj"]) /\ at' = "resurrect"
  /\ scan' = 0
  /\ mark' = Marked(mark, BeingFnz)
  /\ gray' = Linked(mark, BeingFnz)
  /\ UNCHANGED <<heapVars, sweepVars, grayagain, weak, ephemeron, allweak, twups, again,
                 todo, changed, orig, runVars>>

\* last clearings; then the whites swap their roles
NoFlip == UNCHANGED currentwhite   \* mutant
Flip   == currentwhite' = OtherWhite

AtomicClearKeys ==
  /\ Converged("converge2") /\ at' = "flip"
  /\ ClearBy((weak \cup allweak) \ orig, ephemeron \cup allweak)
  /\ Flip
  /\ orig' = {}
  /\ UNCHANGED <<mode, owner, tofin, list, gcstate, sweepgc, grayVars, again, todo, changed,
                 scan, runVars>>

AtomicEnd ==
  /\ at = "flip" /\ at' = "no"
  /\ EnterSweep
  /\ UNCHANGED <<currentwhite, grayVars, again, todo, changed, orig, scan, runVars>>

(* The sweep states *)

\* sweepstep on one object
SweepObject ==
  LET l == ListOf(sweepgc)
      n == Behind(sweepgc) + 1
      s == list[l]
      o == s[n]
  IN  /\ CollectorRuns /\ gcstate \in {"swpallgc", "swpfinobj", "swptobefnz"}
      /\ sweepgc # Nil /\ n <= Len(s)
      /\ IF IsDead(o)
         THEN /\ Swept({o}, {})
              /\ list' = [list EXCEPT ![l] = Unlinked(s, n)]
              /\ tofin' = tofin \ {o}
              /\ sweepgc' = IF n = Len(s) THEN Nil ELSE sweepgc
         ELSE /\ Swept({}, {o})
              /\ sweepgc' = IF n = Len(s) THEN Nil ELSE o
              /\ UNCHANGED <<list, tofin>>
      /\ UNCHANGED <<gcstate, currentwhite, grayVars, atomicVars, runVars>>

\* an empty list ends in a call that sweeps nothing
SweepNothing ==
  /\ CollectorRuns /\ gcstate \in {"swpallgc", "swpfinobj", "swptobefnz"}
  /\ sweepgc # Nil /\ Behind(sweepgc) = Len(list[ListOf(sweepgc)])
  /\ sweepgc' = Nil
  /\ UNCHANGED <<mark, heapVars, gcstate, currentwhite, grayVars, atomicVars, runVars>>

SweepNext ==
  /\ CollectorRuns /\ sweepgc = Nil
  /\ \/ gcstate = "swpallgc"   /\ gcstate' = "swpfinobj"  /\ sweepgc' = "finobj"
     \/ gcstate = "swpfinobj"  /\ gcstate' = "swptobefnz" /\ sweepgc' = "tobefnz"
     \/ gcstate = "swptobefnz" /\ gcstate' = "swpend"     /\ sweepgc' = Nil
     \/ gcstate = "swpend"     /\ gcstate' = "callfin"    /\ sweepgc' = Nil
  /\ UNCHANGED <<mark, heapVars, currentwhite, grayVars, atomicVars, runVars>>

-----------------------------------------------------------------------------
(* Finalizers *)

\* udata2finalize and the call in GCTM; the object's metatable may have lost
\* its __gc since, and then nothing is called
GCTM ==
  LET o == Head(list["tobefnz"])
  IN  /\ list["tobefnz"] # <<>>
      /\ list' = [list EXCEPT !["tobefnz"] = Tail(@), !["allgc"] = <<o>> \o @]
      /\ tofin' = tofin \ {o}
      /\ mark' = Repainted(o)
      /\ \/ /\ finalizing' = "call"
            /\ savedtop' = fields[running]
            /\ fields' = [fields EXCEPT ![running] = @ \cup {<<Nil, o>>}]
            /\ gcstp' = gcstp \cup {"gc"}
         \/ finalizing' = "loop" /\ UNCHANGED <<savedtop, fields, gcstp>>
      /\ UNCHANGED <<mode, owner, sweepVars, grayVars, atomicVars, running, full, closing>>

\* GCScallfin: runafewfinalizers, unless this is an emergency
CallFinalizer ==
  /\ CollectorRuns /\ gcstate = "callfin" /\ ~InEmergency
  /\ GCTM

NextFinalizer == finalizing = "loop" /\ GCTM

\* the finalizer returns or fails: GCTM restores the stack and gcstp
FinalizerReturn ==
  /\ ProgramRuns /\ finalizing = "call"
  /\ finalizing' = "loop"
  /\ fields' = [fields EXCEPT ![running] = savedtop]
  /\ savedtop' = {}
  /\ gcstp' = gcstp \ {"gc"}
  /\ UNCHANGED <<mark, mode, owner, tofin, list, sweepVars, grayVars, atomicVars, running,
                 full, closing>>

\* runafewfinalizers ends after GCFINMAX of them or when none is left; when
\* the state closes, callallpendingfinalizers only when none is left
FinalizersEnd ==
  /\ finalizing = "loop" /\ finalizing' = "no"
  /\ closing = "no"
  /\ UNCHANGED <<mark, heapVars, sweepVars, grayVars, atomicVars, running, gcstp, full,
                 savedtop, closing>>

FinishEarly ==   \* mutant: finalizers left for later
  /\ CollectorRuns /\ gcstate = "callfin"
  /\ gcstate' = "pause"
  /\ UNCHANGED <<mark, heapVars, currentwhite, sweepgc, grayVars, atomicVars, runVars>>
FinishCycle ==
  /\ CollectorRuns /\ gcstate = "callfin"
  /\ list["tobefnz"] = <<>> \/ InEmergency
  /\ gcstate' = "pause"
  /\ UNCHANGED <<mark, heapVars, currentwhite, sweepgc, grayVars, atomicVars, runVars>>

-----------------------------------------------------------------------------
(* Full collections: luaC_fullgc and fullinc *)

\* collectgarbage("collect") is refused inside a finalizer and while closing;
\* an emergency collection is not
FullGC(emergency) ==
  /\ ProgramRuns
  /\ IF emergency THEN "emergency" \in Features
     ELSE "collect" \in Features /\ gcstp \cap {"gc", "cls"} = {}
  /\ full' = <<[emergency |-> emergency, phase |-> "topause"]>> \o full
  /\ IF KeepInvariant
     THEN EnterSweep
     ELSE UNCHANGED <<mark, heapVars, gcstate, sweepgc>>
  /\ UNCHANGED <<currentwhite, grayVars, atomicVars, running, gcstp, finalizing, savedtop,
                 closing>>

FullGCEnd ==
  /\ CollectorRuns /\ full # <<>>
  /\ Head(full).phase = "tofinish" /\ gcstate = "pause"
  /\ full' = Tail(full)
  /\ UNCHANGED <<mark, heapVars, sweepVars, grayVars, atomicVars, running, gcstp, finalizing,
                 savedtop, closing>>

CollectorStep ==
  \/ RestartCollection \/ Propagate \/ EnterAtomic
  \/ AtomicStart \/ AtomicPropagate \/ AtomicRemarkUpvals \/ AtomicGrayAgain
  \/ ConvergePass \/ (\E o \in Obj : ConvergeVisit(o))
  \/ AtomicClearValues \/ AtomicSeparate \/ AtomicMarkBeingFnz \/ AtomicClearKeys \/ AtomicEnd
  \/ SweepObject \/ SweepNothing \/ SweepNext
  \/ CallFinalizer \/ NextFinalizer \/ FinalizersEnd \/ FinishCycle \/ FullGCEnd

-----------------------------------------------------------------------------
(* The program.  It works on the values on the stack of the running thread; *)
(* C code also reaches the root tables.                                     *)

AtHand  == Regs \cup RootTables
CanPush(t, v) ==
  /\ <<Nil, v>> \in Slots[t] \ fields[t]
  /\ Cardinality(fields[t]) < MaxStack + (IF finalizing = "call" THEN 1 ELSE 0)

\* luaC_barrier: a black object got a reference to v
BarrierMissing(o, v) == UNCHANGED <<mark, gray>>   \* mutant
Barrier(o, v) ==
  IF mark[o] # "black" \/ ~IsWhite(v) THEN UNCHANGED <<mark, gray>>
  ELSE IF KeepInvariant
       THEN mark' = Marked(mark, {v}) /\ gray' = gray \cup Linked(mark, {v})
       ELSE mark' = [mark EXCEPT ![o] = currentwhite] /\ UNCHANGED gray

\* luaC_barrierback: a black table got references to the objects of S
BackMissing(o, S) == UNCHANGED <<mark, grayagain>>   \* mutant
BackUnlinked(o, S) ==   \* mutant: painted gray, not linked
  /\ mark' = IF mark[o] = "black" /\ \E v \in S : IsWhite(v)
             THEN [mark EXCEPT ![o] = "gray"] ELSE mark
  /\ UNCHANGED grayagain
BarrierBack(o, S) ==
  IF mark[o] = "black" /\ \E v \in S : IsWhite(v)
  THEN mark' = [mark EXCEPT ![o] = "gray"] /\ grayagain' = grayagain \cup {o}
  ELSE UNCHANGED <<mark, grayagain>>

OnStack(t, v) == [fields EXCEPT ![t] = @ \cup {<<Nil, v>>}]

\* luaC_newobj, for an object that stays on the stack
NewObject(o) ==
  /\ ProgramRuns /\ mark[o] = "free" /\ Kind[o] \in {"table", "closure", "thread"}
  /\ CanPush(running, o)
  /\ mark' = [mark EXCEPT ![o] = currentwhite]
  /\ list' = [list EXCEPT !["allgc"] = <<o>> \o @]
  /\ fields' = OnStack(running, o)
  /\ UNCHANGED <<mode, owner, tofin, sweepVars, grayVars, atomicVars, runVars>>

\* internshrstr: a string found dead in the table is resurrected
InternString(s) ==
  /\ ProgramRuns /\ Kind[s] = "string" /\ CanPush(running, s)
  /\ IF mark[s] = "free"
     THEN /\ mark' = [mark EXCEPT ![s] = currentwhite]
          /\ list' = [list EXCEPT !["allgc"] = <<s>> \o @]
     ELSE /\ mark' = IF IsDead(s) THEN [mark EXCEPT ![s] = currentwhite] ELSE mark
          /\ UNCHANGED list
  /\ fields' = OnStack(running, s)
  /\ UNCHANGED <<mode, owner, tofin, sweepVars, grayVars, atomicVars, runVars>>

\* a value read from a table, an upvalue of a closure, or another thread's
\* stack is pushed; no barrier
Readable(o) ==
  Stack(o) \cup UNION {Refs(u) : u \in {x \in Refs(o) : Kind[x] = "upval"}}
Load(o, v) ==
  /\ ProgramRuns /\ CanPush(running, v)
  /\ o \in AtHand /\ v \in Readable(o) /\ Kind[v] # "upval"
  /\ fields' = OnStack(running, v)
  /\ UNCHANGED <<mark, mode, owner, tofin, list, sweepVars, grayVars, atomicVars, runVars>>

\* a finalizer cannot pop what is below its frame
Pop(v) ==
  /\ ProgramRuns /\ <<Nil, v>> \in fields[running] \ savedtop
  /\ fields' = [fields EXCEPT ![running] = @ \ {<<Nil, v>>}]
  /\ UNCHANGED <<mark, mode, owner, tofin, list, sweepVars, grayVars, atomicVars, runVars>>

\* lua_xmove, or the arguments of a resume: threads have no barrier
Transfer(t, v) ==
  /\ ProgramRuns /\ t \in Regs \ {running} /\ Kind[t] = "thread"
  /\ v \in Regs /\ CanPush(t, v)
  /\ fields' = OnStack(t, v)
  /\ UNCHANGED <<mark, mode, owner, tofin, list, sweepVars, grayVars, atomicVars, runVars>>

\* t[k] = v: an entry with the same collectable key is replaced; only a new
\* key gets a barrier of its own (luaH_newkey, luaH_finishset)
SetField(t, e) ==
  LET old  == {x \in fields[t] : e[1] # Nil /\ x[1] = e[1]}
      news == IF old = {} THEN Objs(e) ELSE {e[2]} \ {Nil}
  IN  /\ ProgramRuns /\ t \in AtHand /\ Kind[t] = "table"
      /\ e \in Slots[t] \ fields[t] /\ Objs(e) \subseteq AtHand
      /\ old = {} => Cardinality(fields[t]) < MaxEntries
      /\ fields' = [fields EXCEPT ![t] = (@ \ old) \cup {e}]
      /\ BarrierBack(t, news)
      /\ UNCHANGED <<mode, owner, tofin, list, sweepVars, gray, weak, ephemeron, allweak,
                     twups, atomicVars, runVars>>

\* t[k] = nil
ClearField(t, e) ==
  /\ ProgramRuns /\ t \in AtHand /\ Kind[t] = "table" /\ e \in fields[t]
  /\ fields' = [fields EXCEPT ![t] = @ \ {e}]
  /\ UNCHANGED <<mark, mode, owner, tofin, list, sweepVars, grayVars, atomicVars, runVars>>

\* lua_setupvalue on a C closure, or a closure that captures an upvalue
SetClosure(c, v) ==
  /\ ProgramRuns /\ c \in Regs /\ Kind[c] = "closure"
  /\ v \in Regs \cup OpenUpvals(running) /\ <<Nil, v>> \in Slots[c] \ fields[c]
  /\ fields' = [fields EXCEPT ![c] = {<<Nil, v>>}]
  /\ Barrier(c, v)
  /\ UNCHANGED <<mode, owner, tofin, list, sweepVars, grayagain, weak, ephemeron, allweak,
                 twups, atomicVars, runVars>>

\* pushclosure, newupval: closure c captures the stack slot that holds v
NewUpval(c, u, v) ==
  /\ ProgramRuns /\ c \in Regs /\ Kind[c] = "closure"
  /\ Kind[u] = "upval" /\ mark[u] = "free" /\ <<Nil, u>> \in Slots[c]
  /\ <<Nil, v>> \in fields[running] /\ finalizing = "no"
  /\ owner' = [owner EXCEPT ![u] = running]
  /\ fields' = [fields EXCEPT ![u] = {<<Nil, v>>}, ![c] = {<<Nil, u>>},
                              ![running] = @ \ {<<Nil, v>>}]
  /\ list' = [list EXCEPT !["allgc"] = <<u>> \o @]
  /\ twups' = twups \cup {running}
  /\ LET m == [mark EXCEPT ![u] = currentwhite]
         g == [mark EXCEPT ![u] = "gray"]   \* open upvalues are kept gray
     IN  IF mark[c] # "black" THEN mark' = m /\ UNCHANGED gray
         ELSE IF KeepInvariant
              THEN mark' = Marked(g, {v}) /\ gray' = gray \cup Linked(g, {v})
              ELSE mark' = [m EXCEPT ![c] = currentwhite] /\ UNCHANGED gray
  /\ UNCHANGED <<mode, tofin, sweepVars, grayagain, weak, ephemeron, allweak, atomicVars,
                 runVars>>

\* OP_SETUPVAL; an open upvalue is never black, so it gets no barrier
SetUpval(c, u, v) ==
  /\ ProgramRuns /\ c \in Regs /\ u \in Refs(c) /\ Kind[u] = "upval"
  /\ v \in Regs /\ <<Nil, v>> \in Slots[u] \ fields[u]
  /\ fields' = [fields EXCEPT ![u] = {<<Nil, v>>}]
  /\ Barrier(u, v)
  /\ UNCHANGED <<mode, owner, tofin, list, sweepVars, grayagain, weak, ephemeron, allweak,
                 twups, atomicVars, runVars>>

\* luaF_closeupval: a marked upvalue turns from gray to black, as closed
\* upvalues are never gray, and gets the barrier
CloseLeftGray(u) == UNCHANGED <<mark, gray>>   \* mutant
CloseUnbarred(u) ==   \* mutant
  mark' = [mark EXCEPT ![u] = IF IsWhite(u) THEN @ ELSE "black"] /\ UNCHANGED gray
CloseBarrier(u) ==
  LET m      == [mark EXCEPT ![u] = "black"]
      whites == {v \in Refs(u) : IsWhite(v)}
  IN  IF IsWhite(u) THEN UNCHANGED <<mark, gray>>
      ELSE IF whites = {} \/ KeepInvariant
           THEN mark' = Marked(m, whites) /\ gray' = gray \cup Linked(m, whites)
           ELSE mark' = [mark EXCEPT ![u] = currentwhite] /\ UNCHANGED gray

CloseUpval(u) ==
  /\ ProgramRuns /\ finalizing = "no" /\ u \in OpenUpvals(running)
  /\ owner' = [owner EXCEPT ![u] = Nil]
  /\ CloseBarrier(u)
  /\ UNCHANGED <<fields, mode, tofin, list, sweepVars, grayagain, weak, ephemeron, allweak,
                 twups, atomicVars, runVars>>

\* The object swept last must not leave the list that sweepgc runs through.
NeverSweptLast(o) == FALSE   \* mutant
SweptLast(o)      == sweepgc = o /\ IsSweepPhase

\* setmetatable(o, mt) with __gc in mt: luaC_checkfinalizer
CheckFinalizer(o) ==
  LET moved == SweptLast(o)
      r     == SweepToLive(sweepgc)
      lists == IF moved THEN r.list ELSE list
      s     == lists["allgc"]
  IN  /\ ProgramRuns /\ o \in Regs \cap Finalizable
      /\ o \notin tofin /\ "cls" \notin gcstp
      /\ o \in Elems(s)   \* else the search for it in 'allgc' does not end
      /\ IF moved
         THEN /\ Swept(r.dead, r.live \cup {o})
              /\ sweepgc' = r.sweepgc
              /\ tofin' = (tofin \ r.dead) \cup {o}
         ELSE /\ mark' = Repainted(o)
              /\ tofin' = tofin \cup {o}
              /\ UNCHANGED <<fields, owner, mode, sweepgc>>
      /\ list' = [lists EXCEPT !["allgc"] = Unlinked(s, Index(s, o)), !["finobj"] = <<o>> \o @]
      /\ UNCHANGED <<gcstate, currentwhite, grayVars, atomicVars, runVars>>

\* setmetatable(t, mt) with another __mode in mt
SetMode(t, m) ==
  /\ "setmode" \in Features /\ ProgramRuns
  /\ t \in AtHand /\ Kind[t] = "table" /\ m \in WeakModes[t] \ {mode[t]}
  /\ mode' = [mode EXCEPT ![t] = m]
  /\ UNCHANGED <<mark, fields, owner, tofin, list, sweepVars, grayVars, atomicVars, runVars>>

\* coroutines: another thread runs, then the main one again
Resume(t) ==
  /\ ProgramRuns /\ finalizing = "no" /\ running = MainThread
  /\ t \in Regs \ {MainThread} /\ Kind[t] = "thread"
  /\ running' = t
  /\ UNCHANGED <<mark, heapVars, sweepVars, grayVars, atomicVars, gcstp, full, finalizing,
                 savedtop, closing>>
Yield ==
  /\ ProgramRuns /\ finalizing = "no" /\ running # MainThread
  /\ running' = MainThread
  /\ UNCHANGED <<mark, heapVars, sweepVars, grayVars, atomicVars, gcstp, full, finalizing,
                 savedtop, closing>>

\* lua_gc with LUA_GCSTOP and LUA_GCRESTART
StopGC ==
  /\ "stop" \in Features /\ ProgramRuns /\ gcstp = {} /\ gcstp' = {"usr"}
  /\ UNCHANGED <<mark, heapVars, sweepVars, grayVars, atomicVars, running, full, finalizing,
                 savedtop, closing>>
RestartGC ==
  /\ ProgramRuns /\ gcstp = {"usr"} /\ gcstp' = {}
  /\ UNCHANGED <<mark, heapVars, sweepVars, grayVars, atomicVars, running, full, finalizing,
                 savedtop, closing>>

-----------------------------------------------------------------------------
(* lua_close: luaC_freeallobjects *)

CloseState ==
  /\ "close" \in Features /\ ProgramRuns /\ finalizing = "no" /\ closing = "no"
  /\ running = MainThread /\ OpenUpvals(MainThread) = {}
  /\ closing' = "finalizers" /\ finalizing' = "loop"
  /\ gcstp' = {"cls"}
  /\ fields' = [fields EXCEPT ![MainThread] = {}]
  /\ list' = [list EXCEPT !["finobj"] = <<>>, !["tobefnz"] = @ \o list["finobj"]]
  /\ UNCHANGED <<mark, mode, owner, tofin, sweepVars, grayVars, atomicVars, running, full,
                 savedtop>>

\* deletelist(allgc) up to the main thread
DeleteAll ==
  LET s == list["allgc"]
      n == Index(s, MainThread)
      D == {s[i] : i \in 1 .. n-1}
  IN  /\ closing = "finalizers" /\ finalizing = "loop" /\ list["tobefnz"] = <<>>
      /\ closing' = "done" /\ finalizing' = "no"
      /\ mark'   = [o \in Obj |-> IF o \in D THEN "free" ELSE mark[o]]
      /\ fields' = [o \in Obj |-> IF o \in D THEN {} ELSE fields[o]]
      /\ owner'  = [o \in Obj |-> IF o \in D THEN Nil ELSE owner[o]]
      /\ mode'   = [o \in Obj |-> IF o \in D THEN "strong" ELSE mode[o]]
      /\ list'   = [list EXCEPT !["allgc"] = SubSeq(s, n, Len(s))]
      /\ tofin'  = tofin \ D
      /\ UNCHANGED <<sweepVars, grayVars, atomicVars, running, gcstp, full, savedtop>>

ProgramStep ==
  \/ \E o \in Obj : NewObject(o) \/ InternString(o)
  \/ \E v \in Refs(running) : Pop(v)
  \/ \E o \in AtHand : \/ \E v \in Readable(o) : Load(o, v)
                       \/ \E e \in Slots[o] : SetField(o, e)
                       \/ \E e \in fields[o] : ClearField(o, e)
                       \/ \E m \in WeakModes[o] : SetMode(o, m)
  \/ \E o \in Regs : \/ CheckFinalizer(o)
                     \/ Resume(o)
                     \/ \E v \in Regs : Transfer(o, v)
                     \/ \E v \in Regs \cup OpenUpvals(running) : SetClosure(o, v)
                     \/ \E u \in ObjOfKind({"upval"}), v \in Regs :
                          NewUpval(o, u, v) \/ SetUpval(o, u, v)
  \/ \E u \in OpenUpvals(running) : CloseUpval(u)
  \/ Yield \/ StopGC \/ RestartGC \/ FinalizerReturn
  \/ \E emergency \in BOOLEAN : FullGC(emergency)
  \/ CloseState

-----------------------------------------------------------------------------
\* a root table may be weak from the start
InitModes(o) == IF WeakModes[o] = {} THEN {"strong"} ELSE WeakModes[o]

Init ==
  LET start == {MainThread} \cup RootTables
  IN  /\ mark = [o \in Obj |-> IF o \in start THEN "white0" ELSE "free"]
      /\ fields = [o \in Obj |-> {}]
      /\ mode \in {f \in [Obj -> Modes] :
                     \A o \in Obj : f[o] \in IF o \in RootTables THEN InitModes(o) ELSE {"strong"}}
      /\ owner = [o \in Obj |-> Nil]
      /\ tofin = {}
      /\ \E s \in [1 .. Cardinality(RootTables) -> RootTables] :
           /\ Elems(s) = RootTables
           /\ list = [l \in ListName |-> IF l = "allgc" THEN Append(s, MainThread) ELSE <<>>]
      /\ gcstate = "pause" /\ currentwhite = "white0" /\ sweepgc = Nil
      /\ gray = {} /\ grayagain = {} /\ weak = {} /\ ephemeron = {} /\ allweak = {}
      /\ twups = {}
      /\ at = "no" /\ again = {} /\ todo = {} /\ changed = FALSE /\ orig = {} /\ scan = 0
      /\ running = MainThread /\ gcstp = {} /\ full = <<>>
      /\ finalizing = "no" /\ savedtop = {} /\ closing = "no"

Next == CollectorStep \/ ProgramStep \/ DeleteAll

Spec == Init /\ [][Next]_vars

\* The collector is driven by allocation: as long as the program allocates,
\* luaC_step is called again and again.  Finalizers return, and lua_close
\* runs to its end.
FairSpec ==
  Spec /\ WF_vars(CollectorStep) /\ WF_vars(FinalizerReturn) /\ WF_vars(DeleteAll)

-----------------------------------------------------------------------------
(* Properties *)

\* The type invariant of the collector's global_State and of the heap.
TypeOK ==
  /\ mark \in [Obj -> Colours]
  /\ fields \in [Obj -> SUBSET Entry]
  /\ mode \in [Obj -> Modes]
  /\ owner \in [Obj -> Obj \cup {Nil}]
  /\ tofin \subseteq Obj
  /\ list \in [ListName -> Seq(Obj)]
  /\ gcstate \in {"pause", "propagate", "enteratomic", "atomic", "swpallgc", "swpfinobj",
                  "swptobefnz", "swpend", "callfin"}
  /\ currentwhite \in Whites
  /\ sweepgc \in Obj \cup ListName \cup {Nil}
  /\ gray \subseteq Obj /\ grayagain \subseteq Obj /\ weak \subseteq Obj
  /\ ephemeron \subseteq Obj /\ allweak \subseteq Obj /\ twups \subseteq Obj
  /\ again \subseteq Obj /\ todo \subseteq Obj /\ orig \subseteq Obj
  /\ at \in {"no", "propagate", "remark", "grayagain", "converge1", "separate",
             "resurrect", "converge2", "flip"}
  /\ changed \in BOOLEAN
  /\ scan \in Nat /\ (at = "separate" => scan # 0)
  /\ running \in Obj
  /\ gcstp \subseteq {"usr", "gc", "cls"}
  /\ full \in Seq([emergency : BOOLEAN, phase : {"topause", "tofinish"}])
  /\ finalizing \in {"no", "call", "loop"}
  /\ savedtop \subseteq Entry
  /\ closing \in {"no", "finalizers", "done"}

\* No dangling reference: there is a set of objects, none of them freed nor
\* about to be freed by the sweep in progress, that holds all the program can
\* reach: it contains the stack of the running thread, the root tables and the
\* objects a finalizer is still due for, and is closed under every reference,
\* weak ones included.
Live    == {o \in Obj : mark[o] # "free" /\ ~(IsSweepPhase /\ IsDead(o))}
Succ(o) == Refs(o) \cup OpenUpvals(o)
Anchors == {MainThread, running} \cup RootTables
           \cup Elems(list["finobj"]) \cup Elems(list["tobefnz"])
Closed(S)  == Anchors \subseteq S /\ \A o \in S : Succ(o) \subseteq S
NoDangling == closing # "done" => \E S \in SUBSET Live : Closed(S)

\* The main invariant (lgc.h): while it must be kept, no black object points
\* to a white one.
TriColor ==
  KeepInvariant => \A o \in Obj : mark[o] = "black" => \A x \in Succ(o) : ~IsWhite(x)

\* Each gray object waits in exactly one gray list (its one 'gclist' field
\* links it), open upvalues excepted, which are gray in no list.
GrayLists ==
  LET lists == <<gray, grayagain, weak, ephemeron, allweak, again, todo>>
  IN  KeepInvariant /\ closing # "done" =>
        /\ UNION Elems(lists) = {o \in Obj : mark[o] = "gray" /\ Kind[o] # "upval"}
        /\ \A i, j \in DOMAIN lists : i # j => lists[i] \cap lists[j] = {}
        /\ \A u \in Obj : Kind[u] = "upval" /\ mark[u] = "gray" => owner[u] # Nil

\* A sweep misses nothing: outside one no object has the old white, and
\* between cycles every object has the current one, so that the next cycle
\* starts from whites only.
SweepComplete ==
  /\ ~IsSweepPhase /\ at # "flip" => \A o \in Obj : ~IsDead(o)
  /\ gcstate \in {"callfin", "pause"} => \A o \in Allocated : mark[o] = currentwhite

\* Every object is in exactly one list, once; the finalizer bit says which;
\* the main thread ends allgc, where luaC_freeallobjects stops.
Partition ==
  /\ \A l, k \in ListName : \A i \in DOMAIN list[l], j \in DOMAIN list[k] :
       list[l][i] = list[k][j] => l = k /\ i = j
  /\ UNION {Elems(list[l]) : l \in ListName} = Allocated
  /\ tofin = Elems(list["finobj"]) \cup Elems(list["tobefnz"])
  /\ list["allgc"][Len(list["allgc"])] = MainThread

\* No object is freed with its finalizer still due, not even at lua_close.
FinalizedBeforeFreed ==
  [][\A o \in tofin : mark'[o] # "free"]_vars

\* Finalizers run in the order their objects were separated: nothing enters
\* 'tobefnz' before what is there, and of two objects separated from 'finobj'
\* the one marked last goes first.
Before(s, x, y) == \E i, j \in DOMAIN s : i < j /\ s[i] = x /\ s[j] = y
FinalizationOrder ==
  [][\A x, y \in Elems(list'["tobefnz"]) :
        Before(list["tobefnz"], x, y)
        \/ (x \in Elems(list["tobefnz"]) /\ y \notin Elems(list["tobefnz"]))
        \/ Before(list["finobj"], x, y)
        => Before(list'["tobefnz"], x, y)]_vars

\* The collector does to the program only what module Heap allows: it frees
\* what cannot be reached, clears weak entries whose object is not strongly
\* reachable, and condemns only unreachable objects to finalization.
H == INSTANCE Heap WITH alloc <- Allocated, suspended <- at # "no",
                        due <- Elems(list["finobj"]), pending <- Elems(list["tobefnz"])
ImplementsHeap == H!Spec

\* Garbage does not float for ever: an object the program has lost is freed
\* some time later (a string may be found again by luaS_newlstr), however the
\* program's barriers interleave with the collector and whatever finalizers do.
Within[n \in Nat] ==   \* at most n references away
  IF n = 0 THEN Anchors ELSE LET W == Within[n-1] IN W \cup UNION {Succ(o) : o \in W}
Lost(o) == o \in Allocated /\ o \notin Within[Cardinality(Obj)]
EventuallyFreed == \A o \in Obj \ {MainThread} : Lost(o) ~> ~Lost(o)

\* An object in tobefnz gets its finalizer called: by GCScallfin, or by
\* luaC_freeallobjects when the state closes first.
EventuallyFinalized ==
  \A o \in Finalizable : o \in Elems(list["tobefnz"]) ~> o \notin Elems(list["tobefnz"])
=============================================================================
