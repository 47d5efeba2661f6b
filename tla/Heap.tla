-------------------------------- MODULE Heap --------------------------------
(***************************************************************************)
(* What garbage collection promises to a Lua program, with nothing said of *)
(* how (manual 2.5: only objects that are certain not to be accessed       *)
(* again are collected; 2.5.3 finalizers; 2.5.4 weak tables).  LuaGC       *)
(* implements it.                                                          *)
(***************************************************************************)
EXTENDS Naturals

CONSTANTS Obj, Nil, Kind, MainThread, RootTables

VARIABLES
  alloc,     \* objects that exist
  fields,    \* entries <<key, value>> of each
  mode,      \* weak mode of a table
  owner,     \* thread of an open upvalue, or Nil
  running,   \* the thread that runs
  due,       \* objects marked for finalization
  pending,   \* objects found unreachable, whose finalizers are to be called
  suspended, \* the collector has suspended the program
  closing    \* lua_close: "no", "finalizers", "done"

vars == <<alloc, fields, mode, owner, running, due, pending, suspended, closing>>

Objs(e) == {e[1], e[2]} \ {Nil}
Refs(o) == UNION {Objs(e) : e \in fields[o]}
Succ(o) == Refs(o) \cup {u \in Obj : owner[u] = o}
Roots   == {MainThread, running} \cup RootTables

\* everything the program can get at, through weak entries too
Closed(S)  == /\ Roots \cup due \cup pending \subseteq S
              /\ \A o \in S : Succ(o) \subseteq S
Accessible == LET C == {S \in SUBSET Obj : Closed(S)} IN {o \in Obj : \A S \in C : o \in S}

\* what a weak table does not hold on to; strings are values, never weak
WeakKey(t, e)   == mode[t] \in {"weakk", "weakkv"} /\ e[1] # Nil /\ Kind[e[1]] # "string"
WeakValue(t, e) == mode[t] \in {"weakv", "weakkv"} /\ e[2] # Nil /\ Kind[e[2]] # "string"

\* what o keeps alive when the objects of S are alive: an ephemeron its value
\* if its key is
Keeps(o, S) ==
  (UNION {   (IF WeakKey(o, e) THEN {} ELSE {e[1]})
        \cup (IF WeakValue(o, e) \/ (WeakKey(o, e) /\ e[1] \notin S) THEN {} ELSE {e[2]})
          : e \in fields[o]}) \cup {u \in Obj : owner[u] = o}
StronglyReachable(roots) ==
  LET C == {S \in SUBSET Obj : roots \subseteq S /\ \A o \in S : Keeps(o, S) \ {Nil} \subseteq S}
  IN  {o \in Obj : \A S \in C : o \in S}

-----------------------------------------------------------------------------
\* The program changes objects it can get at; what it stores it can get at
\* too, or has just made, or is a string.  Objects that nothing can reach may
\* disappear in the same step (setting a finalizer moves the sweep forward).
Run ==
  LET A == Accessible
  IN  /\ ~suspended
      /\ \A o \in alloc \ alloc' : o \notin A
      /\ \A o \in alloc' :
           /\ fields'[o] # fields[o] \/ mode'[o] # mode[o] => o \in A \/ o \notin alloc
           /\ \A x \in Refs(o)' \ Refs(o) : x \in A \/ x \notin alloc \/ Kind[x] = "string"
           /\ \/ owner'[o] \in {owner[o], running}
              \/ owner'[o] = Nil /\ (owner[o] = running \/ owner[o] \notin alloc')
      /\ running' = running \/ running' \in A
      /\ due \subseteq due' /\ \A o \in due' \ due : o \in A
      /\ due' # due => closing = "no"   \* lua_close takes no new ones
      /\ UNCHANGED <<pending, suspended, closing>>

\* the collector suspends the program, or lets it go on
Suspend ==
  /\ suspended' # suspended
  /\ UNCHANGED <<alloc, fields, mode, owner, running, due, pending, closing>>

\* Objects disappear only when nothing can reach them.  The upvalues of a
\* thread that does are closed.
Free ==
  /\ alloc' \subseteq alloc /\ alloc' # alloc
  /\ LET A == Accessible IN \A o \in alloc \ alloc' : o \notin A
  /\ \A o \in alloc' :
       /\ fields'[o] = fields[o] /\ mode'[o] = mode[o]
       /\ owner'[o] = IF owner[o] \in alloc \ alloc' THEN Nil ELSE owner[o]
  /\ suspended' \in BOOLEAN
  /\ UNCHANGED <<running, due, pending, closing>>

\* A weak entry goes when its weak value is not strongly reachable, or its
\* weak key is not, not even from an object being finalized
ClearWeak ==
  /\ suspended /\ UNCHANGED alloc
  /\ \A o \in Obj :
       /\ fields'[o] \subseteq fields[o]
       /\ \A e \in fields[o] \ fields'[o] :
            \/ WeakValue(o, e) /\ e[2] \notin StronglyReachable(Roots)
            \/ WeakKey(o, e) /\ e[1] \notin StronglyReachable(Roots \cup due \cup pending)
  /\ UNCHANGED <<mode, owner, running, due, pending, suspended, closing>>

\* an object is condemned when the program holds it no more
Condemn(o) ==
  /\ suspended /\ o \in due /\ due' = due \ {o} /\ pending' = pending \cup {o}
  /\ o \notin StronglyReachable(Roots)
  /\ UNCHANGED <<alloc, fields, mode, owner, running, suspended, closing>>

\* the finalizer is called with the object, or the object has lost it
Finalize(o) ==
  /\ o \in pending /\ pending' = pending \ {o}
  /\ fields' \in {fields, [fields EXCEPT ![running] = @ \cup {<<Nil, o>>}]}
  /\ UNCHANGED <<alloc, mode, owner, running, due, suspended, closing>>

\* lua_close: what has a finalizer is condemned, reachable or not; at the end
\* nothing is left but the main thread
Close ==
  /\ closing = "no" /\ closing' = "finalizers"
  /\ pending' = pending \cup due /\ due' = {}
  /\ fields' = [fields EXCEPT ![MainThread] = {}]
  /\ UNCHANGED <<alloc, mode, owner, running, suspended>>
Destroy ==
  /\ closing = "finalizers" /\ closing' = "done"
  /\ pending = {} /\ due = {}
  /\ alloc' = {MainThread}
  /\ UNCHANGED <<running, due, pending, suspended>>

Init ==
  /\ alloc = {MainThread} \cup RootTables
  /\ fields = [o \in Obj |-> {}] /\ owner = [o \in Obj |-> Nil]
  /\ running = MainThread /\ due = {} /\ pending = {}
  /\ suspended = FALSE /\ closing = "no"

Next ==
  \/ Run \/ Suspend \/ Free \/ ClearWeak \/ Close \/ Destroy
  \/ \E o \in Obj : Condemn(o) \/ Finalize(o)

Spec == Init /\ [][Next]_vars
=============================================================================
