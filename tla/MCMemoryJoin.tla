---------------------------- MODULE MCMemoryJoin ----------------------------
(* Closures that take each other's upvalues, in generational mode.  At     *)
(* first f1 and f2, which share the variable u, are old and the program      *)
(* holds them.                                                             *)
EXTENDS GenGC
CONSTANTS f1, f2, u, o1, o2

JoinInit ==
  LET made == [NewHeap({"closure", "upval", "join"}, 5) EXCEPT
                 !.kind   = [o \in Obj |-> IF o \in {f1, f2} THEN "closure" ELSE IF o = u THEN "upval" ELSE @[o]],
                 !.colour = [o \in Obj |-> IF o \in {f1, f2, u, Main} THEN "white" ELSE "free"],
                 !.refs   = [o \in Obj |-> CASE o \in {f1, f2} -> {Value(u)} [] o = Main -> {Value(f1), Value(f2)}
                                             [] OTHER -> {}],
                 !.allgc  = <<f2, u, f1, Main>>]
  IN  gen = Collection(made, "gen")
JoinSpec == JoinInit /\ [][GenNext]_gen

\* "For generational mode, really old objects cannot point to young objects"
\* (ltests.c:290-291, asserted at line 304): only threads and open upvalues may,
\* and they are gray.  luaC_barrier_ keeps it through old ages and gray lists.
OldRefersToNoYoung ==
  gen.gckind = "gen" =>
    \A o \in Allocated(gen) : gen.age[o] = "OLD" /\ gen.colour[o] = "black" =>
      \A v \in Refs(gen, o) : IsOld(gen, v)
=============================================================================
