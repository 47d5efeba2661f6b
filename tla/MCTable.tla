------------------------------ MODULE MCTable ------------------------------
(* Three families of tables: 'keys', whose few keys of every sort collide  *)
(* in the hash part; 'weak', with fewer keys, whose entries the collector  *)
(* removes; and 'lists', whose integer keys lie around the limits.         *)
EXTENDS Table
CONSTANTS v1, s1, o1
VARIABLE family

\* both in the first slot of any hash part
MCHash == [k \in Collectable |-> 0]
NoHash == [k \in {} |-> 0]
\* what a constructor asks for
MCSizes     == {<<0, 0>>}
ListSizes   == {<<0, 0>>, <<7, 0>>, <<8, 4>>, <<16, 0>>}
ListKeys    == {1, 8, 9, 10, 16, 31}
AllKeys     == Keys \cup ListKeys

WeakTable == INSTANCE Table WITH IntKeys <- {1, 2}, Weak <- TRUE
List == INSTANCE Table WITH
  IntKeys <- ListKeys, StrKeys <- {}, PtrKeys <- {}, Hash <- NoHash,
  IntBits <- 6, MaxASize <- 16, InitSizes <- ListSizes

MCInit == \/ family = "keys" /\ Init
          \/ family = "weak" /\ WeakTable!Init
          \/ family = "lists" /\ List!Init
MCNext == \/ family = "keys" /\ Next /\ UNCHANGED family
          \/ family = "weak" /\ WeakTable!Next /\ UNCHANGED family
          \/ family = "lists" /\ List!Next /\ UNCHANGED family
MCSpec == MCInit /\ [][MCNext]_<<vars, family>>

\* The answer is for the step that gives it: no action and no property looks
\* at that of an earlier one.
NoAnswer == <<t, control, family>>

\* Of all families: the size of the array part can be told from the limit,
\* whatever hints lookups and lengths have left in it (luaH_realasize).
SizesKnown == IF family = "lists" THEN List!RealSizeKnown ELSE RealSizeKnown

\* Of all families: #t is a border at any moment (luaH_getn).
LengthsAreBorders == IF family = "lists" THEN List!LengthIsBorder ELSE LengthIsBorder

\* The tables of every family are maps (see ImplementsMap): a key holds what was
\* last assigned to it, through any rehash, a traversal visits each key once, and
\* only a collection removes entries, of a weak table (luaH_newkey, luaH_resize,
\* luaH_next).  A key that a family does not use has no value.
Value(k) == IF family = "lists" THEN IF k \in ListKeys THEN List!Get(t, k) ELSE Nil
            ELSE IF k \in Keys THEN Get(t, k) ELSE Nil
Left     == IF family = "lists" THEN List!After(t, control) ELSE After(t, control)
TheMap == INSTANCE Map WITH
  Keys <- AllKeys, content <- [k \in AllKeys |-> Value(k)], weak <- family = "weak",
  todo <- IF control = NoTraversal THEN NoTraversal ELSE {KeyAt(t, i) : i \in Left}
KeysImplementMap == TheMap!Spec
=============================================================================
