------------------------------ MODULE MCMemory ------------------------------
(* Three parts that keep memory in order, each on its own: an initial      *)
(* state says which one runs.                                              *)
EXTENDS GenGC, Stack, Strings, TLC
CONSTANTS o1, o2, o3
VARIABLE part

Symmetry == Permutations(Slots)

\* with collisions in a table of any size, and strings that part when it grows
StringHash(t) == 3 * t + 13 + 2 * (t \div 4)

\* what programs do, and the number of objects they can have
Families ==
  {<<{"strong", "finalizer"}, 2>>, <<{"thread", "strong", "major"}, 2>>, <<{"weakk", "major"}, 2>>,
   <<{"weakv", "weakkv"}, 2>>, <<{"closure", "strong"}, 2>>, <<{"thread", "closure", "upval", "join"}, 3>>}

memory == <<part, gen, thr, str>>
MemInit ==
  /\ GenInit /\ StackInit /\ StringsInit /\ part \in {"objects", "stack", "strings"}
  /\ <<gen.uses, gen.room>> \in IF part = "objects" THEN Families ELSE {<<{}, 1>>}
  /\ part # "stack" => ~thr.pcalls[1].errfunc
MemNext ==
  \/ part = "objects" /\ GenNext /\ UNCHANGED <<part, thr, str>>
  \/ part = "stack" /\ StackNext /\ UNCHANGED <<part, gen, str>>
  \/ part = "strings" /\ StringsNext /\ UNCHANGED <<part, gen, thr>>
MemSpec == MemInit /\ [][MemNext]_memory

\* the stack and the string table are sound, see modules Stack and Strings
StackAndStrings == StackSound /\ Interned
=============================================================================
