------------------------------ MODULE MCCalls ------------------------------
(* Two families of programs: 'nested', where one coroutine calls everything *)
(* inside everything, and 'threads', where two coroutines resume, wrap and  *)
(* close each other.                                                        *)
EXTENDS Calls
CONSTANTS main, co1, co2, x, y
VARIABLE family

\* in co1 a protected call can run inside another one
Nested == [t \in Threads |-> IF t = co1 THEN 5 ELSE 3]
\* a function, and one that it calls
Flat == [t \in {main, co1, co2} |-> 2]
\* nothing distinguishes the coroutines, or the variables, of 'threads';
\* 'nested' has only one of each
Symmetry == Permutations({co1, co2}) \cup Permutations({x, y})

Many == INSTANCE Calls WITH
  Threads <- {main, co1, co2}, Variables <- {x, y}, LUAI_MAXCCALLS <- 5, ErrCcalls <- 7,
  MaxFrames <- Flat, Functions <- {"resume", "close", "wrap"}

MCInit == \/ family = "nested" /\ Init
          \/ family = "threads" /\ Many!Init
MCNext == \/ family = "nested" /\ Next /\ UNCHANGED family
          \/ family = "threads" /\ Many!Next /\ UNCHANGED family
MCSpec == MCInit /\ [][MCNext]_<<vars, family>>
=============================================================================
