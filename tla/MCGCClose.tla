----------------------------- MODULE MCGCClose -----------------------------
(* Two tables with finalizers, one of which alone holds a third object, in  *)
(* a state that the host closes at any moment.                              *)
EXTENDS LuaGC

CONSTANTS main, fin1, fin2, held

MCObj   == {main, fin1, fin2, held}
MCKind  == [o \in MCObj |-> IF o = main THEN "thread" ELSE IF o = held THEN "closure" ELSE "table"]
MCSlots == [o \in MCObj |-> IF o = fin1 THEN {<<Nil, held>>} ELSE IF o = main THEN {<<Nil, fin1>>, <<Nil, fin2>>, <<Nil, held>>} ELSE {}]
MCWeakModes == [o \in MCObj |-> {}]
=============================================================================
