---------------------------- MODULE MCGCBarrier ----------------------------
(* Barriers, sweeping and finalizers: a registry that may turn weak and hold *)
(* a table with a finalizer, which can hold a closure, which can hold it.    *)
EXTENDS LuaGC

CONSTANTS main, reg, tab, clo

MCObj   == {main, reg, tab, clo}
MCKind  == [o \in MCObj |-> CASE o = main -> "thread" [] o \in {reg, tab} -> "table"
                              [] o = clo -> "closure"]
MCSlots == [o \in MCObj |->
             CASE o = reg -> {<<Nil, tab>>}
               [] o = tab -> {<<Nil, clo>>}
               [] o = clo -> {<<Nil, tab>>}
               [] o = main -> {<<Nil, tab>>, <<Nil, clo>>}]
MCWeakModes == [o \in MCObj |-> IF o = reg THEN {"strong", "weakkv"} ELSE {}]
=============================================================================
