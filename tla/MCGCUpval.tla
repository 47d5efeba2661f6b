----------------------------- MODULE MCGCUpval -----------------------------
(* Coroutines and open upvalues: a closure that captures a variable of a    *)
(* coroutine which may die before it.                                       *)
EXTENDS LuaGC

CONSTANTS main, co, clo, upv, tab

MCObj   == {main, co, clo, upv, tab}
MCKind  == [o \in MCObj |-> CASE o \in {main, co} -> "thread" [] o = clo -> "closure"
                              [] o = upv -> "upval" [] o = tab -> "table"]
MCSlots == [o \in MCObj |-> CASE o = main -> {<<Nil, co>>, <<Nil, clo>>, <<Nil, tab>>}
                              [] o = co   -> {<<Nil, clo>>}
                              [] o = clo  -> {<<Nil, upv>>}
                              [] o = upv  -> {<<Nil, clo>>, <<Nil, tab>>}
                              [] o = tab  -> {}]
MCWeakModes == [o \in MCObj |-> {}]
=============================================================================
