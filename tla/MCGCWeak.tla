----------------------------- MODULE MCGCWeak ------------------------------
(* Weak tables: a root table of any weakness over two tables, one of which  *)
(* can have a finalizer, and an interned string.                            *)
EXTENDS LuaGC

CONSTANTS main, weaktab, key1, key2, str

MCObj   == {main, weaktab, key1, key2, str}
MCKind  == [o \in MCObj |-> IF o = main THEN "thread" ELSE IF o = str THEN "string" ELSE "table"]
MCSlots == [o \in MCObj |->
             CASE o = main -> {<<Nil, key1>>, <<Nil, key2>>, <<Nil, str>>}
               [] o = weaktab -> {<<key1, key2>>, <<key2, str>>}
               [] OTHER -> {}]
MCWeakModes == [o \in MCObj |-> IF o = weaktab THEN Modes \ {"strong"} ELSE {}]
=============================================================================
