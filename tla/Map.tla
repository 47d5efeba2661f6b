--------------------------------- MODULE Map ---------------------------------
(***************************************************************************)
(* What a Lua table promises to the program (manual 2.1, and 'next' in     *)
(* 6.1): it holds the last value assigned to each key, and a traversal     *)
(* visits every key exactly once, although entries may be changed and      *)
(* removed meanwhile.  Assigning to a new key makes the traversal          *)
(* undefined.  Only a collection takes entries away, those of a weak       *)
(* table.  Table implements it.                                            *)
(***************************************************************************)
CONSTANTS Keys, Values, Nil, NoTraversal

VARIABLES
  content,  \* the value of each key
  todo,     \* the keys a traversal has still to visit, or NoTraversal
  weak,     \* a collection may remove entries
  answer    \* the last operation: its name, key and value, and the keys whose
            \* entries a collection removed meanwhile

vars == <<content, todo, weak, answer>>

Without(lost)   == [k \in Keys |-> IF k \in lost THEN Nil ELSE content[k]]
Remaining(gone) == IF todo = NoTraversal THEN NoTraversal ELSE todo \ gone
New(k, v)       == content[k] = Nil /\ v # Nil

\* a table that grows for a new key allocates, which may collect
Assign(k, v, lost) ==
  /\ New(k, v) \/ lost = {}
  /\ content' = [Without(lost) EXCEPT ![k] = v]
  /\ todo' = IF New(k, v) THEN NoTraversal ELSE Remaining(IF v = Nil THEN {k} ELSE {})

\* there is no memory to grow
Fail(k, v, lost) == New(k, v) /\ content' = Without(lost) /\ todo' = Remaining(lost)

Collect(lost) == content' = Without(lost) /\ todo' = Remaining(lost)

Lookup(k, v) == v = content[k] /\ UNCHANGED <<content, todo>>
Length       == UNCHANGED <<content, todo>>

Begin == /\ todo = NoTraversal /\ todo' = {k \in Keys : content[k] # Nil}
         /\ UNCHANGED content

Visit(k, v) == /\ todo # NoTraversal /\ k \in todo /\ v = content[k]
               /\ todo' = todo \ {k} /\ UNCHANGED content

Finish == todo = {} /\ todo' = NoTraversal /\ UNCHANGED content

Init == content = [k \in Keys |-> Nil] /\ todo = NoTraversal /\ weak \in BOOLEAN /\ answer.op = "new"

\* the operation that the answer names did to the map what it should
Next ==
  LET k == answer'.key
      v == answer'.val
      S == answer'.lost
      Is(op) == answer'.op = op
  IN  /\ UNCHANGED weak /\ k \in Keys \cup {Nil} /\ v \in Values \cup {Nil}
      /\ S # {} => weak /\ S \subseteq Keys /\ answer'.op \in {"set", "fail", "collect"}
      /\ \/ Is("set") /\ Assign(k, v, S)
         \/ Is("fail") /\ Fail(k, v, S)
         \/ Is("collect") /\ Collect(S)
         \/ Is("get") /\ Lookup(k, v)
         \/ Is("length") /\ Length
         \/ Is("begin") /\ Begin
         \/ Is("next") /\ Visit(k, v)
         \/ Is("end") /\ Finish

Spec == Init /\ [][Next]_vars
=============================================================================
