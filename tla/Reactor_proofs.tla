--------------------------- MODULE Reactor_proofs ---------------------------
(***************************************************************************)
(* Theorems about the host interface, for any number of threads.           *)
(***************************************************************************)
EXTENDS Reactor, SequenceTheorems, TLAPS

All == Threads \cup {Main}   \* the threads with a stack

LEMMA MainIsNoThread == Main \notin Threads
  BY ThreadsAssumption

-----------------------------------------------------------------------------
(* The C API *)

LEMMA PushPopValue ==
  ASSUME NEW s \in Seq(Values), NEW x \in Values
  PROVE  /\ Append(s, x) \in Seq(Values) /\ Append(s, x) # <<>>
         /\ Last(Append(s, x)) = x /\ Front(Append(s, x)) = s
<1>1. Append(s, x) \in Seq(Values) /\ Len(Append(s, x)) = Len(s) + 1
      /\ Append(s, x)[Len(s) + 1] = x /\ \A i \in 1 .. Len(s) : Append(s, x)[i] = s[i]
  BY AppendProperties
<1>2. /\ Front(Append(s, x)) \in Seq(Values) /\ Len(Front(Append(s, x))) = Len(s)
      /\ \A i \in 1 .. Len(s) : Front(Append(s, x))[i] = Append(s, x)[i]
  BY <1>1, SubSeqProperties DEF Front
<1>3. Front(Append(s, x)) = s
  BY <1>1, <1>2, SeqEqual
<1> QED BY <1>1, <1>3 DEF Last

LEMMA FrontLast ==
  ASSUME NEW s \in Seq(Values), s # <<>>
  PROVE  Front(s) \in Seq(Values) /\ Last(s) \in Values
<1>1. Len(s) \in Nat \ {0}
  BY EmptySeq
<1>2. Front(s) \in Seq(Values)
  BY <1>1, SubSeqProperties DEF Front
<1> QED BY <1>1, <1>2, ElementOfSeq DEF Last

LEMMA PushOnThread ==
  ASSUME NEW S \in State, NEW th \in All, NEW x \in Values
  PROVE  /\ Push(S, th, x) \in State
         /\ Push(S, th, x).stack = [S.stack EXCEPT ![th] = Append(@, x)]
         /\ Push(S, th, x).status = S.status
         /\ Push(S, th, x).error = S.error /\ Push(S, th, x).program = S.program
<1>1. S.stack[th] \in Seq(Values)
  BY DEF State, All
<1>2. Append(S.stack[th], x) \in Seq(Values)
  BY <1>1, PushPopValue
<1> QED BY <1>2 DEF Push, State, All

LEMMA PopFromThread ==
  ASSUME NEW S \in State, NEW th \in All, S.stack[th] # <<>>
  PROVE  /\ Pop(S, th) \in State
         /\ Pop(S, th).stack = [S.stack EXCEPT ![th] = Front(@)]
         /\ Pop(S, th).status = S.status
         /\ Pop(S, th).error = S.error /\ Pop(S, th).program = S.program
<1>1. Front(S.stack[th]) \in Seq(Values)
  BY FrontLast DEF State, All
<1> QED BY <1>1 DEF Pop, State, All

\* A value that was pushed is popped again, or stored in the registry.
LEMMA PushThenPop ==
  ASSUME NEW S \in State, NEW th \in All, NEW x \in Values
  PROVE  Pop(Push(S, th, x), th) = S
<1>1. S.stack[th] \in Seq(Values) /\ Append(S.stack[th], x) \in Seq(Values)
  BY PushPopValue DEF State, All
<1>2. Front(Append(S.stack[th], x)) = S.stack[th]
  BY <1>1, PushPopValue
<1> QED BY <1>2 DEF Pop, Push, State, All

LEMMA PushThenSetError ==
  ASSUME NEW S \in State, NEW x \in {Nil, "message", "placeholder"}
  PROVE  SetField(Push(S, Main, x), "error") = [S EXCEPT !.error = x]
<1>1. x \in Values /\ Main \in All
  BY DEF Values, Errors, All
<1>2. S.stack[Main] \in Seq(Values)
  BY DEF State
<1>3. /\ Last(Append(S.stack[Main], x)) = x
      /\ Front(Append(S.stack[Main], x)) = S.stack[Main]
  BY <1>1, <1>2, PushPopValue
<1> QED BY <1>3 DEF SetField, Pop, Push, State

LEMMA PushThenSetProgram ==
  ASSUME NEW S \in State, NEW x \in Threads \cup {Nil}
  PROVE  SetField(Push(S, Main, x), "program") = [S EXCEPT !.program = x]
<1>1. x \in Values /\ Main \in All
  BY DEF Values, All
<1>2. S.stack[Main] \in Seq(Values)
  BY DEF State
<1>3. /\ Last(Append(S.stack[Main], x)) = x
      /\ Front(Append(S.stack[Main], x)) = S.stack[Main]
  BY <1>1, <1>2, PushPopValue
<1> QED BY <1>3 DEF SetField, Pop, Push, State

LEMMA SetProgramFromStack ==
  ASSUME NEW S \in State, S.stack[Main] # <<>>, Last(S.stack[Main]) \in Threads
  PROVE  /\ SetField(S, "program") \in State
         /\ SetField(S, "program").stack = [S.stack EXCEPT ![Main] = Front(@)]
         /\ SetField(S, "program").status = S.status
         /\ SetField(S, "program").error = S.error
         /\ SetField(S, "program").program = Last(S.stack[Main])
<1>1. Front(S.stack[Main]) \in Seq(Values)
  BY FrontLast DEF State
<1> QED BY <1>1 DEF SetField, Pop, State

-----------------------------------------------------------------------------
(* Errors *)

Texts == {"message", "placeholder"}

\* An error leaves its stack, and a text stays in the registry whatever the
\* error object was.
LEMMA SetErrorEffect ==
  ASSUME NEW S \in State, NEW from \in All, S.stack[from] # <<>>
  PROVE  /\ SetError(S, from) \in State
         /\ SetError(S, from).stack = [S.stack EXCEPT ![from] = Front(@)]
         /\ SetError(S, from).status = S.status
         /\ SetError(S, from).program = S.program
         /\ SetError(S, from).error \in Texts
<1> DEFINE text == Text(Last(S.stack[from]))
           T    == [S EXCEPT !.error = text]
<1>1. text \in Texts
  BY DEF Text, Texts
<1>2. SetError(S, from) = Pop(T, from)
  BY <1>1, PushThenSetError DEF SetError, Texts
<1>3. T \in State /\ T.stack = S.stack /\ T.status = S.status /\ T.program = S.program
      /\ T.error = text
  BY <1>1 DEF State, Texts
<1> HIDE DEF T, text
<1> QED BY <1>1, <1>2, <1>3, PopFromThread

LEMMA ClearErrorEffect ==
  ASSUME NEW S \in State
  PROVE  /\ ClearError(S) \in State
         /\ ClearError(S).stack = S.stack /\ ClearError(S).status = S.status
         /\ ClearError(S).program = S.program /\ ClearError(S).error = Nil
<1>1. ClearError(S) = [S EXCEPT !.error = Nil]
  BY PushThenSetError DEF ClearError
<1> QED BY <1>1 DEF State

LEMMA ReleaseEffect ==
  ASSUME NEW S \in State
  PROVE  /\ Release(S) \in State
         /\ Release(S).stack = S.stack /\ Release(S).status = S.status
         /\ Release(S).error = S.error /\ Release(S).program = Nil
<1>1. Release(S) = [S EXCEPT !.program = Nil]
  BY PushThenSetProgram DEF Release
<1> QED BY <1>1 DEF State

-----------------------------------------------------------------------------
(* Lua code *)

\* Lua code leaves the main stack and the registry fields alone.
LEMMA TouchedEffect ==
  ASSUME NEW S \in State, NEW th, NEW T \in Touched(S, th)
  PROVE  /\ T \in State
         /\ T.stack[Main] = S.stack[Main]
         /\ T.error = S.error /\ T.program = S.program
<1> DEFINE left(st) == [status |-> st, stack |-> <<>>]
           now(t)   == [status |-> S.status[t], stack |-> S.stack[t]]
           may(t)   == {now(t)} \cup IF t \notin held \ {th} THEN {}
                                     ELSE {left("ok")}
                                          \cup IF Resumable(S, t) THEN {left("yield"), left("error")}
                                               ELSE {}
           Possible == [status : {"ok", "yield", "error"}, stack : Seq(Values)]
<1>1. PICK f \in [Threads -> UNION {may(t) : t \in Threads}] :
        /\ \A t \in Threads : f[t] \in may(t)
        /\ T = [S EXCEPT !.status = [t \in Threads |-> f[t].status],
                         !.stack  = [t \in Threads \cup {Main} |->
                                       IF t = Main THEN @[t] ELSE f[t].stack]]
  BY DEF Touched
<1>2. ASSUME NEW t \in Threads PROVE f[t] \in Possible
  <2>1. now(t) \in Possible
    BY DEF State
  <2>2. <<>> \in Seq(Values)
    BY EmptySeq
  <2>3. \A st \in {"ok", "yield", "error"} : left(st) \in Possible
    BY <2>2
  <2>4. f[t] \in may(t)
    BY <1>1
  <2> QED BY <2>1, <2>3, <2>4
<1> HIDE DEF may
<1>3. /\ [t \in Threads |-> f[t].status] \in [Threads -> {"ok", "yield", "error"}]
      /\ [t \in Threads \cup {Main} |-> IF t = Main THEN S.stack[t] ELSE f[t].stack]
           \in [Threads \cup {Main} -> Seq(Values)]
  BY <1>2 DEF State
<1> QED BY <1>1, <1>3 DEF State

\* The program has something on its stack after a resume that did not finish
\* it; nothing else has changed.
LEMMA ResumedEffect ==
  ASSUME NEW S \in State, NEW co \in Threads, NEW R \in Resumed(S, co)
  PROVE  /\ R \in State
         /\ R.stack[Main] = S.stack[Main]
         /\ R.error = S.error /\ R.program = S.program
         /\ R.status[co] # "ok" => R.stack[co] # <<>>
<1>1. <<>> \in Seq(Values)
  BY EmptySeq
<1>2. \A x \in Values : <<x>> \in Seq(Values) /\ <<x>> # <<>>
  OBVIOUS
<1>3. "result" \in Values /\ Errors \subseteq Values
  BY DEF Values
<1>4. PICK st \in {"ok", "yield", "error"}, v \in Seq(Values) :
        /\ R = [S EXCEPT !.status[co] = st, !.stack[co] = v]
        /\ st # "ok" => v # <<>>
  BY <1>1, <1>2, <1>3 DEF Resumed
<1>5. co # Main
  BY MainIsNoThread
<1>6. [S.status EXCEPT ![co] = st] \in [Threads -> {"ok", "yield", "error"}]
  BY DEF State
<1>7. [S.stack EXCEPT ![co] = v] \in [Threads \cup {Main} -> Seq(Values)]
  BY DEF State
<1>8. R.status[co] = st /\ R.stack[co] = v /\ R.stack[Main] = S.stack[Main]
  BY <1>4, <1>5 DEF State
<1> QED BY <1>4, <1>6, <1>7, <1>8 DEF State

-----------------------------------------------------------------------------
(* The invariant.  StepTruthful needs to know that there is no program       *)
(* before luaw_init, when every call fails.                                  *)

Unopened == vm = "none" => L.program = Nil
Inv == TypeOK /\ MainBalanced /\ ErrorReported /\ StepTruthful /\ Unopened

\* What an entry call has to leave: a state with nothing on the main stack,
\* and a message if and only if it failed.
Leaves(call, S, status) ==
  /\ S \in State /\ S.stack[Main] = <<>>
  /\ S.error # Nil <=> status = "error"
  /\ call = "step" => IF status = "yield" THEN S.program # Nil /\ S.status[S.program] = "yield"
                      ELSE S.program = Nil

LEMMA LeavesInv ==
  ASSUME NEW call \in {"run", "start", "step"}, NEW status \in {"ok", "yield", "error"},
         vm' = "open", Leaves(call, L', status), Returns(call, status),
         held' \subseteq Threads, finished' \subseteq Threads
  PROVE  Inv'
<1>1. TypeOK'
  BY DEF TypeOK, Leaves, Returns
<1>2. MainBalanced' /\ ErrorReported' /\ StepTruthful' /\ Unopened'
  BY DEF MainBalanced, ErrorReported, LastError, StepTruthful, Unopened, Leaves, Returns
<1> QED BY <1>1, <1>2 DEF Inv

LEMMA TextIsNotNil == \A m \in Texts : m # Nil
  BY ThreadsAssumption DEF Texts

LEMMA InitInv == Init => Inv
<1> SUFFICES ASSUME Init PROVE Inv
  OBVIOUS
<1>1. L \in State
  BY EmptySeq DEF Init, State
<1>2. TypeOK /\ MainBalanced
  BY <1>1 DEF Init, TypeOK, MainBalanced
<1>3. ErrorReported /\ StepTruthful /\ Unopened
  BY DEF Init, ErrorReported, StepTruthful, Unopened
<1> QED BY <1>2, <1>3 DEF Inv

LEMMA NotOpenInv ==
  ASSUME Inv, NEW call \in {"run", "start", "step"}, NotOpen(call)
  PROVE  Inv'
<1>1. L' = L /\ vm' = vm /\ vm = "none" /\ held' = held /\ finished' = finished
      /\ last' = [call |-> call, status |-> "error"]
  BY DEF NotOpen, Returns
<1>2. "message" # Nil
  BY ThreadsAssumption
<1>3. TypeOK' /\ MainBalanced' /\ Unopened'
  BY <1>1 DEF Inv, TypeOK, MainBalanced, Unopened
<1>4. ErrorReported'
  BY <1>1, <1>2 DEF ErrorReported, LastError
<1>5. StepTruthful'
  BY <1>1 DEF Inv, StepTruthful, Unopened
<1> QED BY <1>3, <1>4, <1>5 DEF Inv

LEMMA LuawInitInv ==
  ASSUME Inv, LuawInit
  PROVE  Inv'
<1>1. /\ L' = L /\ held' = held /\ finished' = finished /\ last'.call = "init"
      /\ vm' \in {vm, "open"} /\ vm \in {"none", "open"}
      /\ last' \in [call : {"none", "init", "run", "start", "step"}, status : {"ok", "yield", "error"}]
  BY DEF LuawInit, Returns
<1> QED BY <1>1 DEF Inv, TypeOK, MainBalanced, ErrorReported, StepTruthful, Unopened

LEMMA OutOfMemoryInv ==
  ASSUME Inv, OutOfMemory
  PROVE  Inv'
  BY DEF OutOfMemory, Inv, TypeOK, MainBalanced, ErrorReported, StepTruthful, Unopened

LEMMA LuawRunInv ==
  ASSUME Inv, LuawRun
  PROVE  Inv'
<1>1. CASE NotOpen("run")
  BY <1>1, NotOpenInv
<1>2. CASE ~NotOpen("run")
  <2>1. vm' = "open" /\ held' \subseteq Threads /\ finished' \subseteq Threads
    BY <1>2 DEF LuawRun, Inv, TypeOK
  <2>2. PICK S \in Touched(ClearError(L), Main) :
          \/ L' = S /\ Returns("run", "ok")
          \/ \E e \in Errors : L' = SetError(Push(S, Main, e), Main) /\ Returns("run", "error")
    BY <1>2 DEF LuawRun
  <2>3. S \in State /\ S.stack[Main] = <<>> /\ S.error = Nil
    BY ClearErrorEffect, TouchedEffect DEF Inv, TypeOK, MainBalanced
  <2>4. CASE L' = S /\ Returns("run", "ok")
    <3>1. Leaves("run", L', "ok")
      BY <2>3, <2>4 DEF Leaves
    <3> QED BY <2>1, <2>4, <3>1, LeavesInv
  <2>5. ASSUME NEW e \in Errors, L' = SetError(Push(S, Main, e), Main), Returns("run", "error")
        PROVE  Inv'
    <3>1. e \in Values /\ Main \in All /\ <<>> \in Seq(Values)
      BY EmptySeq DEF Values, All
    <3> DEFINE T == Push(S, Main, e)
    <3>2. T \in State /\ T.stack = [S.stack EXCEPT ![Main] = Append(@, e)]
      BY <2>3, <3>1, PushOnThread
    <3>3. T.stack[Main] = Append(<<>>, e)
      BY <2>3, <3>2 DEF State
    <3>4. T.stack[Main] # <<>> /\ Front(T.stack[Main]) = <<>>
      BY <3>1, <3>3, PushPopValue
    <3> HIDE DEF T
    <3>5. /\ SetError(T, Main) \in State /\ SetError(T, Main).error \in Texts
          /\ SetError(T, Main).stack = [T.stack EXCEPT ![Main] = Front(@)]
      BY <3>1, <3>2, <3>4, SetErrorEffect
    <3>6. L' = SetError(T, Main)
      BY <2>5 DEF T
    <3>7. L'.stack[Main] = <<>>
      BY <3>2, <3>4, <3>5, <3>6 DEF State
    <3>8. Leaves("run", L', "error")
      BY <3>5, <3>6, <3>7, TextIsNotNil DEF Leaves
    <3> QED BY <2>1, <2>5, <3>8, LeavesInv
  <2> QED BY <2>2, <2>4, <2>5
<1> QED BY <1>1, <1>2

\* The new thread on an empty main stack becomes the program, with the
\* function to run on its stack.
LEMMA LoadEffect ==
  ASSUME NEW S \in State, NEW co \in Threads, S.stack[Main] = <<co>>, S.error = Nil
  PROVE  /\ Load(S, co) \in State
         /\ Load(S, co).stack[Main] = <<>> /\ Load(S, co).error = Nil
         /\ Load(S, co).program = co /\ Load(S, co).status = S.status
         /\ Load(S, co).stack[co] # <<>>
<1> DEFINE T == Push(S, co, "function")
<1>1. co \in All /\ co # Main /\ "function" \in Values /\ co \in Values /\ <<>> \in Seq(Values)
  BY MainIsNoThread, EmptySeq DEF All, Values
<1>2. /\ T \in State /\ T.stack = [S.stack EXCEPT ![co] = Append(@, "function")]
      /\ T.status = S.status /\ T.error = Nil
  BY <1>1, PushOnThread
<1>3. T.stack[Main] = Append(<<>>, co) /\ T.stack[co] # <<>>
  <2>1. T.stack[Main] = <<co>> /\ T.stack[co] = Append(S.stack[co], "function")
    BY <1>1, <1>2 DEF State
  <2>2. S.stack[co] \in Seq(Values)
    BY DEF State
  <2> QED BY <1>1, <2>1, <2>2, PushPopValue
<1>4. T.stack[Main] # <<>> /\ Last(T.stack[Main]) = co /\ Front(T.stack[Main]) = <<>>
  BY <1>1, <1>3, PushPopValue
<1>5. Load(S, co) = SetField(T, "program")
  BY DEF Load
<1> HIDE DEF T
<1>6. /\ Load(S, co) \in State /\ Load(S, co).stack = [T.stack EXCEPT ![Main] = Front(@)]
      /\ Load(S, co).status = S.status /\ Load(S, co).error = Nil /\ Load(S, co).program = co
  BY <1>2, <1>4, <1>5, SetProgramFromStack
<1>7. Load(S, co).stack[Main] = <<>> /\ Load(S, co).stack[co] # <<>>
  BY <1>1, <1>2, <1>3, <1>4, <1>6 DEF State
<1> QED BY <1>6, <1>7

\* A chunk that does not load leaves a message and the program as it was.
LEMMA LoadFailedEffect ==
  ASSUME NEW S \in State, NEW co \in Threads, S.stack[Main] = <<co>>
  PROVE  /\ LoadFailed(S, co) \in State
         /\ LoadFailed(S, co).stack[Main] = <<>> /\ LoadFailed(S, co).error \in Texts
         /\ LoadFailed(S, co).program = S.program
<1> DEFINE T == Push(S, co, "message")
<1>1. /\ co \in All /\ Main \in All /\ co # Main /\ "message" \in Values /\ co \in Values
      /\ <<>> \in Seq(Values)
  BY MainIsNoThread, EmptySeq DEF All, Values, Errors
<1>2. /\ T \in State /\ T.stack = [S.stack EXCEPT ![co] = Append(@, "message")]
      /\ T.program = S.program
  BY <1>1, PushOnThread
<1>3. T.stack[co] # <<>> /\ T.stack[Main] = Append(<<>>, co)
  <2>1. T.stack[Main] = <<co>> /\ T.stack[co] = Append(S.stack[co], "message")
    BY <1>1, <1>2 DEF State
  <2>2. S.stack[co] \in Seq(Values)
    BY DEF State
  <2> QED BY <1>1, <2>1, <2>2, PushPopValue
<1> HIDE DEF T
<1> DEFINE U == SetError(T, co)
<1>4. /\ U \in State /\ U.stack = [T.stack EXCEPT ![co] = Front(@)]
      /\ U.program = S.program /\ U.error \in Texts
  BY <1>1, <1>2, <1>3, SetErrorEffect
<1>5. U.stack[Main] = Append(<<>>, co)
  BY <1>1, <1>2, <1>3, <1>4 DEF State
<1>6. U.stack[Main] # <<>> /\ Front(U.stack[Main]) = <<>>
  BY <1>1, <1>5, PushPopValue
<1>7. LoadFailed(S, co) = Pop(U, Main)
  BY DEF LoadFailed, T
<1> HIDE DEF U
<1>8. /\ Pop(U, Main) \in State /\ Pop(U, Main).stack = [U.stack EXCEPT ![Main] = Front(@)]
      /\ Pop(U, Main).program = S.program /\ Pop(U, Main).error \in Texts
  <2>1. U \in State /\ Main \in All /\ U.stack[Main] # <<>>
    BY <1>1, <1>4, <1>6
  <2>2. /\ Pop(U, Main) \in State /\ Pop(U, Main).stack = [U.stack EXCEPT ![Main] = Front(@)]
        /\ Pop(U, Main).error = U.error /\ Pop(U, Main).program = U.program
    BY <2>1, PopFromThread
  <2> QED BY <1>4, <2>2
<1>9. Pop(U, Main).stack[Main] = Front(U.stack[Main])
  <2>1. Main \in DOMAIN U.stack
    BY <1>4 DEF State
  <2> QED BY <1>8, <2>1
<1> QED BY <1>6, <1>7, <1>8, <1>9

\* What luaw_start has when it loads the chunk: the new thread, on the main
\* stack, and no message.
LEMMA NewThread ==
  ASSUME Inv, NEW co \in Threads
  PROVE  LET new == [ClearError(L) EXCEPT !.stack[co] = <<>>, !.status[co] = "ok"]
             S   == Push(new, Main, co)
         IN  /\ S \in State /\ S.stack[Main] = <<co>> /\ S.error = Nil
             /\ S.program = L.program /\ S.status[co] = "ok"
<1> DEFINE C   == ClearError(L)
           new == [C EXCEPT !.stack[co] = <<>>, !.status[co] = "ok"]
           S   == Push(new, Main, co)
<1>1. /\ C \in State /\ C.stack = L.stack /\ C.program = L.program /\ C.error = Nil
      /\ L.stack[Main] = <<>>
  BY ClearErrorEffect DEF Inv, TypeOK, MainBalanced
<1> HIDE DEF C
<1>2. co # Main /\ co \in Values /\ Main \in All /\ <<>> \in Seq(Values)
  BY MainIsNoThread, EmptySeq DEF Values, All
<1>3. [C.stack EXCEPT ![co] = <<>>] \in [Threads \cup {Main} -> Seq(Values)]
  BY <1>1, <1>2 DEF State
<1>4. [C.status EXCEPT ![co] = "ok"] \in [Threads -> {"ok", "yield", "error"}]
  BY <1>1 DEF State
<1>5. /\ new \in State /\ new.stack[Main] = <<>> /\ new.error = Nil
      /\ new.program = L.program /\ new.status[co] = "ok"
  <2>1. /\ new.stack = [C.stack EXCEPT ![co] = <<>>] /\ new.status = [C.status EXCEPT ![co] = "ok"]
        /\ new.error = C.error /\ new.program = C.program
    BY <1>1 DEF State
  <2>2. new.stack[Main] = <<>> /\ new.status[co] = "ok"
    BY <1>1, <1>2, <2>1 DEF State
  <2>3. new \in State
    BY <1>1, <1>3, <1>4 DEF State
  <2> QED BY <1>1, <2>1, <2>2, <2>3
<1> HIDE DEF new
<1>6. /\ S \in State /\ S.stack = [new.stack EXCEPT ![Main] = Append(@, co)]
      /\ S.status = new.status /\ S.error = Nil /\ S.program = L.program
  BY <1>2, <1>5, PushOnThread
<1>7. S.stack[Main] = Append(<<>>, co)
  BY <1>5, <1>6 DEF State
<1>8. S.stack[Main] = <<co>>
  BY <1>7
<1> QED BY <1>5, <1>6, <1>8 DEF new, C

LEMMA LuawStartInv ==
  ASSUME Inv, LuawStart
  PROVE  Inv'
<1>1. CASE NotOpen("start")
  BY <1>1, NotOpenInv
<1>2. CASE ~NotOpen("start")
  <2>1. vm' = "open" /\ held' \subseteq Threads
    BY <1>2 DEF LuawStart, Inv, TypeOK
  <2> DEFINE Loading(co) ==
               Push([ClearError(L) EXCEPT !.stack[co] = <<>>, !.status[co] = "ok"], Main, co)
  <2>2. PICK co \in Threads :
          /\ \/ L' = Load(Loading(co), co) /\ Returns("start", "ok")
             \/ L' = LoadFailed(Loading(co), co) /\ Returns("start", "error")
          /\ finished' = finished \ {co}
    BY <1>2 DEF LuawStart
  <2> DEFINE S == Loading(co)
  <2>3. S \in State /\ S.stack[Main] = <<co>> /\ S.error = Nil /\ finished' \subseteq Threads
    BY <2>2, NewThread DEF Inv, TypeOK
  <2> HIDE DEF Loading
  <2>4. CASE L' = Load(S, co) /\ Returns("start", "ok")
    <3>1. Leaves("start", L', "ok")
      BY <2>3, <2>4, LoadEffect DEF Leaves
    <3> QED BY <2>1, <2>3, <2>4, <3>1, LeavesInv
  <2>5. CASE L' = LoadFailed(S, co) /\ Returns("start", "error")
    <3>1. Leaves("start", L', "error")
      BY <2>3, <2>5, LoadFailedEffect, TextIsNotNil DEF Leaves
    <3> QED BY <2>1, <2>3, <2>5, <3>1, LeavesInv
  <2> QED BY <2>2, <2>4, <2>5
<1> QED BY <1>1, <1>2

\* luaw_step drops what a yield left on the program's stack, and releases a
\* program that ended; status is what lua_resume returned, or that of an error.
LEMMA AfterResumeEffect ==
  ASSUME NEW S \in State, NEW co \in Threads, NEW status \in {"ok", "yield", "error"},
         S.stack[Main] = <<>>, S.error = Nil, S.program = co,
         status # "ok" => S.stack[co] # <<>>, status = "yield" => S.status[co] = "yield"
  PROVE  Leaves("step", AfterResume(S, co, status), status)
<1>1. co \in All /\ co # Main /\ Main \in All /\ co # Nil
  BY MainIsNoThread, ThreadsAssumption DEF All
<1>2. CASE status = "yield"
  <2>1. AfterResume(S, co, status) = Pop(S, co)
    BY <1>2 DEF AfterResume
  <2>2. /\ Pop(S, co) \in State /\ Pop(S, co).stack = [S.stack EXCEPT ![co] = Front(@)]
        /\ Pop(S, co).status = S.status /\ Pop(S, co).error = Nil /\ Pop(S, co).program = co
    BY <1>1, <1>2, PopFromThread
  <2>3. Pop(S, co).stack[Main] = <<>>
    BY <1>1, <2>2 DEF State
  <2> QED BY <1>1, <1>2, <2>1, <2>2, <2>3 DEF Leaves
<1>3. CASE status = "ok"
  <2>1. AfterResume(S, co, status) = Release(S)
    BY <1>3 DEF AfterResume
  <2> QED BY <1>3, <2>1, ReleaseEffect DEF Leaves
<1>4. CASE status = "error"
  <2> DEFINE T == SetError(S, co)
  <2>1. AfterResume(S, co, status) = Release(T)
    BY <1>4 DEF AfterResume
  <2>2. T \in State /\ T.stack = [S.stack EXCEPT ![co] = Front(@)] /\ T.error # Nil
    BY <1>1, <1>4, SetErrorEffect, TextIsNotNil
  <2>3. T.stack[Main] = <<>>
    BY <1>1, <2>2 DEF State
  <2> HIDE DEF T
  <2> QED BY <1>4, <2>1, <2>2, <2>3, ReleaseEffect DEF Leaves
<1> QED BY <1>2, <1>3, <1>4

LEMMA LuawStepInv ==
  ASSUME Inv, LuawStep
  PROVE  Inv'
<1>1. CASE NotOpen("step")
  BY <1>1, NotOpenInv
<1>2. CASE ~NotOpen("step")
  <2> DEFINE co == L.program
             S  == Pop(Push(ClearError(L), Main, co), Main)
  <2>1. vm' = "open" /\ L \in State /\ L.stack[Main] = <<>>
    BY <1>2 DEF LuawStep, Inv, TypeOK, MainBalanced
  <2>2. co \in Threads \cup {Nil} /\ co \in Values /\ Main \in All
    BY <2>1 DEF State, Values, All
  <2>3. S = ClearError(L)
    BY <2>1, <2>2, ClearErrorEffect, PushThenPop
  <2>4. S \in State /\ S.stack[Main] = <<>> /\ S.error = Nil /\ S.program = co
    BY <2>1, <2>3, ClearErrorEffect
  <2>5. held \subseteq Threads /\ finished \subseteq Threads
    BY DEF Inv, TypeOK
  <2>6. CASE /\ co = Nil
             /\ L' = SetField(Push(S, Main, "message"), "error")
             /\ Returns("step", "error")
             /\ UNCHANGED <<held, finished>>
    <3>1. L' = [S EXCEPT !.error = "message"]
      BY <2>4, <2>6, PushThenSetError
    <3>2. "message" # Nil
      BY ThreadsAssumption
    <3>3. S.program = Nil /\ Returns("step", "error") /\ held' = held /\ finished' = finished
      BY <2>4, <2>6
    <3> HIDE DEF S, co
    <3>4. Leaves("step", L', "error")
      BY <2>4, <3>1, <3>2, <3>3 DEF Leaves, State
    <3> QED BY <2>1, <2>5, <3>3, <3>4, LeavesInv
  <2>7. CASE /\ co # Nil /\ ~Resumable(S, co)
             /\ L' = AfterResume(Push(S, co, "message"), co, "error")
             /\ Returns("step", "error")
             /\ UNCHANGED <<held, finished>>
    <3> DEFINE T == Push(S, co, "message")
    <3>1. co \in Threads /\ co \in All /\ "message" \in Values /\ co # Main
      BY <2>2, <2>7, MainIsNoThread DEF All, Values, Errors
    <3>2. /\ T \in State /\ T.stack = [S.stack EXCEPT ![co] = Append(@, "message")]
          /\ T.error = Nil /\ T.program = co
      BY <2>4, <3>1, PushOnThread
    <3>3. T.stack[Main] = <<>> /\ T.stack[co] # <<>>
      <4>1. S.stack[co] \in Seq(Values)
        BY <2>4, <3>1 DEF State
      <4>2. T.stack[Main] = <<>> /\ T.stack[co] = Append(S.stack[co], "message")
        BY <2>4, <3>1, <3>2 DEF State
      <4> QED BY <3>1, <4>1, <4>2, PushPopValue
    <3>4. L' = AfterResume(T, co, "error") /\ Returns("step", "error")
          /\ held' = held /\ finished' = finished
      BY <2>7
    <3> HIDE DEF T, co
    <3>5. Leaves("step", L', "error")
      BY <3>1, <3>2, <3>3, <3>4, AfterResumeEffect
    <3> QED BY <2>1, <2>5, <3>4, <3>5, LeavesInv
  <2>8. CASE /\ co # Nil /\ Resumable(S, co)
             /\ \E T \in Touched(S, co) : \E R \in Resumed(T, co) :
                  LET status == R.status[co]
                  IN  /\ L' = AfterResume(R, co, status)
                      /\ Returns("step", status)
                      /\ finished' = IF status = "ok" THEN finished \cup {co} ELSE finished
             /\ held' \in SUBSET (held \cup {co})
    <3>0. PICK T \in Touched(S, co) : \E R \in Resumed(T, co) :
            /\ L' = AfterResume(R, co, R.status[co])
            /\ Returns("step", R.status[co])
            /\ finished' = IF R.status[co] = "ok" THEN finished \cup {co} ELSE finished
      BY <2>8
    <3>1. PICK R \in Resumed(T, co) :
            /\ L' = AfterResume(R, co, R.status[co])
            /\ Returns("step", R.status[co])
            /\ finished' = IF R.status[co] = "ok" THEN finished \cup {co} ELSE finished
      BY <3>0
    <3>2. co \in Threads /\ held' \subseteq Threads /\ finished' \subseteq Threads
      BY <2>2, <2>5, <2>8, <3>1
    <3> HIDE DEF S, co
    <3>3. T \in State /\ T.stack[Main] = <<>> /\ T.error = Nil /\ T.program = co
      BY <2>4, TouchedEffect
    <3>4. /\ R \in State /\ R.stack[Main] = <<>> /\ R.error = Nil /\ R.program = co
          /\ R.status[co] # "ok" => R.stack[co] # <<>>
      BY <3>2, <3>3, ResumedEffect
    <3>5. R.status[co] \in {"ok", "yield", "error"}
      BY <3>2, <3>4 DEF State
    <3>6. Leaves("step", L', R.status[co])
      BY <3>1, <3>2, <3>4, <3>5, AfterResumeEffect
    <3> QED BY <2>1, <3>1, <3>2, <3>5, <3>6, LeavesInv
  <2> QED BY <1>2, <2>6, <2>7, <2>8 DEF LuawStep
<1> QED BY <1>1, <1>2

-----------------------------------------------------------------------------
(* The theorems *)

LEMMA NextInv == Inv /\ [Next]_vars => Inv'
<1> SUFFICES ASSUME Inv, [Next]_vars PROVE Inv'
  OBVIOUS
<1>1. CASE Next
  BY <1>1, LuawInitInv, LuawRunInv, LuawStartInv, LuawStepInv, OutOfMemoryInv DEF Next
<1>2. CASE UNCHANGED vars
  BY <1>2 DEF vars, Inv, TypeOK, MainBalanced, ErrorReported, LastError, StepTruthful, Unopened
<1> QED BY <1>1, <1>2

LEMMA Invariance == Spec => []Inv
  BY InitInv, NextInv, PTL DEF Spec

\* The stacks, the registry fields and what is reported are well typed, in any
\* order of the host's calls (luaw_init, luaw_run, luaw_start, luaw_step).
THEOREM Typing == Spec => []TypeOK
  BY Invariance, PTL DEF Inv

\* No path of an entry call leaves a value on the main stack.
THEOREM Balance == Spec => []MainBalanced
  BY Invariance, PTL DEF Inv

\* luaw_last_error is NULL exactly if the last call succeeded.
THEOREM Reporting == Spec => []ErrorReported
  BY Invariance, PTL DEF Inv

\* After luaw_step there is a program that waits to be stepped again exactly
\* if it returned LUA_YIELD, whatever other chunks did to the program.
THEOREM Stepping == Spec => []StepTruthful
  BY Invariance, PTL DEF Inv

\* A program that does not load leaves the resident one as it was; one that
\* does is a thread nobody else knows, at its beginning.
THEOREM Starting == Spec => StartKeepsOrReplaces
<1> DEFINE Right == last'.call = "start" /\ vm' = "open" =>
                      IF last'.status = "error" THEN L'.program = L.program
                      ELSE /\ L'.program # L.program /\ L'.program \notin held
                           /\ Resumable(L', L'.program) /\ L'.status[L'.program] = "ok"
<1>1. ASSUME Inv, Next PROVE Right
  <2>1. CASE LuawStart
    <3>1. CASE NotOpen("start")
      BY <3>1 DEF NotOpen
    <3>2. CASE ~NotOpen("start")
      <4> DEFINE Loading(co) ==
                   Push([ClearError(L) EXCEPT !.stack[co] = <<>>, !.status[co] = "ok"], Main, co)
      <4>1. PICK co \in Threads \ (held \cup {L.program}) :
              \/ L' = Load(Loading(co), co) /\ Returns("start", "ok")
              \/ L' = LoadFailed(Loading(co), co) /\ Returns("start", "error")
        BY <2>1, <3>2 DEF LuawStart
      <4> DEFINE S == Loading(co)
      <4>2. /\ S \in State /\ S.stack[Main] = <<co>> /\ S.error = Nil
            /\ S.program = L.program /\ S.status[co] = "ok"
        BY <1>1, <4>1, NewThread
      <4> HIDE DEF Loading
      <4>3. CASE L' = Load(S, co) /\ Returns("start", "ok")
        <5>1. L'.program = co /\ L'.status = S.status /\ L'.stack[co] # <<>>
          BY <4>2, <4>3, LoadEffect
        <5> QED BY <4>1, <4>2, <5>1, <4>3 DEF Resumable, Returns
      <4>4. CASE L' = LoadFailed(S, co) /\ Returns("start", "error")
        <5>1. L'.program = L.program /\ last'.status = "error"
          BY <4>2, <4>4, LoadFailedEffect DEF Returns
        <5> QED BY <5>1
      <4> QED BY <4>1, <4>3, <4>4
    <3> QED BY <3>1, <3>2
  <2>2. CASE LuawInit \/ LuawRun \/ LuawStep
    <3>1. last'.call # "start"
      BY <2>2 DEF LuawInit, LuawRun, LuawStep, NotOpen, Returns
    <3> QED BY <3>1
  <2>3. CASE OutOfMemory
    BY <2>3 DEF OutOfMemory
  <2> QED BY <1>1, <2>1, <2>2, <2>3 DEF Next
<1>2. Inv /\ [Next]_vars => [Right]_vars
  BY <1>1
<1>3. StartKeepsOrReplaces <=> [][Right]_vars
  BY PTL DEF StartKeepsOrReplaces
<1> HIDE DEF Right
<1> QED BY Invariance, <1>2, <1>3, PTL DEF Spec

=============================================================================
