------------------------------- MODULE Reactor -------------------------------
(***************************************************************************)
(* The host interface of lua.wasm (onelua.c, MAKE_REACTOR): chunks that    *)
(* run to completion, and a resident program, a coroutine that the host    *)
(* resumes once per frame.  Each entry call is an action, written as its   *)
(* calls to the C API, which work on the stacks of the main thread and of  *)
(* the program and on two fields of the registry.                          *)
(*                                                                         *)
(* What happens inside a chunk is module Calls; here it fails or not, and  *)
(* may resume or close the coroutines that Lua code has a reference to,    *)
(* resident programs of now and before among them.  The host does not call *)
(* in while a call is in progress.                                         *)
(***************************************************************************)
EXTENDS Naturals, Sequences, SequencesExt

CONSTANTS Threads, Main, Nil

ASSUME ThreadsAssumption ==
  Main \notin Threads /\ Nil \notin Threads \cup {Main, "message", "object", "placeholder"}

VARIABLES
  vm,        \* luaw_L: "none", "open"; or "aborted": the instance trapped
  L,         \* stacks and status of threads, fields of the registry
  held,      \* programs that Lua code has a reference to
  last,      \* the last entry call and what it returned
  finished   \* programs that luaw_step said to have finished

vars == <<vm, L, held, last, finished>>

Errors == {"message", "object"}   \* error objects: strings, and others
Values == {Nil, "function", "result", "placeholder"} \cup Errors \cup Threads
State  == [stack   : [Threads \cup {Main} -> Seq(Values)],
           status  : [Threads -> {"ok", "yield", "error"}],  \* L->status
           error   : {Nil, "message", "placeholder"},        \* LUAW_ERRKEY
           program : {Nil} \cup Threads]                     \* LUAW_COKEY

-----------------------------------------------------------------------------
\* The C API

Push(S, th, x)   == [S EXCEPT !.stack[th] = Append(@, x)]
Pop(S, th)       == [S EXCEPT !.stack[th] = Front(@)]
SetField(S, key) == Pop([S EXCEPT ![key] = Last(S.stack[Main])], Main)

\* lua_resume will call what is on top of the stack, or continue
Resumable(S, th) == S.status[th] = "yield" \/ (S.status[th] = "ok" /\ S.stack[th] # <<>>)

\* What lua_resume leaves: the values of a yield, the results, an error object
Resumed(S, th) ==
  {[S EXCEPT !.status[th] = "yield", !.stack[th] = <<"result">>]}
    \cup {[S EXCEPT !.status[th] = "ok", !.stack[th] = r] : r \in {<<>>, <<"result">>}}
    \cup {[S EXCEPT !.status[th] = "error", !.stack[th] = <<e>>] : e \in Errors}

\* Lua code has run, in the program th or in a chunk: it has kept or dropped
\* references, and resumed coroutines (whose results it takes) or closed them
Touched(S, th) ==
  LET left(st) == [status |-> st, stack |-> <<>>]
      now(t)   == [status |-> S.status[t], stack |-> S.stack[t]]
      may(t)   == {now(t)} \cup IF t \notin held \ {th} THEN {}
                                ELSE {left("ok")}  \* closed
                                     \cup IF Resumable(S, t) THEN {left("yield"), left("error")} ELSE {}
  IN  {[S EXCEPT !.status = [t \in Threads |-> f[t].status],
                 !.stack  = [t \in Threads \cup {Main} |-> IF t = Main THEN @[t] ELSE f[t].stack]] :
         f \in {g \in [Threads -> UNION {may(t) : t \in Threads}] : \A t \in Threads : g[t] \in may(t)}}

-----------------------------------------------------------------------------
\* luaw_seterror, luaw_clearerror

\* -- mutant: nothing stands for an object without a text
Text_Null(e) == IF e = "message" THEN e ELSE Nil

Text(e) == IF e = "message" THEN e ELSE "placeholder"  \* lua_tostring

SetError(S, from) == Pop(SetField(Push(S, Main, Text(Last(S.stack[from]))), "error"), from)

ClearError(S) == SetField(Push(S, Main, Nil), "error")

-----------------------------------------------------------------------------
\* Entry calls

Returns(call, status) == last' = [call |-> call, status |-> status]

\* before luaw_init
NotOpen(call) == vm = "none" /\ Returns(call, "error") /\ UNCHANGED <<vm, L, held, finished>>

LuawInit ==
  /\ \/ vm = "none" /\ vm' = "open" /\ Returns("init", "ok")
     \/ vm = "none" /\ vm' = vm /\ Returns("init", "error")  \* LUA_ERRMEM
     \/ vm = "open" /\ vm' = vm /\ Returns("init", "ok")
  /\ UNCHANGED <<L, held, finished>>

\* an allocation fails in a call of the API that nothing protects
OutOfMemory == vm # "aborted" /\ vm' = "aborted" /\ UNCHANGED <<L, held, last, finished>>

LuawRun ==
  \/ NotOpen("run")
  \/ /\ vm = "open"
     /\ \E S \in Touched(ClearError(L), Main) :
          \/ L' = S /\ Returns("run", "ok")
          \/ \E e \in Errors : L' = SetError(Push(S, Main, e), Main) /\ Returns("run", "error")
     /\ held' \in SUBSET held
     /\ UNCHANGED <<vm, finished>>

Load(S, co) == SetField(Push(S, co, "function"), "program")

\* -- mutant: the new thread stays on the stack
LoadFailed_KeepThread(S, co) == SetError(Push(S, co, "message"), co)

\* -- mutant: the new thread becomes the program
LoadFailed_Replace(S, co) == SetField(SetError(Push(S, co, "message"), co), "program")

LoadFailed(S, co) == Pop(SetError(Push(S, co, "message"), co), Main)

LuawStart ==
  \/ NotOpen("start")
  \/ /\ vm = "open"
     /\ \E co \in Threads \ (held \cup {L.program}) :  \* lua_newthread
          LET new == [ClearError(L) EXCEPT !.stack[co] = <<>>, !.status[co] = "ok"]
              S   == Push(new, Main, co)
          IN  /\ \/ L' = Load(S, co) /\ Returns("start", "ok")
                 \/ L' = LoadFailed(S, co) /\ Returns("start", "error")
              /\ finished' = finished \ {co}
     /\ UNCHANGED <<vm, held>>

Release(S) == SetField(Push(S, Main, Nil), "program")

\* -- mutant: a program that failed is not released
AfterResume_KeepFailed(S, co, status) ==
  CASE status = "yield" -> Pop(S, co)
    [] status = "ok"    -> Release(S)
    [] status = "error" -> SetError(S, co)

AfterResume(S, co, status) ==
  CASE status = "yield" -> Pop(S, co)
    [] status = "ok"    -> Release(S)
    [] status = "error" -> Release(SetError(S, co))

LuawStep ==
  \/ NotOpen("step")
  \/ /\ vm = "open"
     /\ LET co == L.program
            S  == Pop(Push(ClearError(L), Main, co), Main)
        IN  \/ /\ co = Nil
               /\ L' = SetField(Push(S, Main, "message"), "error")
               /\ Returns("step", "error")
               /\ UNCHANGED <<held, finished>>
            \/ /\ co # Nil /\ ~Resumable(S, co)
               /\ L' = AfterResume(Push(S, co, "message"), co, "error")  \* resume_error
               /\ Returns("step", "error")
               /\ UNCHANGED <<held, finished>>
            \/ /\ co # Nil /\ Resumable(S, co)
               /\ \E T \in Touched(S, co) : \E R \in Resumed(T, co) :
                    LET status == R.status[co]
                    IN  /\ L' = AfterResume(R, co, status)
                        /\ Returns("step", status)
                        /\ finished' = IF status = "ok" THEN finished \cup {co} ELSE finished
               /\ held' \in SUBSET (held \cup {co})
     /\ UNCHANGED vm

Init ==
  /\ vm = "none" /\ held = {} /\ finished = {}
  /\ L = [stack |-> [t \in Threads \cup {Main} |-> <<>>], status |-> [t \in Threads |-> "ok"],
          error |-> Nil, program |-> Nil]
  /\ last = [call |-> "none", status |-> "ok"]

Next == LuawInit \/ LuawRun \/ LuawStart \/ LuawStep \/ OutOfMemory

Spec == Init /\ [][Next]_vars

-----------------------------------------------------------------------------
\* Properties

TypeOK ==
  /\ vm \in {"none", "open", "aborted"} /\ L \in State
  /\ held \subseteq Threads /\ finished \subseteq Threads
  /\ last \in [call : {"none", "init", "run", "start", "step"}, status : {"ok", "yield", "error"}]

\* Between entry calls nothing is left on the main stack, whatever path the
\* last one took: a value left once per frame would overflow it.
MainBalanced == L.stack[Main] = <<>>

\* luaw_last_error is of the last call (onelua.c:402): it is NULL exactly if
\* that call succeeded, so that no failure of an earlier chunk, program or
\* frame is taken for this one's.  (luaw_init has no message.)
LastError == IF vm = "none" THEN "message" ELSE L.error
ErrorReported ==
  (vm # "aborted" /\ last.call \in {"run", "start", "step"}) => (LastError # Nil <=> last.status = "error")

\* The status of a step tells the host what to do next (onelua.c:444): after
\* LUA_YIELD the program is there to be stepped again, and after any other
\* status there is none, also when other chunks have resumed or closed the
\* program between the frames.
StepTruthful ==
  last.call = "step" =>
    IF last.status = "yield" THEN L.program # Nil /\ L.status[L.program] = "yield"
    ELSE L.program = Nil

\* A program that could not be loaded does not replace the resident one, and
\* one that could starts from its beginning.
StartKeepsOrReplaces ==
  [][last'.call = "start" /\ vm' = "open" =>
       IF last'.status = "error" THEN L'.program = L.program
       ELSE /\ L'.program # L.program /\ L'.program \notin held
            /\ Resumable(L', L'.program) /\ L'.status[L'.program] = "ok"]_vars

\* A program that luaw_step reported as finished has finished: coroutine.status
\* does not take it for one "in its initial state" (lcorolib.c:127), and a
\* reference that Lua code kept cannot resume it.
FinishedIsDead == \A t \in finished \cap held : ~Resumable(L, t)
=============================================================================
