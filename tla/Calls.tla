------------------------------- MODULE Calls -------------------------------
(***************************************************************************)
(* Calls, errors, coroutines and to-be-closed variables (src/src/ldo.c,    *)
(* lfunc.c, lcorolib.c).                                                   *)
(*                                                                         *)
(* Lua functions call each other without using the C stack; C functions    *)
(* and metamethods recurse in it.  Errors and yields are C++ throws (or    *)
(* longjmps) that discard part of the C stack, so what was on it must be   *)
(* found again from the CallInfo list of the thread.  The model has both:  *)
(* ci, the list of each thread, and cstack, the C activations that matter: *)
(*   call    ccall(): runs luaV_execute from a fresh CallInfo              *)
(*   unroll  unroll(): runs luaV_execute for a resumed coroutine           *)
(*   close   luaF_close(): calls the __close methods down to a level       *)
(*   prot    luaD_rawrunprotected(), with who called it and what it saved  *)
(* A C function without activations of its own (coroutine.resume, pcall,   *)
(* table.sort) is the CallInfo on which the activation above it returns.   *)
(*                                                                         *)
(* Values are left out.  A position in a thread's Lua stack matters only   *)
(* by how many pending to-be-closed variables are below it, so it is that  *)
(* number: such a variable lives above another if it is later in tbclist.  *)
(***************************************************************************)
EXTENDS Naturals, Sequences, FiniteSets, SequencesExt

CONSTANTS
  Threads, MainThread,
  Variables,        \* to-be-closed variables that can be pending at a time (a bound)
  LUAI_MAXCCALLS,   \* limit of nested C calls
  ErrCcalls,        \* LUAI_MAXCCALLS / 10 * 11
  MaxFrames,        \* most CallInfos of each thread, __close calls not counted (a bound)
  Functions         \* C functions and operations that the programs use; "close main":
                    \* coroutine.close is called for the main thread too

None == "none"
CFunctions == {"pcall", "call", "resume", "wrap", "close"}

ASSUME CallsAssumption ==
  /\ MainThread \in Threads
  /\ None \notin Variables
  /\ LUAI_MAXCCALLS \in Nat /\ ErrCcalls \in Nat /\ MaxFrames \in [Threads -> Nat]
  /\ 1 < LUAI_MAXCCALLS /\ LUAI_MAXCCALLS < ErrCcalls
  /\ Functions \subseteq CFunctions \cup {"metamethod", "block", "close main"}

VARIABLES
  th,      \* the lua_States
  cstack,  \* the C stack, the embedder's part of it not counted
  mode     \* "run": luaV_execute or luaF_close goes on; "return": the topmost
           \* activation returns; "ERR", "YIELD": a throw with this status

vars == <<th, cstack, mode>>

\* CallInfo.  func: "lua" or the C function; of: the variable whose __close
\* method runs in it; op: the instruction that is closing variables down to
\* the level upto
CallInfo ==
  [func : {"lua", "yield"} \cup CFunctions, of : Variables \cup {None},
   level : Nat, fresh : BOOLEAN, op : {None, "close", "return"}, upto : Nat,
   ypcall : BOOLEAN, recst : {"OK", "ERR"}, old_errfunc : Nat]

\* lua_State.  nCcalls is kept as its two halves; errfunc is the index in ci
\* of the call whose handler it is, or 0; body: the function of a coroutine
\* waits to be started
LuaState ==
  [status : {"OK", "YIELD", "ERR"}, ci : Seq(CallInfo), tbclist : Seq(Variables),
   nCcalls : Nat, nny : Nat, errfunc : Nat, body : BOOLEAN]

NewThread == [status |-> "OK", ci |-> <<>>, tbclist |-> <<>>, nCcalls |-> 0, nny |-> 0,
              errfunc |-> 0, body |-> FALSE]

\* one record type for all activations: fields that one does not use are 0;
\* depth: how many CallInfos the thread had when the activation began
Activation ==
  [k : {"call", "unroll", "close", "prot"}, t : Threads,
   inc : {"none", "yieldable", "nyci"},                \* call
   level : Nat, status : {"OK", "ERR"}, yy : BOOLEAN,  \* close
   use : {None, "resume", "pcall", "closep"},          \* prot
   then : {None, "pcall", "close", "wrap"}, depth : Nat,
   nCcalls : Nat, nny : Nat, errfunc : Nat]

Blank(t) == [k |-> "unroll", t |-> t, inc |-> "none", level |-> 0, status |-> "OK",
             yy |-> FALSE, use |-> None, then |-> None, depth |-> 0, nCcalls |-> 0, nny |-> 0,
             errfunc |-> 0]

Top      == Last(cstack)
L        == Top.t                 \* the thread that runs
F        == Last(th[L].ci)        \* its current CallInfo
Level(t) == Len(th[t].tbclist)    \* the top of its stack

Yieldable(t) == th[t].nny = 0

-----------------------------------------------------------------------------
(* Steps on a machine state m = [th, cs, mode]; Go(m) moves to it *)

M      == [th |-> th, cs |-> cstack, mode |-> mode]
Go(m)  == th' = m.th /\ cstack' = m.cs /\ mode' = m.mode
In(m, md)     == [m EXCEPT !.mode = md]
PushC(m, a)   == [m EXCEPT !.cs = Append(@, a)]
PopC(m)       == [m EXCEPT !.cs = Front(@)]
Frame(func, level) ==
  [func |-> func, of |-> None, level |-> level, fresh |-> FALSE, op |-> None, upto |-> 0,
   ypcall |-> FALSE, recst |-> "OK", old_errfunc |-> 0]
PushCI(m, t, f) == [m EXCEPT !.th[t].ci = Append(@, f)]
PopCI(m, t)     == [m EXCEPT !.th[t].ci = Front(@)]   \* luaD_poscall
NewLevel(m, t)  == Len(m.th[t].tbclist)

\* ccall: a Lua function in a new luaV_execute; of: see CallInfo
Ccall(m, t, inc, of) ==
  LET n  == m.th[t].nCcalls + (IF inc = "none" THEN 0 ELSE 1)
      m1 == [m EXCEPT !.th[t].nCcalls = n,
                      !.th[t].nny = @ + (IF inc = "nyci" THEN 1 ELSE 0)]
      f  == [Frame("lua", NewLevel(m, t)) EXCEPT !.fresh = TRUE, !.of = of]
  IN  IF n = LUAI_MAXCCALLS \/ n >= ErrCcalls   \* luaE_checkcstack
      THEN In(m1, "ERR")
      ELSE In(PushC(PushCI(m1, t, f), [Blank(t) EXCEPT !.k = "call", !.inc = inc,
                                                       !.depth = Len(m.th[t].ci)]), "run")

\* ... and its return
EndCcall(m, t, inc) ==
  PopC([m EXCEPT !.th[t].nCcalls = @ - (IF inc = "none" THEN 0 ELSE 1),
                 !.th[t].nny = @ - (IF inc = "nyci" THEN 1 ELSE 0)])

\* luaD_rawrunprotected: what it saves, and what it restores
Protect(m, t, use) ==
  [Blank(t) EXCEPT !.k = "prot", !.use = use, !.depth = Len(m.th[t].ci),
                   !.level = NewLevel(m, t), !.nCcalls = m.th[t].nCcalls, !.nny = m.th[t].nny]
RestoreNothing(m, p) == m   \* mutant
Restore(m, p) ==
  [m EXCEPT !.th[p.t].nCcalls = p.nCcalls, !.th[p.t].nny = p.nny]

\* luaF_close
Close(m, t, level, status, yy) ==
  In(PushC(m, [Blank(t) EXCEPT !.k = "close", !.level = level, !.status = status, !.yy = yy,
                               !.depth = Len(m.th[t].ci)]), "run")

\* one turn of luaD_closeprotected, and what its caller is
CloseProtected(m, t, level, status, then, errfunc) ==
  LET p == [Protect(m, t, "closep") EXCEPT !.level = level, !.then = then, !.errfunc = errfunc]
  IN  Close(PushC(m, p), t, level, status, FALSE)

\* mutant: the status stays while __close methods run
ResetKeepsStatus(m, t, from, then) ==
  LET status == IF m.th[t].status = "ERR" THEN "ERR" ELSE "OK"
      m1     == [m EXCEPT !.th[t].nCcalls = m.th[from].nCcalls, !.th[t].nny = 0,
                          !.th[t].ci = <<>>, !.th[t].errfunc = 0, !.th[t].body = FALSE]
  IN  CloseProtected(m1, t, 0, status, then, 0)
\* mutant: protected in the calling thread
ResetInCaller(m, t, from, then) ==
  LET status == IF m.th[t].status = "ERR" THEN "ERR" ELSE "OK"
      m1     == [m EXCEPT !.th[t].nCcalls = m.th[from].nCcalls, !.th[t].nny = 0,
                          !.th[t].ci = <<>>, !.th[t].status = "OK", !.th[t].errfunc = 0,
                          !.th[t].body = FALSE]
  IN  Close(PushC(m1, [Protect(m1, from, "closep") EXCEPT !.then = then]), t, 0, status, FALSE)
\* luaE_resetthread called by lua_closethread in thread 'from'
ResetThread(m, t, from, then) ==
  LET status == IF m.th[t].status = "ERR" THEN "ERR" ELSE "OK"
      m1     == [m EXCEPT !.th[t].nCcalls = m.th[from].nCcalls, !.th[t].nny = 0,
                          !.th[t].ci = <<>>, !.th[t].status = "OK", !.th[t].errfunc = 0,
                          !.th[t].body = FALSE]
  IN  CloseProtected(m1, t, 0, status, then, 0)

-----------------------------------------------------------------------------
(* What a Lua function can do *)

LuaRuns    == cstack # <<>> /\ mode = "run" /\ Top.k \in {"call", "unroll"} /\ F.func = "lua"
MayAct     == LuaRuns /\ F.op = None
CanPush(n) == Len(th[L].ci) + n <= MaxFrames[L]
Uses(func) == MayAct /\ func \in Functions

\* OP_CALL of a Lua function: it runs in the same luaV_execute
CallLua ==
  /\ MayAct /\ CanPush(1)
  /\ Go(PushCI(M, L, Frame("lua", Level(L))))

\* an instruction that calls a metamethod (luaT_callTMres)
CallMetamethod ==
  /\ Uses("metamethod") /\ CanPush(1)
  /\ Go(Ccall(M, L, "yieldable", None))

\* a C function that calls back with lua_call: table.sort, string.gsub
CallBackYields ==   \* mutant: luaD_call for luaD_callnoyield
  /\ Uses("call") /\ CanPush(2)
  /\ Go(Ccall(PushCI(M, L, Frame("call", Level(L))), L, "yieldable", None))
CallBack ==
  /\ Uses("call") /\ CanPush(2)
  /\ Go(Ccall(PushCI(M, L, Frame("call", Level(L))), L, "nyci", None))

\* xpcall: lua_pcallk with a continuation, and luaD_pcall when no yield can
\* happen anyway
PCall ==
  LET n  == Len(th[L].ci) + 1
      f  == Frame("pcall", Level(L))
      m  == PushCI(M, L, f)
      my == PushCI(M, L, [f EXCEPT !.ypcall = TRUE, !.old_errfunc = th[L].errfunc])
      p  == [Protect(m, L, "pcall") EXCEPT !.errfunc = th[L].errfunc]
  IN  /\ Uses("pcall") /\ CanPush(2)
      /\ IF Yieldable(L)
         THEN Go(Ccall([my EXCEPT !.th[L].errfunc = n], L, "yieldable", None))
         ELSE Go(Ccall(PushC([m EXCEPT !.th[L].errfunc = n], p), L, "nyci", None))

\* error, or any operation that fails
Error ==
  /\ MayAct
  /\ Go(In(M, "ERR"))

\* local v <close> = ...: luaF_newtbcupval
NewTbc(v) ==
  /\ MayAct
  /\ \A t \in Threads : v \notin ToSet(th[t].tbclist)
                        /\ \A i \in DOMAIN th[t].ci : th[t].ci[i].of # v
  /\ Go([M EXCEPT !.th[L].tbclist = Append(@, v)])

\* OP_CLOSE: the end of the block of the last variable
EndBlock ==
  /\ Uses("block") /\ Level(L) > F.level
  /\ Go([M EXCEPT !.th[L].ci[Len(th[L].ci)].op = "close",
                  !.th[L].ci[Len(th[L].ci)].upto = Level(L) - 1])

\* OP_RETURN
Return ==
  /\ MayAct
  /\ Go([M EXCEPT !.th[L].ci[Len(th[L].ci)].op = "return",
                  !.th[L].ci[Len(th[L].ci)].upto = F.level])

\* OP_CLOSE and OP_RETURN close variables; after a yield in one of the
\* __close methods luaV_finishOp repeats the instruction for the others
CloseVariables ==
  /\ LuaRuns /\ F.op # None /\ Level(L) > F.upto
  /\ Go(Close(M, L, F.upto, "OK", TRUE))

\* ... and then go on: a fresh luaV_execute returns to its caller
FinishOp ==
  /\ LuaRuns /\ F.op # None /\ Level(L) <= F.upto
  /\ IF F.op = "close"
     THEN Go([M EXCEPT !.th[L].ci[Len(th[L].ci)].op = None,
                       !.th[L].ci[Len(th[L].ci)].upto = 0])
     ELSE Go(In(PopCI(M, L), IF F.fresh THEN "return" ELSE "run"))

-----------------------------------------------------------------------------
(* Coroutines *)

\* coroutine.create; the slot of a dead coroutine may be used again
Create(t) ==
  /\ MayAct /\ t # MainThread /\ ~ \E i \in DOMAIN cstack : cstack[i].t = t
  /\ th[t].status # "YIELD" /\ ~th[t].body
  /\ Go([M EXCEPT !.th[t] = [NewThread EXCEPT !.body = TRUE]])

\* lua_status and lua_getstack as auxstatus uses them
AuxStatus(t) ==
  IF t = L THEN "running"
  ELSE IF th[t].status = "YIELD" THEN "suspended"
  ELSE IF th[t].status = "OK"
       THEN IF th[t].ci # <<>> THEN "normal"
            ELSE IF th[t].body THEN "suspended" ELSE "dead"
  ELSE "dead"

\* lua_resume of a thread that can be resumed; m: the state it is called in
ResumeThread(m, t, nCcalls) ==
  LET m1 == [m EXCEPT !.th[t].nCcalls = nCcalls + 1, !.th[t].nny = 0]
      m2 == PushC(m1, Protect(m1, t, "resume"))
  IN  IF th[t].status = "OK"
      THEN Ccall([m2 EXCEPT !.th[t].body = FALSE], t, "none", None)
      ELSE In(PushC(PopCI([m2 EXCEPT !.th[t].status = "OK"], t), Blank(t)), "return")

\* coroutine.resume, and the function that coroutine.wrap returns, when they
\* do not fail at once
Resume(t, func) ==
  /\ Uses(func) /\ CanPush(1)
  /\ AuxStatus(t) = "suspended" /\ th[L].nCcalls < LUAI_MAXCCALLS
  /\ Go(ResumeThread(PushCI(M, L, Frame(func, Level(L))), t, th[L].nCcalls))

\* coroutine.yield where that is allowed; elsewhere it is an Error
Yield ==
  /\ MayAct /\ Yieldable(L)
  /\ Go(In(PushCI([M EXCEPT !.th[L].status = "YIELD"], L, Frame("yield", Level(L))), "YIELD"))

\* coroutine.close
CloseCoroutine(t) ==
  /\ Uses("close") /\ CanPush(1)
  /\ AuxStatus(t) \in {"suspended", "dead"}
  /\ t = MainThread => "close main" \in Functions
  /\ Go(ResetThread(PushCI(M, L, Frame("close", Level(L))), t, L, "close"))

-----------------------------------------------------------------------------
(* What goes on by itself *)

At(k, md) == cstack # <<>> /\ mode = md /\ Top.k = k
Below     == cstack[Len(cstack) - 1]   \* the activation that called the topmost one

\* luaF_close: the variable leaves the list before its method is called
CloseNextKeeps ==   \* mutant: poptbclist forgotten
  /\ At("close", "run") /\ Level(L) > Top.level
  /\ Go(Ccall(M, L, IF Top.yy THEN "yieldable" ELSE "nyci", Last(th[L].tbclist)))
CloseNext ==
  /\ At("close", "run") /\ Level(L) > Top.level
  /\ Go(Ccall([M EXCEPT !.th[L].tbclist = Front(@)], L,
              IF Top.yy THEN "yieldable" ELSE "nyci", Last(th[L].tbclist)))

\* lua_pcallk and finishpcallk are done, and so is their C function
EndPcallk(m, t) == PopCI([m EXCEPT !.th[t].errfunc = Last(m.th[t].ci).old_errfunc], t)

\* luaD_pcall is done; its C function is too, unless the embedder called it
EndPcallStale(m, p) ==   \* mutant
  In(IF m.th[p.t].ci = <<>> THEN m ELSE PopCI(m, p.t), "run")
EndPcall(m, p) ==
  LET m1 == [m EXCEPT !.th[p.t].errfunc = p.errfunc]
  IN  In(IF m1.th[p.t].ci = <<>> THEN m1 ELSE PopCI(m1, p.t), "run")

\* luaE_resetthread is done: auxwrap passes the error on
EndReset(m, p) ==
  IF p.then = "wrap" THEN In(m, "ERR") ELSE In(PopCI(m, Last(m.cs).t), "run")

\* the end of luaF_close in OP_CLOSE or OP_RETURN, ...
CloseEnds == At("close", "run") /\ Level(L) <= Top.level /\ Below.k # "prot"
EndOpClose == CloseEnds /\ F.func = "lua" /\ Go(PopC(M))
\* ... in finishpcallk, ...
EndFinishpcallk == CloseEnds /\ F.func = "pcall" /\ Go(In(EndPcallk(PopC(M), L), "return"))
\* ... and in luaD_closeprotected
EndCloseProtected ==
  LET m == PopC(Restore(PopC(M), Below))
  IN  /\ At("close", "run") /\ Level(L) <= Top.level /\ Below.k = "prot"
      /\ Go(IF Below.then = "pcall" THEN EndPcall(m, Below) ELSE EndReset(m, Below))

\* luaV_execute returned to ccall, called by luaF_close, ...
Called(m) == EndCcall(m, L, Top.inc)
ReturnToClose == At("call", "return") /\ Below.k = "close" /\ Go(In(Called(M), "run"))
\* ... by luaD_rawrunprotected, ...
ReturnToProt == At("call", "return") /\ Below.k = "prot" /\ Go(Called(M))
\* ... by an instruction, for a metamethod, ...
ReturnToLua ==
  /\ At("call", "return") /\ Below.k \in {"call", "unroll"} /\ F.func = "lua"
  /\ Go(In(Called(M), "run"))
\* ... or by a C function, which returns
ReturnToC ==
  /\ At("call", "return") /\ Below.k \in {"call", "unroll"} /\ F.func # "lua"
  /\ Go(In(IF F.func = "pcall" THEN EndPcallk(Called(M), L) ELSE PopCI(Called(M), L), "run"))

\* unroll: nothing is left of the coroutine, ...
UnrollEnd == At("unroll", "return") /\ th[L].ci = <<>> /\ Go(PopC(M))
\* ... or luaV_finishOp and luaV_execute, ...
UnrollLua == At("unroll", "return") /\ th[L].ci # <<>> /\ F.func = "lua" /\ Go(In(M, "run"))
\* ... or finishCcall: a C function with a continuation
UnrollNoClose ==   \* mutant: finishpcallk does not close variables
  /\ At("unroll", "return") /\ th[L].ci # <<>> /\ F.func # "lua"
  /\ Go(EndPcallk(M, L))
UnrollC ==
  /\ At("unroll", "return") /\ th[L].ci # <<>> /\ F.func # "lua"
  /\ Go(IF F.recst # "OK" THEN Close(M, L, F.level, F.recst, TRUE) ELSE EndPcallk(M, L))

\* what lua_resume's caller does with the outcome: coroutine.resume returns
\* it; auxwrap closes a coroutine that failed and passes the error on
Resumed(m, t, status) ==
  IF m.cs = <<>> THEN In(m, "run")
  ELSE LET from == Last(m.cs).t
           func == Last(m.th[from].ci).func
       IN  IF func = "wrap" /\ status = "ERR" THEN ResetThread(m, t, from, "wrap")
           ELSE In(PopCI(m, from), "run")

\* a protected function returned normally
ProtReturns ==
  LET p == Top
      m == PopC(Restore(M, p))
  IN  /\ At("prot", "return")
      /\ Go(IF p.use = "resume" THEN Resumed(m, p.t, "OK") ELSE EndPcall(m, p))

\* A throw reaches the innermost luaD_rawrunprotected of the thread.
Handler == CHOOSE i \in DOMAIN cstack :
             /\ cstack[i].k = "prot" /\ cstack[i].t = L
             /\ \A j \in i+1 .. Len(cstack) : ~(cstack[j].k = "prot" /\ cstack[j].t = L)
Caught(p) ==
  Restore([M EXCEPT !.cs = SubSeq(@, 1, Handler - 1)], p)

\* ... of lua_resume: a yield ends it, an error is for precover
CatchYield ==
  /\ mode = "YIELD" /\ cstack[Handler].use = "resume"
  /\ Go(Resumed(Caught(cstack[Handler]), L, "YIELD"))

\* findpcall: the last CallInfo marked CIST_YPCALL, or 0
FirstPcall(ci) ==   \* mutant: the outermost one
  LET I == {i \in DOMAIN ci : ci[i].ypcall}
  IN  IF I = {} THEN 0 ELSE CHOOSE i \in I : \A j \in I : i <= j
FindPcall(ci) ==
  LET I == {i \in DOMAIN ci : ci[i].ypcall}
  IN  IF I = {} THEN 0 ELSE CHOOSE i \in I : \A j \in I : j <= i

Precover ==
  LET p == cstack[Handler]
      m == Caught(p)
      i == FindPcall(th[L].ci)
  IN  /\ mode = "ERR" /\ p.use = "resume"
      /\ IF i # 0
         THEN Go(In(PushC(PushC([m EXCEPT !.th[L].ci = SubSeq(@, 1, i),
                                          !.th[L].ci[i].recst = "ERR"], p), Blank(L)), "return"))
         ELSE Go(Resumed([m EXCEPT !.th[L].status = "ERR"], L, "ERR"))

\* ... of luaD_pcall, or of luaD_closeprotected, which tries again
CatchError ==
  LET p == cstack[Handler]
      m == [Caught(p) EXCEPT !.th[L].ci = SubSeq(@, 1, p.depth)]
  IN  /\ mode = "ERR" /\ p.use \in {"pcall", "closep"}
      /\ Go(CloseProtected(m, L, p.level, "ERR",
                           IF p.use = "pcall" THEN "pcall" ELSE p.then, p.errfunc))

-----------------------------------------------------------------------------
(* The embedder: luaw_run calls a function in the main thread, luaw_step   *)
(* resumes a coroutine from it                                             *)

HostCall ==
  /\ cstack = <<>>
  /\ Go(Ccall(PushC(M, Protect(M, MainThread, "pcall")), MainThread, "nyci", None))
HostResume(t) ==
  /\ cstack = <<>> /\ t # MainThread
  /\ th[t].status = "YIELD" \/ th[t].body
  /\ th[MainThread].nCcalls < LUAI_MAXCCALLS
  /\ Go(ResumeThread(M, t, th[MainThread].nCcalls))

Init ==
  /\ th = [t \in Threads |-> IF t = MainThread THEN [NewThread EXCEPT !.nny = 1] ELSE NewThread]
  /\ cstack = <<>> /\ mode = "run"

Program ==
  \/ CallLua \/ CallMetamethod \/ CallBack \/ PCall \/ Error \/ EndBlock \/ Return \/ Yield
  \/ \E v \in Variables : NewTbc(v)
  \/ \E t \in Threads : \/ Create(t) \/ CloseCoroutine(t)
                        \/ \E func \in {"resume", "wrap"} : Resume(t, func)
Machine ==
  \/ CloseVariables \/ FinishOp \/ CloseNext \/ EndOpClose \/ EndFinishpcallk
  \/ EndCloseProtected \/ ReturnToClose \/ ReturnToProt \/ ReturnToLua \/ ReturnToC
  \/ UnrollEnd \/ UnrollLua \/ UnrollC \/ ProtReturns \/ CatchYield \/ Precover \/ CatchError
Host == HostCall \/ \E t \in Threads : HostResume(t)

Next == Program \/ Machine \/ Host
Spec == Init /\ [][Next]_vars

-----------------------------------------------------------------------------
(* Properties *)

\* The type invariant of the lua_States and of the C stack.
TypeOK ==
  /\ th \in [Threads -> LuaState]
  /\ cstack \in Seq(Activation)
  /\ mode \in {"run", "return", "ERR", "YIELD"}

Chain    == {cstack[i].t : i \in DOMAIN cstack}   \* running, and waiting for it
Deepest(t) == CHOOSE i \in DOMAIN cstack :
                cstack[i].t = t /\ \A j \in i+1 .. Len(cstack) : cstack[j].t # t
Counts(a) == \/ a.k = "call" /\ a.inc # "none"
             \/ a.k = "prot" /\ a.use = "resume"
Innermost(t) ==   \* the last protected call of t, or 0
  LET I == {i \in DOMAIN th[t].ci : th[t].ci[i].func = "pcall"}
  IN  IF I = {} THEN 0 ELSE CHOOSE i \in I : \A j \in I : j <= i

\* nCcalls of every thread that runs or waits is the number of nested C calls
\* below it, and of those that cannot yield, whatever errors and yields cut
\* through the C stack before.
CallsCounted ==
  mode \in {"run", "return"} =>
    \A t \in Chain \cup {MainThread} :
      LET n == IF t \in Chain THEN Deepest(t) ELSE 0
      IN  /\ th[t].nCcalls = Cardinality({i \in 1 .. n : Counts(cstack[i])})
          /\ th[t].nny = Cardinality({i \in 1 .. n : cstack[i].t = t /\ cstack[i].inc = "nyci"})
                         + (IF t = MainThread THEN 1 ELSE 0)

\* A yield discards only C activations that can be redone: where it is
\* allowed, nothing but lua_resume has caught throws since the coroutine was
\* resumed, and every C function in between has a continuation.
Continues(f) == f.func = "lua" \/ (f.func = "pcall" /\ f.ypcall)
YieldSafe ==
  /\ LuaRuns /\ Yieldable(L) => /\ cstack[Handler].use = "resume"
                               /\ \A i \in DOMAIN th[L].ci : Continues(th[L].ci[i])
  /\ \A t \in DOMAIN th : th[t].status = "YIELD" /\ mode # "YIELD" =>
       /\ t \notin Chain /\ Last(th[t].ci).func = "yield"
       /\ \A i \in 1 .. Len(th[t].ci) - 1 : Continues(th[t].ci[i])

\* coroutine.status tells the truth of every coroutine.
StatusTrue ==
  LuaRuns => \A t \in DOMAIN th \ {MainThread} :
    AuxStatus(t) =
      IF t = L THEN "running"
      ELSE IF t \in Chain THEN "normal"
      ELSE IF th[t].body \/ (th[t].ci # <<>> /\ Last(th[t].ci).func = "yield") THEN "suspended"
      ELSE "dead"

\* The message handler in force is that of the innermost xpcall.
HandlerInForce == LuaRuns => th[L].errfunc = Innermost(L)

\* Where a throw ends does not depend on how it is built: luaD_throw means the
\* handler in errorJmp of its thread, and reaches that one with longjmp; the
\* C++ build of lua.wasm reaches the innermost try block of the C stack.  They
\* are the same activation.
SameHandler ==
  mode \in {"ERR", "YIELD"} =>
    \E i \in DOMAIN cstack : /\ cstack[i].k = "prot" /\ cstack[i].t = L
                            /\ \A j \in i+1 .. Len(cstack) : cstack[j].k # "prot"

\* A variable whose __close method runs is no longer pending, so that an error
\* or a yield in it does not close it again; only a coroutine that failed
\* keeps variables pending after its end.
ClosedOnce ==
  /\ \A t, u \in DOMAIN th : \A i \in DOMAIN th[t].ci : th[t].ci[i].of \notin ToSet(th[u].tbclist)
  /\ \A t \in DOMAIN th \ Chain :
       th[t].status = "OK" /\ th[t].ci = <<>> => th[t].tbclist = <<>>

\* An error in a protected call goes no further than the innermost one,
\* whether a C activation catches it or precover finds it.
ErrorsCaught ==
  [][mode = "ERR" /\ Innermost(L) # 0 => Len(th'[L].ci) = Innermost(L)]_vars

\* A function that returns, and a protected call that ends with an error,
\* leave none of their variables pending.
ClosedOnExit ==
  [][cstack # <<>> /\ mode # "ERR" /\ th[L].ci # <<>> /\ th'[L].ci = Front(th[L].ci) =>
       Len(th'[L].tbclist) <= F.level]_vars
=============================================================================
