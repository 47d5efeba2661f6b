------------------------------- MODULE Stack -------------------------------
(***************************************************************************)
(* The size of a thread's stack (ldo.c): how it grows, overflows and is    *)
(* given back, while functions, metamethods and message handlers are       *)
(* called and errors are caught.  A slot holds nothing here and a pointer  *)
(* is an index, which survives the stack's moves.                          *)
(***************************************************************************)
EXTENDS Naturals, Sequences, FiniteSets, FiniteSetsExt, SequencesExt

CONSTANTS
  StackLimit,      \* LUAI_MAXSTACK
  ErrorSpace,      \* the 200 of ERRORSTACKSIZE
  ExtraStack,      \* EXTRA_STACK
  MinStack,        \* LUA_MINSTACK
  FrameSizes,      \* what functions ask for
  MaxCalls         \* LUAI_MAXCCALLS; LUAI_MAXCCALLS / 10 * 11 is MaxCalls + 3 here

ASSUME StackAssumption ==
  {StackLimit, ErrorSpace, ExtraStack, MinStack, MaxCalls} \cup FrameSizes \subseteq Nat

ErrorStackSize == StackLimit + ErrorSpace

VARIABLE thr
\* thr: the stack's size (EXTRA_STACK excluded), top, func and top of each
\* active function's CallInfo and what it is; the protected calls, from the first;
\* mode: "run", "raise" an error, "throw" it; ccover: the call beyond
\* MaxCalls has failed; and what the code does not keep: over, how many functions were
\* active when the stack overflowed (0: no overflow is being handled), and
\* kept: the space for errors is there although no error needs it

-----------------------------------------------------------------------------
\* ok: the allocation succeeds
ReallocStack(t, newsize, ok) ==
  IF ok THEN [t EXCEPT !.size = newsize, !.kept = @ /\ newsize > StackLimit] ELSE t

Raise(t)  == [t EXCEPT !.mode = "raise"]
Throw(t)  == [t EXCEPT !.mode = "throw"]                      \* luaD_throw
ErrErr(t) == Throw([t EXCEPT !.top = @ + 1])

\* the thread afterwards, and whether there is room
GrowStack(t, n, raise, ok) ==
  LET newsize == Max({Min({2 * t.size, StackLimit}), t.top + n})
      larger  == ReallocStack(t, ErrorStackSize, ok)
  IN  CASE t.size > StackLimit -> <<IF raise THEN ErrErr(t) ELSE t, FALSE>>
        [] t.size <= StackLimit /\ n < StackLimit /\ newsize <= StackLimit ->
             <<IF raise /\ ~ok THEN Throw(t) ELSE ReallocStack(t, newsize, ok), ok>>
        [] OTHER -> <<IF ~raise THEN [larger EXCEPT !.kept = ok]
                      ELSE IF ok THEN Raise([larger EXCEPT !.over = Len(t.frames)]) ELSE Throw(t), FALSE>>
CheckStack(t, n, raise, ok) == IF t.size - t.top <= n THEN GrowStack(t, n, raise, ok) ELSE <<t, TRUE>>

StackInUse(t) == Max({MinStack, t.top + 1} \cup {t.frames[i].top + 1 : i \in DOMAIN t.frames})
ShrinkStack(t, ok) ==
  LET inuse == StackInUse(t)
      max   == IF inuse > StackLimit \div 3 THEN StackLimit ELSE inuse * 3
      nsize == IF inuse > StackLimit \div 2 THEN StackLimit ELSE inuse * 2
      k     == IF inuse <= StackLimit /\ t.size > max THEN ReallocStack(t, nsize, ok) ELSE t
  IN  [k EXCEPT !.kept = k.size > StackLimit /\ (@ \/ ~ok \/ inuse > StackLimit)]

\* luaD_precall: func and its n - 1 arguments are on the top; okci: luaE_extendCI succeeds
Precall(t, n, fsize, is, ok, okci) ==
  LET c == CheckStack(t, fsize, TRUE, ok)
      k == c[1]
  IN  IF ~c[2] THEN k
      ELSE IF ~okci THEN Throw(k)
      ELSE [k EXCEPT !.frames = Append(@, [func |-> k.top - n, top |-> k.top + fsize, is |-> is]), !.mode = "run"]

\* ccall.  The call beyond MaxCalls fails; those made to handle its error do
\* not, but for one too many.  The check of the stack frees the use of EXTRA_STACK.
Ccall(t, n, fsize, is, ok, okci) ==
  LET calls == Len(t.frames) + IF t.ccover THEN 2 ELSE 1
      c     == CheckStack(t, 0, TRUE, ok)
  IN  IF calls <= MaxCalls THEN Precall(t, n, fsize, is, ok, okci)
      ELSE IF ~c[2] THEN c[1]
      ELSE IF calls = MaxCalls + 1 THEN Raise([c[1] EXCEPT !.ccover = TRUE])
      ELSE IF calls > MaxCalls + 2 THEN ErrErr(c[1])
      ELSE Precall(c[1], n, fsize, is, ok, okci)

-----------------------------------------------------------------------------
Frame   == Last(thr.frames)        \* L->ci
Running == thr.mode = "run"
HasFunction == thr.top - 1 > Frame.func

\* the function running uses its frame
Fill == Running /\ thr.top < Frame.top /\ thr' = [thr EXCEPT !.top = Frame.top]

\* lua_checkstack
Check(n, ok) ==
  /\ Running
  /\ LET c == CheckStack(thr, n, FALSE, ok)
         New(ci) == [ci EXCEPT !.top = Max({@, c[1].top + n})]
     IN  thr' = IF c[2] THEN [c[1] EXCEPT !.frames = Append(Front(@), New(Last(@)))] ELSE c[1]

\* the function on the top, with no arguments
CallFunction(fsize, ok, okci) == Running /\ HasFunction /\ thr' = Ccall(thr, 1, fsize, "function", ok, okci)

\* luaT_callTM: the metamethod and its arguments go on the top unchecked
CallTM(fsize, ok, okci) ==
  Running /\ thr' = Ccall([thr EXCEPT !.top = @ + 4], 4, fsize, "metamethod", ok, okci)

\* luaD_pcall of the function on the top; errfunc: with a message handler
PCall(errfunc, fsize, ok, okci) ==
  /\ Running /\ HasFunction /\ Len(thr.pcalls) < 2
  /\ LET rec == [frames |-> Len(thr.frames), oldtop |-> thr.top - 1, errfunc |-> errfunc, ccover |-> thr.ccover]
     IN  thr' = Ccall([thr EXCEPT !.pcalls = Append(@, rec)], 1, fsize, "function", ok, okci)

\* luaD_poscall with one result, which a metamethod's caller takes away;
\* luaG_errormsg throws what a handler returns
Return ==
  /\ Running /\ Len(thr.frames) > 1
  /\ LET n == Len(thr.frames) - 1
         k == [thr EXCEPT !.frames = Front(@), !.top = IF Frame.is = "metamethod" THEN Frame.func ELSE Frame.func + 1,
                          !.pcalls = IF Len(@) > 1 /\ Last(@).frames = n THEN Front(@) ELSE @]
     IN  thr' = IF Frame.is = "handler" THEN Throw(k) ELSE k

Error == Running /\ thr' = Raise(thr)

\* luaG_runerror and luaG_errormsg: the message, then the handler below it
ErrorMsg(fsize, ok, okci) ==
  /\ thr.mode = "raise"
  /\ thr' = IF Last(thr.pcalls).errfunc THEN Ccall([thr EXCEPT !.top = @ + 2], 2, fsize, "handler", ok, okci)
            ELSE Throw([thr EXCEPT !.top = @ + 1])

\* luaD_pcall after a throw: luaD_seterrorobj, luaD_shrinkstack
Catch(ok) ==
  /\ thr.mode = "throw"
  /\ LET rec == Last(thr.pcalls)
         k   == [thr EXCEPT !.frames = SubSeq(@, 1, rec.frames), !.top = rec.oldtop + 1, !.mode = "run",
                            !.ccover = rec.ccover, !.over = IF rec.frames <= @ THEN 0 ELSE @,
                            !.pcalls = IF Len(@) > 1 THEN Front(@) ELSE @]
     IN  thr' = ShrinkStack(k, ok)

\* traversethread in a collection, which may also come before an error message
CollectStack(ok) == thr.mode \in {"run", "raise"} /\ thr' = ShrinkStack(thr, ok)

\* stack_init; the host runs everything in a protected call
StackInit ==
  \E errfunc \in BOOLEAN :
    thr = [size |-> 2 * MinStack, top |-> 1, frames |-> <<[func |-> 0, top |-> 1 + MinStack, is |-> "function"]>>,
           pcalls |-> <<[frames |-> 1, oldtop |-> 1, errfunc |-> errfunc, ccover |-> FALSE]>>,
           mode |-> "run", ccover |-> FALSE, over |-> 0, kept |-> FALSE]

StackNext ==
  \/ Fill \/ Return \/ Error
  \/ \E ok \in BOOLEAN :
       \/ \E n \in FrameSizes \cup {StackLimit} : Check(n, ok)
       \/ Catch(ok) \/ CollectStack(ok)
       \/ \E okci \in BOOLEAN, fsize \in FrameSizes :
            \/ CallFunction(fsize, ok, okci) \/ CallTM(fsize, ok, okci) \/ ErrorMsg(fsize, ok, okci)
            \/ \E errfunc \in BOOLEAN : PCall(errfunc, fsize, ok, okci)

\* Whatever is called and fails: no push goes past EXTRA_STACK, no frame past the
\* stack, and the space for errors is there only while an overflow is handled
\* (ldo.c:251), unless a refused lua_checkstack or a failed shrinking left it.
StackSound ==
  /\ thr.top <= thr.size + ExtraStack
  /\ \A i \in DOMAIN thr.frames : thr.frames[i].top <= thr.size
  /\ Running => thr.top <= Frame.top
  /\ thr.size <= StackLimit \/ (thr.size = ErrorStackSize /\ (thr.over # 0 \/ thr.kept))
=============================================================================
