----------------------------------- MODULE VM -----------------------------------
(***************************************************************************)
(* The instructions of the virtual machine (lvm.c) with the calls, returns, *)
(* variable arguments and upvalues they use (ldo.c, ltm.c, lfunc.c), one    *)
(* instruction a step, over the stack that all frames share.                *)
(***************************************************************************)
EXTENDS Parser

CONSTANT StackSize

VARIABLE m    \* the machine

(***************************************************************************)
(* stack: slots 0 .. StackSize - 1; top: L->top, after results of unknown   *)
(* number; frames: the CallInfo list, from the first; cells: every UpVal,   *)
(* open (at a slot) or closed; tbc: slots to close; tabs, fns: tables and   *)
(* closures; trace: what the host has seen.                                 *)
(***************************************************************************)
Frame  == Last(m.frames)
P      == m.fns[Frame.cl].p
I      == P.code[Frame.pc + 1]
R(r)   == m.stack[Frame.base + r]
K(i)   == P.k[i + 1]
Cell(u) == m.fns[Frame.cl].ups[u + 1]
RK(c)  == IF I.k = 1 THEN K(c) ELSE R(c)

Running(ops) == m.status = "run" /\ (m.status = "run" => I.op \in ops)

\* the machine past the instruction, and on from there
N          == [m EXCEPT !.frames[Len(m.frames)].pc = @ + 1]
Move(x, d) == [x EXCEPT !.frames[Len(x.frames)].pc = @ + d]
Put(x, r, v)   == [x EXCEPT !.stack[Frame.base + r] = v]
Halt(x)        == [x EXCEPT !.status = "error"]
PutOrHalt(x, r, v) == IF v = Err THEN Halt(x) ELSE Put(x, r, v)

UpVal(x, c) == IF x.cells[c].open THEN x.stack[x.cells[c].at] ELSE x.cells[c].v
SetUp(x, c, v) == IF x.cells[c].open THEN [x EXCEPT !.stack[x.cells[c].at] = v]
                  ELSE [x EXCEPT !.cells[c].v = v]

GetTable(t, k)    == IF t.t # "table" THEN Err ELSE RawGet(m.tabs[t.id], k)
SetTable(x, t, k, v) == IF t.t # "table" \/ k = NilVal THEN Halt(x)
                        ELSE [x EXCEPT !.tabs[t.id] = RawSet(@, k, v)]

-----------------------------------------------------------------------------
\* luaF_findupval: <<machine, the cell of a slot>>
FindUpval(x, slot) ==
  LET open == {c \in DOMAIN x.cells : x.cells[c].open /\ x.cells[c].at = slot}
  IN  IF open # {} THEN <<x, Min(open)>>
      ELSE <<[x EXCEPT !.cells = Append(@, [open |-> TRUE, at |-> slot, v |-> NilVal])], Len(x.cells) + 1>>

CloseUpval(x, level) ==
  [x EXCEPT !.cells = [c \in DOMAIN @ |->
     IF @[c].open /\ @[c].at >= level THEN [@[c] EXCEPT !.open = FALSE, !.v = x.stack[x.cells[c].at]] ELSE @[c]]]

\* luaF_close: the pending variables from the last one, then the upvalues
CloseFrom(x, level) ==
  LET here == SelectSeq(x.tbc, LAMBDA s : s >= level)
      seen == [i \in DOMAIN here |-> <<"close", x.stack[Reverse(here)[i]]>>]
  IN  CloseUpval([x EXCEPT !.trace = @ \o seen, !.tbc = SelectSeq(@, LAMBDA s : s < level)], level)

\* luaF_newtbcupval
NewTbc(x, slot) ==
  LET v == x.stack[slot]
  IN  IF IsFalse(v) THEN x ELSE IF v.t # "obj" THEN Halt(x) ELSE [x EXCEPT !.tbc = Append(@, slot)]

\* moveresults: all of them set the top
MoveResults(x, res, vals, wanted) ==
  LET n == IF wanted = MultRet THEN Len(vals) ELSE wanted
      V(i) == IF i <= Len(vals) THEN vals[i] ELSE NilVal
  IN  IF res + n > StackSize THEN Halt(x)
      ELSE [x EXCEPT !.stack = [s \in DOMAIN @ |-> IF s \in res .. res + n - 1 THEN V(s - res + 1) ELSE @[s]],
                     !.top = IF wanted = MultRet THEN res + n ELSE @]

Slots(x, from, n) == [i \in 1 .. n |-> x.stack[from + i - 1]]

\* luaD_precall: a host function runs at once, a closure gets a frame with its
\* missing parameters set to nil
Call(x, func, nargs, nresults) ==
  LET f == x.stack[func]
      args == Slots(x, func + 1, nargs)
      p == x.fns[f.id].p
      n == Max({nargs, p.numparams})
      y == MoveResults(x, func + 1, args, n)
  IN  CASE f.t = "c" -> MoveResults([x EXCEPT !.trace = @ \o Traced(f.s, args)], func,
                                    External(f.s, args), nresults)
        [] f.t = "fn" -> IF func + 1 + Max({n, p.maxstack}) > StackSize THEN Halt(x)
                         ELSE [y EXCEPT !.top = func + 1 + n,
                                 !.frames = Append(@, [cl |-> f.id, pc |-> 0, base |-> func + 1,
                                                       nresults |-> nresults, nextra |-> 0])]
        [] OTHER -> Halt(x)

\* luaD_poscall: the first frame's results end the run
Return(x, func, vals) ==
  LET wanted == Last(x.frames).nresults
      y == [x EXCEPT !.frames = Front(@)]
  IN  IF y.frames = <<>>
      THEN [y EXCEPT !.status = "done", !.trace = Append(@, <<"return">> \o [i \in DOMAIN vals |-> Shown(vals[i])])]
      ELSE MoveResults(y, func, vals, wanted)

-----------------------------------------------------------------------------
LoadValue ==
  /\ Running({"MOVE", "LOADI", "LOADK", "LOADNIL", "LOADTRUE", "LOADFALSE", "LFALSESKIP", "GETUPVAL",
              "SETUPVAL"})
  /\ m' = CASE I.op = "MOVE"      -> Put(N, I.a, R(I.b))
            [] I.op = "LOADI"     -> Put(N, I.a, IntVal(I.b))
            [] I.op = "LOADK"     -> Put(N, I.a, K(I.b))
            [] I.op = "LOADTRUE"  -> Put(N, I.a, True)
            [] I.op = "LOADFALSE" -> Put(N, I.a, False)
            [] I.op = "LFALSESKIP" -> Put(Move(N, 1), I.a, False)
            [] I.op = "LOADNIL"   -> MoveResults(N, Frame.base + I.a, <<>>, I.b + 1)
            [] I.op = "GETUPVAL"  -> Put(N, I.a, UpVal(m, Cell(I.b)))
            [] I.op = "SETUPVAL"  -> SetUp(N, Cell(I.b), R(I.a))

TableGet ==
  /\ Running({"GETTABUP", "GETTABLE", "GETI", "GETFIELD", "SELF"})
  /\ m' = CASE I.op = "GETTABUP" -> PutOrHalt(N, I.a, GetTable(UpVal(m, Cell(I.b)), K(I.c)))
            [] I.op = "GETTABLE" -> PutOrHalt(N, I.a, GetTable(R(I.b), R(I.c)))
            [] I.op = "GETI"     -> PutOrHalt(N, I.a, GetTable(R(I.b), IntVal(I.c)))
            [] I.op = "GETFIELD" -> PutOrHalt(N, I.a, GetTable(R(I.b), K(I.c)))
            [] I.op = "SELF"     -> PutOrHalt(Put(N, I.a + 1, R(I.b)), I.a, GetTable(R(I.b), RK(I.c)))

TableSet ==
  /\ Running({"SETTABUP", "SETTABLE", "SETI", "SETFIELD", "NEWTABLE", "SETLIST"})
  /\ LET n == IF I.b = 0 THEN m.top - (Frame.base + I.a) - 1 ELSE I.b
         Store(x, i) == SetTable(x, R(I.a), IntVal(I.c + i), R(I.a + i))
     IN m' = CASE I.op = "SETTABUP" -> SetTable(N, UpVal(m, Cell(I.a)), K(I.b), RK(I.c))
            [] I.op = "SETTABLE" -> SetTable(N, R(I.a), R(I.b), RK(I.c))
            [] I.op = "SETI"     -> SetTable(N, R(I.a), IntVal(I.b), RK(I.c))
            [] I.op = "SETFIELD" -> SetTable(N, R(I.a), K(I.b), RK(I.c))
            [] I.op = "SETLIST"  -> FoldLeft(Store, N, Reverse([i \in 1 .. n |-> i]))
            [] I.op = "NEWTABLE" -> Put([Move(N, 1) EXCEPT !.tabs = Append(@, <<>>)], I.a,
                                        [t |-> "table", id |-> Len(m.tabs) + 1])

\* luaT_trybinTM: the metamethod's result, in the register 'res'
TryBinTM(x, res, op, a, b) ==
  IF HasMeta(a, b) THEN Put([x EXCEPT !.trace = Append(@, Event(op, a, b))], res, Answer(op, a)) ELSE Halt(x)

\* an operation that succeeds skips the metamethod's instruction behind it
Operate ==
  /\ Running({"ADDI", "SHRI", "SHLI"} \cup Range(Ops2) \cup Range(OpsK))
  /\ LET Op(op, a, b) == LET v == Arithmetic(op, a, b) IN IF v = Err THEN N ELSE Put(Move(N, 1), I.a, v)
         imm == IntVal(I.c - OffsetC)
     IN m' = CASE I.op = "ADDI" -> Op("add", R(I.b), imm)
            [] I.op = "SHRI" -> Op("shr", R(I.b), imm)
            [] I.op = "SHLI" -> Op("shl", imm, R(I.b))
            [] I.op \in Range(OpsK) -> Op(CHOOSE op \in DOMAIN OpsK : OpsK[op] = I.op, R(I.b), K(I.c))
            [] I.op \in Range(Ops2) -> Op(CHOOSE op \in DOMAIN Ops2 : Ops2[op] = I.op, R(I.b), R(I.c))

\* the result goes where the operation before it would have put it
CallMetamethod ==
  /\ Running({"MMBIN", "MMBINI", "MMBINK"})
  /\ LET res == P.code[Frame.pc].a
         a == R(I.a)
         b == CASE I.op = "MMBIN" -> R(I.b) [] I.op = "MMBINI" -> IntVal(I.b - OffsetC) [] I.op = "MMBINK" -> K(I.b)
     IN m' = IF I.k = 1 THEN TryBinTM(N, res, I.c, b, a) ELSE TryBinTM(N, res, I.c, a, b)

\* luaV_concat: pairs from the right, as many strings as there are at once
ConcatAll(x, parts) ==
  LET Cat(acc, a) ==
        LET v == Join(a, acc.v)
        IN  CASE acc.x.status = "error" -> acc
              [] acc.x.status = "run" /\ v # Err -> [acc EXCEPT !.v = v]
              [] OTHER -> IF HasMeta(a, acc.v)
                          THEN [x |-> [acc.x EXCEPT !.trace = Append(@, Event("concat", a, acc.v))],
                                v |-> Answer("concat", a)]
                          ELSE [acc EXCEPT !.x = Halt(@)]
  IN  FoldLeft(Cat, [x |-> x, v |-> Last(parts)], Reverse(Front(parts)))

Unary ==
  /\ Running({"UNM", "BNOT", "NOT", "LEN", "CONCAT"})
  /\ LET b == R(I.b)
         Num(op) == IF b.t = "int" THEN Put(N, I.a, IntVal(Fold(op, b.n, 0))) ELSE TryBinTM(N, I.a, op, b, b)
         cat == ConcatAll(N, Slots(m, Frame.base + I.a, I.b))
     IN m' = CASE I.op = "UNM"  -> Num("unm")
            [] I.op = "BNOT" -> Num("bnot")
            [] I.op = "LEN"  -> IF b.t \in {"str", "table"}
                                THEN Put(N, I.a, Length(b, IF b.t = "table" THEN m.tabs[b.id] ELSE <<>>))
                                ELSE TryBinTM(N, I.a, "len", b, b)
            [] I.op = "NOT"  -> Put(N, I.a, Bool(IsFalse(b)))
            [] I.op = "CONCAT" -> Put(cat.x, I.a, cat.v)

\* a test is followed by a jump: it is skipped, or taken at once
Test ==
  /\ Running(Tests \cup {"JMP"})
  /\ LET Jmp(x) == Move(x, 1 + P.code[Frame.pc + 2].b)
         Go(x, v) == IF (v = True) # (I.k = 1) THEN Move(x, 1) ELSE Jmp(x)
         If(v) == Go(N, v)
         Order(op, a, b) ==
           LET v == Compare(op, a, b)
           IN  CASE v # Err -> If(v)
                 [] v = Err /\ HasMeta(a, b) -> Go([N EXCEPT !.trace = Append(@, Event(op, a, b))], Answer(op, a))
                 [] OTHER -> Halt(N)
         Imm == IntVal(I.b - OffsetC)
     IN m' = CASE I.op = "JMP" -> Move(N, I.b)
            [] I.op = "EQ"  -> If(Bool(R(I.a) = R(I.b)))
            [] I.op = "EQK" -> If(Bool(R(I.a) = K(I.b)))
            [] I.op = "EQI" -> If(Bool(R(I.a) = Imm))
            [] I.op = "LT"  -> Order("lt", R(I.a), R(I.b))
            [] I.op = "LE"  -> Order("le", R(I.a), R(I.b))
            [] I.op = "LTI" -> Order("lt", R(I.a), Imm)
            [] I.op = "LEI" -> Order("le", R(I.a), Imm)
            [] I.op = "GTI" -> Order("lt", Imm, R(I.a))
            [] I.op = "GEI" -> Order("le", Imm, R(I.a))
            [] I.op = "TEST" -> If(Bool(~IsFalse(R(I.a))))
            [] I.op = "TESTSET" -> IF IsFalse(R(I.b)) = (I.k = 1) THEN Move(N, 1)
                                   ELSE Put(Jmp(N), I.a, R(I.b))

\* FORPREP keeps the number of iterations in the limit's place
ForLoop ==
  /\ Running({"FORPREP", "FORLOOP", "TFORPREP", "TFORCALL", "TFORLOOP"})
  /\ LET init == R(I.a)  limit == R(I.a + 1)  step == R(I.a + 2)
         bad  == {init.t, limit.t, step.t} # {"int"} \/ step = IntVal(0)
         skip == IF step.n > 0 THEN init.n > limit.n ELSE init.n < limit.n
         count == IF step.n > 0 THEN (limit.n - init.n) \div step.n ELSE (init.n - limit.n) \div (-step.n)
         next == IntVal(init.n + step.n)
         call == [N EXCEPT !.stack = [@ EXCEPT ![Frame.base + I.a + 4] = R(I.a),
                     ![Frame.base + I.a + 5] = R(I.a + 1), ![Frame.base + I.a + 6] = R(I.a + 2)]]
     IN m' = CASE I.op = "FORPREP" -> IF bad THEN Halt(N) ELSE IF skip THEN Move(N, I.b + 1)
                                      ELSE Put(Put(N, I.a + 1, IntVal(count)), I.a + 3, init)
            [] I.op = "FORLOOP" ->
                 IF limit.n > 0
                 THEN Move(Put(Put(Put(N, I.a + 1, IntVal(limit.n - 1)), I.a, next), I.a + 3, next), -I.b)
                 ELSE N
            [] I.op = "TFORPREP" -> NewTbc(Move(N, I.b), Frame.base + I.a + 3)
            [] I.op = "TFORCALL" -> Call(call, Frame.base + I.a + 4, 2, I.c)
            [] I.op = "TFORLOOP" -> IF R(I.a + 4) = NilVal THEN N ELSE Move(Put(N, I.a + 2, R(I.a + 4)), -I.b)

NArgs == IF I.b # 0 THEN I.b - 1 ELSE m.top - (Frame.base + I.a) - 1

CallFunction ==
  /\ Running({"CALL"})
  /\ m' = Call(N, Frame.base + I.a, NArgs, I.c - 1)

\* the slot of the running function, below the extra arguments if it has some
Func(x) == LET f == Last(x.frames) IN f.base - 1 - (IF I.c > 0 THEN f.nextra + I.c ELSE 0)

\* luaD_pretailcall: a closure takes the frame of its caller
TailCall ==
  /\ Running({"TAILCALL"})
  /\ LET ra == Frame.base + I.a
         x  == IF I.k = 1 THEN CloseUpval(N, Frame.base) ELSE N
         y  == MoveResults(x, Func(x), Slots(x, ra, NArgs + 1), NArgs + 1)
         z  == [y EXCEPT !.frames = Front(@)]
     IN  m' = IF R(I.a).t = "c" THEN Return([x EXCEPT !.trace = @ \o Traced(R(I.a).s, Slots(x, ra + 1, NArgs))],
                                            Func(x), External(R(I.a).s, Slots(x, ra + 1, NArgs)))
              ELSE Call(z, Func(x), NArgs, Frame.nresults)

\* k: there are variables to close; c: the function has variable arguments
ReturnFrom ==
  /\ Running({"RETURN", "RETURN0", "RETURN1"})
  /\ LET n == CASE I.op = "RETURN0" -> 0 [] I.op = "RETURN1" -> 1
                [] OTHER -> IF I.b # 0 THEN I.b - 1 ELSE m.top - (Frame.base + I.a)
         x == IF I.op = "RETURN" /\ I.k = 1 THEN CloseFrom(m, Frame.base) ELSE m
         f == IF I.op = "RETURN" THEN Func(x) ELSE Frame.base - 1
     IN  m' = Return(x, f, Slots(x, Frame.base + I.a, n))

Closing ==
  /\ Running({"CLOSE", "TBC"})
  /\ m' = IF I.op = "CLOSE" THEN CloseFrom(N, Frame.base + I.a) ELSE NewTbc(N, Frame.base + I.a)

\* pushclosure
Closure ==
  /\ Running({"CLOSURE"})
  /\ LET p == P.protos[I.b + 1]
         Capture(acc, u) ==
           LET f == FindUpval(acc[1], Frame.base + u.idx)
           IN  IF u.instack THEN <<f[1], Append(acc[2], f[2])>> ELSE <<acc[1], Append(acc[2], Cell(u.idx))>>
         r == FoldLeft(Capture, <<N, <<>>>>, p.ups)
     IN  m' = Put([r[1] EXCEPT !.fns = Append(@, [p |-> p, ups |-> r[2]])], I.a,
                  [t |-> "fn", id |-> Len(m.fns) + 1])

\* luaT_adjustvarargs puts a copy of the function and its fixed parameters
\* above the arguments; luaT_getvarargs copies the extra ones
Vararg ==
  /\ Running({"VARARG", "VARARGPREP"})
  /\ LET func  == Frame.base - 1
         actual == m.top - Frame.base
         fixed == Slots(m, func, I.a + 1)
         moved == MoveResults(N, m.top, fixed, I.a + 1)
         clear == MoveResults(moved, func + 1, <<>>, I.a)
         extra == Slots(m, func - Frame.nextra, Frame.nextra)
     IN  m' = IF I.op = "VARARG" THEN MoveResults(N, Frame.base + I.a, extra, I.c - 1)
              ELSE IF m.top + 1 + P.maxstack > StackSize THEN Halt(N)
              ELSE [clear EXCEPT !.frames[Len(m.frames)] =
                      [@ EXCEPT !.base = m.top + 1, !.nextra = actual - I.a]]

-----------------------------------------------------------------------------
Junk == [t |-> "junk"]

\* a chunk is compiled; if it is right its closure, with the globals as its
\* upvalue, is called with the arguments
NewChunk(fs, args) ==
  LET stack == [s \in 0 .. StackSize - 1 |->
                  IF s = 0 THEN [t |-> "fn", id |-> 1] ELSE IF s <= Len(args) THEN args[s] ELSE Junk]
      x == [status |-> "run", frames |-> <<>>, stack |-> stack, top |-> 0, tbc |-> <<>>, trace |-> <<>>,
            tabs |-> <<Globals>>, cells |-> <<[open |-> FALSE, at |-> 0, v |-> [t |-> "table", id |-> 1]]>>,
            fns |-> <<[p |-> Proto(fs), ups |-> <<1>>]>>]
  IN  m = IF fs.err # "" THEN [x EXCEPT !.status = "rejected", !.fns = <<>>, !.trace = <<fs.err>>]
          ELSE Call(x, 0, Len(args), MultRet)
=============================================================================
