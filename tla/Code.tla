---------------------------------- MODULE Code ----------------------------------
(***************************************************************************)
(* The code generator (lcode.c): expression descriptors that delay their   *)
(* instructions, registers used as a stack, and jump lists threaded through *)
(* the code as relative offsets until their target is known.               *)
(*                                                                         *)
(* fs is a FuncState, a record the operators take and return; s is a pair  *)
(* [fs, e] of it and an expdesc.  Numbers are integers.                    *)
(***************************************************************************)
EXTENDS Values

CONSTANTS
  MaxArgC,       \* MAXARG_C: immediate operands are biased by half of it
  MaxArgBx,      \* MAXARG_Bx, likewise
  MaxIndexRK     \* MAXINDEXRK

NoJump == -1
NoReg  == -2

OffsetC  == MaxArgC \div 2
OffsetBx == MaxArgBx \div 2
FitsC(i)  == i + OffsetC \in 0 .. MaxArgC
FitsBx(i) == i \in -OffsetBx .. MaxArgBx - OffsetBx

\* an instruction; a jump's offset, and a Bx, are in b
Instr(op, a, b, c, k) == [op |-> op, a |-> a, b |-> b, c |-> c, k |-> k]
Tests == {"TEST", "TESTSET", "EQ", "LT", "LE", "EQK", "EQI", "LTI", "LEI", "GTI", "GEI"}

\* an expdesc: info is a register, a pc, an upvalue, a constant's index or the
\* table's place; idx a key's place; v a constant
Exp(k, info)   == [k |-> k, info |-> info, idx |-> 0, v |-> NilVal, t |-> NoJump, f |-> NoJump]
ExpValue(k, v) == [Exp(k, 0) EXCEPT !.v = v]
Void           == Exp("void", 0)
HasJumps(e)    == e.t # e.f
HasMultRet(e)  == e.k \in {"call", "vararg"}

Pair(fs, e)   == [fs |-> fs, e |-> e]
Pc(fs)        == Len(fs.code)
At(fs, pc)    == fs.code[pc + 1]
Emit(fs, op, a, b, c, k) == [fs EXCEPT !.code = Append(@, Instr(op, a, b, c, k))]
SetA(fs, pc, a)   == [fs EXCEPT !.code[pc + 1].a = a]
SetC(fs, pc, c)   == [fs EXCEPT !.code[pc + 1].c = c]

\* luaY_nvarstack: registers of active variables; compile-time constants have none
RegLevel(fs, n) ==
  LET inreg == {i \in 1 .. n : fs.vars[i].kind # "ctc"}
  IN  IF inreg = {} THEN 0 ELSE fs.vars[Max(inreg)].ridx + 1
NVarStack(fs) == RegLevel(fs, fs.nactvar)

CheckStack(fs, n)  == [fs EXCEPT !.maxstack = Max({@, fs.freereg + n})]
ReserveRegs(fs, n) == [CheckStack(fs, n) EXCEPT !.freereg = @ + n]
FreeReg(fs, r)     == IF r >= NVarStack(fs) THEN [fs EXCEPT !.freereg = @ - 1] ELSE fs
FreeExp(fs, e)     == IF e.k = "nonreloc" THEN FreeReg(fs, e.info) ELSE fs
FreeRegs(fs, r1, r2) == FreeReg(FreeReg(fs, Max({r1, r2})), Min({r1, r2}))
FreeExps(fs, e1, e2) ==
  LET R(e) == IF e.k = "nonreloc" THEN e.info ELSE -1 IN FreeRegs(fs, R(e1), R(e2))

\* addk: <<fs, the constant's index>>
AddK(fs, v) ==
  LET same == {i \in DOMAIN fs.k : fs.k[i] = v}
  IN  IF same # {} THEN <<fs, Min(same) - 1>>
      ELSE <<[fs EXCEPT !.k = Append(@, v)], Len(fs.k)>>

-----------------------------------------------------------------------------
\* Jumps

GetLabel(fs) == [fs EXCEPT !.lasttarget = Pc(fs)]

GetJump(fs, pc) == LET o == At(fs, pc).b IN IF o = NoJump THEN NoJump ELSE pc + 1 + o
FixJump(fs, pc, dest) == [fs EXCEPT !.code[pc + 1].b = dest - (pc + 1)]

\* the jumps of a list
RECURSIVE JumpList(_, _)
JumpList(fs, l) == IF l = NoJump THEN <<>> ELSE <<l>> \o JumpList(fs, GetJump(fs, l))

\* luaK_concat: <<fs, the joined list>>
Concat(fs, l1, l2) ==
  IF l2 = NoJump THEN <<fs, l1>> ELSE IF l1 = NoJump THEN <<fs, l2>>
  ELSE <<FixJump(fs, Last(JumpList(fs, l1)), l2), l1>>

Jump(fs) == Emit(fs, "JMP", 0, NoJump, 0, 0)        \* its pc is Pc(fs)
CondJump(fs, op, a, b, c, k) == Jump(Emit(fs, op, a, b, c, k))
JumpTo(fs, dest) == FixJump(Jump(fs), Pc(fs), dest)

\* the pc of the instruction that controls a jump
JumpControl(fs, pc) == IF pc >= 1 /\ (pc >= 1 => At(fs, pc - 1).op \in Tests) THEN pc - 1 ELSE pc
Control(fs, pc)     == At(fs, JumpControl(fs, pc))

PatchTestReg(fs, node, reg) ==
  LET i == JumpControl(fs, node)
      x == At(fs, i)
  IN  IF x.op # "TESTSET" THEN fs
      ELSE IF reg # NoReg /\ reg # x.b THEN SetA(fs, i, reg)
      ELSE [fs EXCEPT !.code[i + 1] = Instr("TEST", x.b, 0, 0, x.k)]

RemoveValues(fs, list) == FoldLeft(LAMBDA g, j : PatchTestReg(g, j, NoReg), fs, JumpList(fs, list))

\* jumps that produce a value go to vtarget with the value in reg, others to dtarget
PatchListAux(fs, list, vtarget, reg, dtarget) ==
  LET Patch(g, j) == FixJump(PatchTestReg(g, j, reg), j,
                             IF Control(g, j).op = "TESTSET" THEN vtarget ELSE dtarget)
  IN  FoldLeft(Patch, fs, JumpList(fs, list))

PatchList(fs, list, target) == PatchListAux(fs, list, target, NoReg, target)
PatchToHere(fs, list)       == LET g == GetLabel(fs) IN PatchList(g, list, Pc(g))
NeedValue(fs, list) == \E x \in Range(JumpList(fs, list)) : Control(fs, x).op # "TESTSET"

-----------------------------------------------------------------------------
\* Values to registers

\* luaK_nil: an adjacent LOADNIL that no jump can reach is extended
CodeNil(fs, from, n) ==
  LET old  == At(fs, Pc(fs) - 1)
      pl   == old.a + old.b
      l    == from + n - 1
      join == IF Pc(fs) <= fs.lasttarget THEN FALSE
              ELSE old.op = "LOADNIL" /\ (from \in old.a .. pl + 1 \/ old.a \in from .. l + 1)
      lo   == Min({from, old.a})
  IN  IF join THEN [fs EXCEPT !.code[Pc(fs)] = Instr("LOADNIL", lo, Max({l, pl}) - lo, 0, 0)]
      ELSE Emit(fs, "LOADNIL", from, n - 1, 0, 0)

CodeK(fs, reg, k) == Emit(fs, "LOADK", reg, k, 0, 0)
CodeInt(fs, reg, i) ==
  IF FitsBx(i) THEN Emit(fs, "LOADI", reg, i, 0, 0)
  ELSE LET k == AddK(fs, IntVal(i)) IN CodeK(k[1], reg, k[2])

SetReturns(fs, e, nresults) ==
  IF e.k = "call" THEN SetC(fs, e.info, nresults + 1)
  ELSE ReserveRegs(SetA(SetC(fs, e.info, nresults + 1), e.info, fs.freereg), 1)
MultRet == -1

SetOneRet(s) ==
  CASE s.e.k = "call"   -> Pair(s.fs, [s.e EXCEPT !.k = "nonreloc", !.info = At(s.fs, s.e.info).a])
    [] s.e.k = "vararg" -> Pair(SetC(s.fs, s.e.info, 2), [s.e EXCEPT !.k = "reloc"])
    [] OTHER -> s

\* const2exp
ConstExp(v) == CASE v.t = "int" -> ExpValue("int", v) [] v.t = "str" -> ExpValue("str", v)
                 [] OTHER -> ExpValue(v.t, v)

DischargeVars(s) ==
  LET e == s.e  fs == s.fs
      Get(g, op, b, c) == Pair(Emit(g, op, 0, b, c, 0), [e EXCEPT !.k = "reloc", !.info = Pc(g)])
  IN  CASE e.k = "const" -> Pair(fs, [ConstExp(e.v) EXCEPT !.t = e.t, !.f = e.f])
        [] e.k = "local" -> Pair(fs, [e EXCEPT !.k = "nonreloc"])
        [] e.k = "upval" -> Get(fs, "GETUPVAL", e.info, 0)
        [] e.k = "indexup"  -> Get(fs, "GETTABUP", e.info, e.idx)
        [] e.k = "indexi"   -> Get(FreeReg(fs, e.info), "GETI", e.info, e.idx)
        [] e.k = "indexstr" -> Get(FreeReg(fs, e.info), "GETFIELD", e.info, e.idx)
        [] e.k = "indexed"  -> Get(FreeRegs(fs, e.info, e.idx), "GETTABLE", e.info, e.idx)
        [] HasMultRet(e)    -> SetOneRet(s)
        [] OTHER -> s

Discharge2Reg(s0, reg) ==
  LET s == DischargeVars(s0)  e == s.e  fs == s.fs
      k == AddK(fs, e.v)
      g == CASE e.k = "nil"   -> CodeNil(fs, reg, 1)
             [] e.k = "false" -> Emit(fs, "LOADFALSE", reg, 0, 0, 0)
             [] e.k = "true"  -> Emit(fs, "LOADTRUE", reg, 0, 0, 0)
             [] e.k = "str"   -> CodeK(k[1], reg, k[2])
             [] e.k = "k"     -> CodeK(fs, reg, e.info)
             [] e.k = "int"   -> CodeInt(fs, reg, e.v.n)
             [] e.k = "reloc" -> SetA(fs, e.info, reg)
             [] e.k = "nonreloc" -> IF reg # e.info THEN Emit(fs, "MOVE", reg, e.info, 0, 0) ELSE fs
             [] OTHER -> fs
  IN  IF e.k = "jmp" THEN s ELSE Pair(g, [e EXCEPT !.k = "nonreloc", !.info = reg])

Discharge2AnyReg(s) ==
  IF s.e.k = "nonreloc" THEN s
  ELSE LET g == ReserveRegs(s.fs, 1) IN Discharge2Reg(Pair(g, s.e), g.freereg - 1)

CodeLoadBool(fs, a, op) == Emit(GetLabel(fs), op, a, 0, 0, 0)

\* the value of an expression with jumps: those that have no value of their own
\* go through the pair of booleans
Exp2Reg(s0, reg) ==
  LET s  == Discharge2Reg(s0, reg)
      j  == IF s.e.k = "jmp" THEN Concat(s.fs, s.e.t, s.e.info) ELSE <<s.fs, s.e.t>>
      e  == [s.e EXCEPT !.t = j[2]]
      test == s.e.k = "jmp"
      need == NeedValue(j[1], e.t) \/ NeedValue(j[1], e.f)
      g0 == IF test THEN j[1] ELSE Jump(j[1])
      p  == Pc(g0)
      g1 == CodeLoadBool(CodeLoadBool(g0, reg, "LFALSESKIP"), reg, "LOADTRUE")
      g2 == IF need THEN PatchToHere(g1, IF test THEN NoJump ELSE Pc(j[1])) ELSE j[1]
      g3 == GetLabel(g2)
      g4 == PatchListAux(g3, e.f, Pc(g3), reg, p)
      g5 == PatchListAux(g4, e.t, Pc(g3), reg, p + 1)
  IN  Pair(IF HasJumps(e) THEN g5 ELSE j[1],
           [e EXCEPT !.k = "nonreloc", !.info = reg, !.t = NoJump, !.f = NoJump])

Exp2NextReg(s0) ==
  LET s == DischargeVars(s0)
      g == ReserveRegs(FreeExp(s.fs, s.e), 1)
  IN  Exp2Reg(Pair(g, s.e), g.freereg - 1)

Exp2AnyReg(s0) ==
  LET s == DischargeVars(s0)
  IN  CASE s.e.k = "nonreloc" /\ ~HasJumps(s.e) -> s
        [] s.e.k = "nonreloc" /\ HasJumps(s.e) /\ s.e.info >= NVarStack(s.fs) -> Exp2Reg(s, s.e.info)
        [] OTHER -> Exp2NextReg(s)

Exp2AnyRegUp(s) == IF s.e.k # "upval" \/ HasJumps(s.e) THEN Exp2AnyReg(s) ELSE s
Exp2Val(s) == IF s.e.k = "jmp" \/ HasJumps(s.e) THEN Exp2AnyReg(s) ELSE DischargeVars(s)

ToConst(e) == CASE e.k = "true" -> True [] e.k = "false" -> False [] e.k = "nil" -> NilVal [] OTHER -> e.v

\* luaK_exp2K: a constant whose index fits an operand becomes "k"
Exp2K(s) ==
  LET k == IF s.e.k = "k" THEN <<s.fs, s.e.info>> ELSE AddK(s.fs, ToConst(s.e))
  IN  IF HasJumps(s.e) \/ s.e.k \notin {"true", "false", "nil", "int", "str", "k"} THEN s
      ELSE IF k[2] <= MaxIndexRK THEN Pair(k[1], [s.e EXCEPT !.k = "k", !.info = k[2]])
      ELSE Pair(k[1], s.e)
Exp2RK(s) == LET q == Exp2K(s) IN IF q.e.k = "k" /\ q.e.info <= MaxIndexRK THEN q ELSE Exp2AnyReg(q)
IsRK(e)   == e.k = "k"

StoreVar(fs, var, ex) ==
  LET r  == Exp2AnyReg(Pair(fs, ex))
      rk == Exp2RK(Pair(fs, ex))
      Set(op) == FreeExp(Emit(rk.fs, op, var.info, var.idx, rk.e.info, IF IsRK(rk.e) THEN 1 ELSE 0), rk.e)
  IN  CASE var.k = "local"    -> Exp2Reg(Pair(FreeExp(fs, ex), ex), var.info).fs
        [] var.k = "upval"    -> FreeExp(Emit(r.fs, "SETUPVAL", r.e.info, var.info, 0, 0), r.e)
        [] var.k = "indexup"  -> Set("SETTABUP")
        [] var.k = "indexi"   -> Set("SETI")
        [] var.k = "indexstr" -> Set("SETFIELD")
        [] var.k = "indexed"  -> Set("SETTABLE")
        [] OTHER -> fs

\* luaK_self: 'ex:key' takes two registers, the method and the object
Self(s0, key) ==
  LET s == Exp2AnyReg(s0)
      g == FreeExp(s.fs, s.e)
      base == g.freereg
      k == Exp2RK(Pair(ReserveRegs(g, 2), key))
      h == Emit(k.fs, "SELF", base, s.e.info, k.e.info, IF IsRK(k.e) THEN 1 ELSE 0)
  IN  Pair(FreeExp(h, k.e), [s.e EXCEPT !.k = "nonreloc", !.info = base])

-----------------------------------------------------------------------------
\* Conditions

NegateCondition(fs, e) == [fs EXCEPT !.code[JumpControl(fs, e.info) + 1].k = 1 - @]

\* a NOT just coded is undone; <<fs, the jump>>
JumpOnCond(s, cond) ==
  LET i == At(s.fs, s.e.info)
      cut == [s.fs EXCEPT !.code = Front(@)]
      r == Discharge2AnyReg(s)
      g == FreeExp(r.fs, r.e)
      not == IF s.e.k = "reloc" THEN i.op = "NOT" ELSE FALSE
  IN  IF not THEN <<CondJump(cut, "TEST", i.b, 0, 0, 1 - cond), Pc(cut) + 1>>
      ELSE <<CondJump(g, "TESTSET", NoReg, r.e.info, 0, cond), Pc(g) + 1>>

GoIfTrue(s0) ==
  LET s == DischargeVars(s0)
      j == CASE s.e.k = "jmp" -> <<NegateCondition(s.fs, s.e), s.e.info>>
             [] s.e.k \in {"k", "int", "str", "true"} -> <<s.fs, NoJump>>
             [] OTHER -> JumpOnCond(s, 0)
      l == Concat(j[1], s.e.f, j[2])
  IN  Pair(PatchToHere(l[1], s.e.t), [s.e EXCEPT !.f = l[2], !.t = NoJump])

GoIfFalse(s0) ==
  LET s == DischargeVars(s0)
      j == CASE s.e.k = "jmp" -> <<s.fs, s.e.info>>
             [] s.e.k \in {"nil", "false"} -> <<s.fs, NoJump>>
             [] OTHER -> JumpOnCond(s, 1)
      l == Concat(j[1], s.e.t, j[2])
  IN  Pair(PatchToHere(l[1], s.e.f), [s.e EXCEPT !.t = l[2], !.f = NoJump])

CodeNot(s) ==
  LET r == Discharge2AnyReg(s)
      g == FreeExp(r.fs, r.e)
      q == CASE s.e.k \in {"nil", "false"} -> Pair(s.fs, [s.e EXCEPT !.k = "true"])
             [] s.e.k \in {"k", "int", "str", "true"} -> Pair(s.fs, [s.e EXCEPT !.k = "false"])
             [] s.e.k = "jmp" -> Pair(NegateCondition(s.fs, s.e), s.e)
             [] OTHER -> Pair(Emit(g, "NOT", 0, r.e.info, 0, 0), [r.e EXCEPT !.k = "reloc", !.info = Pc(g)])
  IN  Pair(RemoveValues(RemoveValues(q.fs, q.e.t), q.e.f), [q.e EXCEPT !.t = q.e.f, !.f = q.e.t])

-----------------------------------------------------------------------------
\* Indices and operators

IsKStr(fs, e) == e.k = "k" /\ ~HasJumps(e) /\ (e.k = "k" => fs.k[e.info + 1].t = "str")
IsKInt(e)     == e.k = "int" /\ ~HasJumps(e)
IsSCInt(e)    == IsKInt(e) /\ (e.k = "int" => FitsC(e.v.n))

\* luaK_indexed: t[key]
Indexed(fs0, t0, key0) ==
  LET k  == AddK(fs0, key0.v)
      s  == IF key0.k = "str" THEN Pair(k[1], [key0 EXCEPT !.k = "k", !.info = k[2]]) ELSE Pair(fs0, key0)
      up == t0.k = "upval" /\ ~IsKStr(s.fs, s.e)
      u  == IF up THEN Exp2AnyReg(Pair(s.fs, t0)) ELSE Pair(s.fs, t0)
      r  == Exp2AnyReg(Pair(u.fs, s.e))
      Ind(kind, i) == [u.e EXCEPT !.k = kind, !.idx = i]
  IN  CASE u.e.k = "upval"  -> Pair(u.fs, Ind("indexup", s.e.info))
        [] u.e.k # "upval" /\ IsKStr(u.fs, s.e) -> Pair(u.fs, Ind("indexstr", s.e.info))
        [] u.e.k # "upval" /\ IsKInt(s.e) /\ s.e.v.n \in 0 .. MaxArgC -> Pair(u.fs, Ind("indexi", s.e.v.n))
        [] OTHER -> Pair(r.fs, [Ind("indexed", r.e.info) EXCEPT !.k = "indexed"])

\* the instruction, and the one for its metamethod behind it: 'mm' is its code,
\* 'event' the operator, 'flip' says that the operands changed places
FinishBinExpVal(fs, e1, e2, op, v2, flip, mm, event) ==
  LET s == Exp2AnyReg(Pair(fs, e1))
      g == FreeExps(Emit(s.fs, op, 0, s.e.info, v2, 0), s.e, e2)
  IN  Pair(Emit(g, mm, s.e.info, v2, event, flip), [s.e EXCEPT !.k = "reloc", !.info = Pc(s.fs)])

\* binopr2op: an operator's instruction with registers, and with a constant
Ops2 == [add |-> "ADD", sub |-> "SUB", mul |-> "MUL", idiv |-> "IDIV", mod |-> "MOD",
         band |-> "BAND", shl |-> "SHL", shr |-> "SHR"]
OpsK == [add |-> "ADDK", sub |-> "SUBK", mul |-> "MULK", idiv |-> "IDIVK", mod |-> "MODK",
         band |-> "BANDK"]

CodeBinExpVal(fs, op, e1, e2) ==
  LET r == Exp2AnyReg(Pair(fs, e2))
  IN  FinishBinExpVal(r.fs, e1, r.e, Ops2[op], r.e.info, 0, "MMBIN", op)
CodeBinI(fs, inst, e1, e2, flip, op) ==
  FinishBinExpVal(fs, e1, e2, inst, e2.v.n + OffsetC, flip, "MMBINI", op)

\* finishbinexpneg: the instruction has the negated operand, the metamethod the
\* original one
FinishBinExpNeg(fs, e1, e2, inst, op) ==
  LET s == FinishBinExpVal(fs, e1, e2, inst, OffsetC - e2.v.n, 0, "MMBINI", op)
  IN  [s EXCEPT !.fs.code[Pc(s.fs)].b = e2.v.n + OffsetC]
Negatable(e) == IF IsKInt(e) THEN FitsC(e.v.n) /\ FitsC(-e.v.n) ELSE FALSE

\* codearith and codebitwise, with 'flip' when the operands have changed places
CodeArith(fs, op, e1, e2, flip) ==
  LET k == Exp2K(Pair(fs, e2))
  IN  IF IsKInt(e2) /\ IsRK(k.e) THEN FinishBinExpVal(k.fs, e1, k.e, OpsK[op], k.e.info, flip, "MMBINK", op)
      ELSE IF flip = 1 THEN CodeBinExpVal(k.fs, op, e2, e1) ELSE CodeBinExpVal(k.fs, op, e1, e2)

CodeCommutative(fs, op, e1, e2) ==
  LET flip == IF IsKInt(e1) THEN 1 ELSE 0
      a == IF flip = 1 THEN e2 ELSE e1
      b == IF flip = 1 THEN e1 ELSE e2
  IN  IF op = "add" /\ IsSCInt(b) THEN CodeBinI(fs, "ADDI", a, b, flip, op)
      ELSE CodeArith(fs, op, a, b, flip)

CodeSub(fs, e1, e2) ==
  IF Negatable(e2) THEN FinishBinExpNeg(fs, e1, e2, "ADDI", "sub") ELSE CodeArith(fs, "sub", e1, e2, 0)

\* a shift to the left by a constant is coded as one to the right
CodeShift(fs, op, e1, e2) ==
  CASE op = "shl" /\ IsSCInt(e1) -> CodeBinI(fs, "SHLI", e2, e1, 1, op)
    [] op = "shl" /\ ~IsSCInt(e1) /\ Negatable(e2) -> FinishBinExpNeg(fs, e1, e2, "SHRI", op)
    [] op = "shr" /\ IsSCInt(e2) -> CodeBinI(fs, "SHRI", e1, e2, 0, op)
    [] OTHER -> CodeBinExpVal(fs, op, e1, e2)

CompareJump(fs, e1, e2, op, r1, r2, k) ==
  LET g == FreeExps(fs, e1, e2)
  IN  Pair(CondJump(g, op, r1, r2, 0, k), [e1 EXCEPT !.k = "jmp", !.info = Pc(g) + 1])

\* codeorder: 'lt' and 'le', with an immediate operand on either side
CodeOrder(fs, op, e1, e2) ==
  LET a == Exp2AnyReg(Pair(fs, e1))
      b == Exp2AnyReg(Pair(fs, e2))
      c == Exp2AnyReg(Pair(a.fs, e2))
      Name(x, y) == IF op = "lt" THEN x ELSE y
  IN  IF IsSCInt(e2) THEN CompareJump(a.fs, a.e, e2, Name("LTI", "LEI"), a.e.info, e2.v.n + OffsetC, 1)
      ELSE IF IsSCInt(e1) THEN CompareJump(b.fs, e1, b.e, Name("GTI", "GEI"), b.e.info, e1.v.n + OffsetC, 1)
      ELSE CompareJump(c.fs, a.e, c.e, Name("LT", "LE"), a.e.info, c.e.info, 1)

CodeEq(fs, yes, x1, x2) ==
  LET swap == x1.k # "nonreloc"
      a == Exp2AnyReg(Pair(fs, IF swap THEN x2 ELSE x1))
      e2 == IF swap THEN x1 ELSE x2
      rk == Exp2RK(Pair(a.fs, e2))
  IN  IF IsSCInt(e2) THEN CompareJump(a.fs, a.e, e2, "EQI", a.e.info, e2.v.n + OffsetC, yes)
      ELSE CompareJump(rk.fs, a.e, rk.e, IF IsRK(rk.e) THEN "EQK" ELSE "EQ", a.e.info, rk.e.info, yes)

CodeConcat(fs, e1, e2) ==
  LET n == Pc(fs)
      i == At(fs, n - 1)
      more == IF n > fs.lasttarget THEN i.op = "CONCAT" ELSE FALSE
      g == Emit(fs, "CONCAT", e1.info, 2, 0, 0)
  IN  FreeExp(IF more THEN [fs EXCEPT !.code[n] = Instr("CONCAT", e1.info, i.b + 1, 0, 0)] ELSE g, e2)

Arith == DOMAIN Ops2
\* constfolding: a division by zero stays for the run
Folds(op, e1, e2) == IsKInt(e1) /\ IsKInt(e2) /\ (IsKInt(e2) => Defined(op, e2.v.n))

\* luaK_prefix
Prefix(s0, op) ==
  LET s == DischargeVars(s0)
      r == Exp2AnyReg(s)
      g == FreeExp(r.fs, r.e)
  IN  CASE op = "not" -> CodeNot(s)
        [] op \in {"unm", "bnot"} /\ IsKInt(s.e) -> Pair(s.fs, [s.e EXCEPT !.v.n = Fold(op, @, 0)])
        [] OTHER -> Pair(Emit(g, CASE op = "unm" -> "UNM" [] op = "bnot" -> "BNOT" [] op = "len" -> "LEN",
                              0, r.e.info, 0, 0), [r.e EXCEPT !.k = "reloc", !.info = Pc(g)])

\* luaK_infix: the first operand, before the second is read
Infix(s0, op) ==
  LET s == DischargeVars(s0)
  IN  CASE op = "and"    -> GoIfTrue(s)
        [] op = "or"     -> GoIfFalse(s)
        [] op = "concat" -> Exp2NextReg(s)
        [] op \in Arith  -> IF IsKInt(s.e) THEN s ELSE Exp2AnyReg(s)
        [] op \in {"eq", "ne"} -> IF IsKInt(s.e) THEN s ELSE Exp2RK(s)
        [] op \in {"lt", "le", "gt", "ge"} -> IF IsSCInt(s.e) THEN s ELSE Exp2AnyReg(s)

\* luaK_posfix: s.e is the second operand
Posfix(s0, op, e1) ==
  LET s == DischargeVars(s0)  fs == s.fs  e2 == s.e
      f == Concat(fs, e2.f, e1.f)
      t == Concat(fs, e2.t, e1.t)
      n == Exp2NextReg(s)
      folds == Folds(op, e1, e2)
  IN  CASE op \in Arith /\ folds -> Pair(fs, [e1 EXCEPT !.v = IntVal(Fold(op, e1.v.n, e2.v.n))])
        [] op = "and" -> Pair(f[1], [e2 EXCEPT !.f = f[2]])
        [] op = "or"  -> Pair(t[1], [e2 EXCEPT !.t = t[2]])
        [] op = "concat" -> Pair(CodeConcat(n.fs, e1, n.e), e1)
        [] op \in {"add", "mul", "band"} /\ ~folds -> CodeCommutative(fs, op, e1, e2)
        [] op = "sub" /\ ~folds -> CodeSub(fs, e1, e2)
        [] op \in {"idiv", "mod"} /\ ~folds -> CodeArith(fs, op, e1, e2, 0)
        [] op \in {"shl", "shr"} /\ ~folds -> CodeShift(fs, op, e1, e2)
        [] op \in {"eq", "ne"} -> CodeEq(fs, IF op = "eq" THEN 1 ELSE 0, e1, e2)
        [] op \in {"lt", "le"} -> CodeOrder(fs, op, e1, e2)
        [] op \in {"gt", "ge"} -> CodeOrder(fs, IF op = "gt" THEN "lt" ELSE "le", e2, e1)

SetList(fs, base, nelems, tostore) ==
  [Emit(fs, "SETLIST", base, IF tostore = MultRet THEN 0 ELSE tostore, nelems, 0)
     EXCEPT !.freereg = base + 1]

\* luaK_ret; luaK_finish corrects returns of functions that must close or have
\* variable arguments, and jumps to jumps
Ret(fs, first, nret) ==
  Emit(fs, IF nret = 0 THEN "RETURN0" ELSE IF nret = 1 THEN "RETURN1" ELSE "RETURN", first, nret + 1, 0, 0)

RECURSIVE FinalTarget(_, _, _)
FinalTarget(fs, i, count) ==
  IF count = 0 THEN i
  ELSE IF At(fs, i).op # "JMP" THEN i ELSE FinalTarget(fs, i + At(fs, i).b + 1, count - 1)

Finish(fs) ==
  LET Fix(i) ==
        LET x == At(fs, i)
        IN  CASE x.op \in {"RETURN0", "RETURN1", "RETURN", "TAILCALL"} /\ (fs.needclose \/ fs.isvararg) ->
                   [x EXCEPT !.op = IF x.op = "TAILCALL" THEN @ ELSE "RETURN",
                             !.k = IF fs.needclose THEN 1 ELSE @,
                             !.c = IF fs.isvararg THEN fs.numparams + 1 ELSE @]
              [] x.op = "JMP" -> [x EXCEPT !.b = FinalTarget(fs, i, 100) - (i + 1)]
              [] OTHER -> x
  IN  [fs EXCEPT !.code = [i \in DOMAIN @ |-> Fix(i - 1)]]
=============================================================================
