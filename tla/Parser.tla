--------------------------------- MODULE Parser ---------------------------------
(***************************************************************************)
(* The one-pass compiler (lparser.c): scopes, upvalues, gotos and blocks,   *)
(* and the code of every expression and statement.  The token stream is     *)
(* abstracted to the tree it denotes: an expression is a record with its    *)
(* kind in 'e', a statement one with its kind in 'st'.                      *)
(*                                                                          *)
(* fs is a FuncState with its own blocks, variables, labels and pending     *)
(* gotos; fs.prev holds the enclosing one.  An error is kept in fs.err.     *)
(***************************************************************************)
EXTENDS Code

CONSTANT FieldsPerFlush      \* LFIELDS_PER_FLUSH

Fail(fs, msg) == IF fs.err = "" THEN [fs EXCEPT !.err = msg] ELSE fs
Block(fs)     == Last(fs.bl)

-----------------------------------------------------------------------------
\* Variables

NewLocal(fs, x, kind) ==
  [fs EXCEPT !.vars = Append(@, [name |-> x, kind |-> kind, ridx |-> 0, v |-> NilVal])]
NewLocals(fs, xs) == FoldLeft(LAMBDA g, x : NewLocal(g, x, "reg"), fs, xs)

AdjustLocalVars(fs, n) ==
  LET level == NVarStack(fs)
      from  == fs.nactvar
  IN  [fs EXCEPT !.nactvar = from + n,
                 !.vars = [i \in DOMAIN @ |-> IF i \in from + 1 .. from + n
                             THEN [@[i] EXCEPT !.ridx = level + i - from - 1] ELSE @[i]]]

RemoveVars(fs, level) ==
  [fs EXCEPT !.vars = SubSeq(@, 1, Len(@) - (fs.nactvar - level)), !.nactvar = level]

\* the innermost active variable of that name, counting from 1, or 0
SearchVar(fs, x) == Max({0} \cup {i \in 1 .. fs.nactvar : fs.vars[i].name = x})
SearchUpvalue(fs, x) == Max({0} \cup {i \in DOMAIN fs.ups : fs.ups[i].name = x})

\* the block of variable i must close it
MarkUpval(fs, i) ==
  LET b == Max({j \in DOMAIN fs.bl : fs.bl[j].nactvar < i})
  IN  [fs EXCEPT !.bl[b].upval = TRUE, !.needclose = TRUE]
MarkToBeClosed(fs) ==
  [fs EXCEPT !.bl[Len(fs.bl)].upval = TRUE, !.bl[Len(fs.bl)].insidetbc = TRUE, !.needclose = TRUE]

\* a name found as a variable of 'prev', or among its upvalues
NewUpvalue(fs, x, prev, var) ==
  LET local == var.k = "local"
      kind  == IF local THEN prev.vars[var.idx].kind ELSE prev.ups[var.info + 1].kind
  IN  [fs EXCEPT !.ups = Append(@, [name |-> x, instack |-> local, idx |-> var.info, kind |-> kind])]

RECURSIVE SingleVarAux(_, _, _)
SingleVarAux(fs, x, base) ==
  LET i     == SearchVar(fs, x)
      var   == fs.vars[i]
      u     == SearchUpvalue(fs, x)
      outer == SingleVarAux(fs.prev[1], x, FALSE)
      up    == [fs EXCEPT !.prev = <<outer.fs>>]
  IN  IF i # 0 THEN
        IF var.kind = "ctc" THEN Pair(fs, ExpValue("const", var.v))
        ELSE Pair(IF base THEN fs ELSE MarkUpval(fs, i), [Exp("local", var.ridx) EXCEPT !.idx = i])
      ELSE IF u # 0 THEN Pair(fs, Exp("upval", u - 1))
      ELSE IF fs.prev = <<>> THEN Pair(fs, Void)
      ELSE IF outer.e.k \in {"local", "upval"}
           THEN Pair(NewUpvalue(up, x, outer.fs, outer.e), Exp("upval", Len(fs.ups)))
           ELSE Pair(up, outer.e)

SingleVar(fs, x) ==
  LET s   == SingleVarAux(fs, x, TRUE)
      env == Exp2AnyRegUp(SingleVarAux(s.fs, "_ENV", TRUE))
  IN  IF s.e.k = "void" THEN Indexed(env.fs, env.e, ExpValue("str", StrVal(x))) ELSE s

\* -- mutant: a constant of an enclosing function may be assigned
CheckReadOnly_Here(fs, e) ==
  LET kind == CASE e.k = "const" -> "ctc" [] e.k = "local" -> fs.vars[e.idx].kind [] OTHER -> "reg"
  IN  IF kind # "reg" THEN Fail(fs, "const") ELSE fs

CheckReadOnly(fs, e) ==
  LET kind == CASE e.k = "const" -> "ctc"
                [] e.k = "local" -> fs.vars[e.idx].kind
                [] e.k = "upval" -> fs.ups[e.info + 1].kind
                [] OTHER -> "reg"
  IN  IF kind # "reg" THEN Fail(fs, "const") ELSE fs

\* 'n' expressions, the last one e, for 'nvars' variables
AdjustAssign(fs, nvars, n, e) ==
  LET needed == nvars - n
      g == CASE HasMultRet(e) -> SetReturns(fs, e, Max({needed + 1, 0}))
             [] ~HasMultRet(e) /\ e.k # "void" -> Exp2NextReg(Pair(fs, e)).fs
             [] OTHER -> fs
      h == IF ~HasMultRet(e) /\ needed > 0 THEN CodeNil(g, g.freereg, needed) ELSE g
  IN  IF needed > 0 THEN ReserveRegs(h, needed) ELSE [h EXCEPT !.freereg = @ + needed]

-----------------------------------------------------------------------------
\* Labels, gotos and blocks

NewGoto(fs, x, pc) ==
  [fs EXCEPT !.gts = Append(@, [name |-> x, pc |-> pc, nactvar |-> fs.nactvar, close |-> FALSE])]
FindLabel(fs, x) == SelectSeq(fs.labels, LAMBDA l : l.name = x)

\* the pending gotos of the block that lb resolves: <<fs, one needs a close>>
SolveGotos(fs, lb) ==
  LET first == Block(fs).firstgoto
      mine  == SelectSeq(SubSeq(fs.gts, first, Len(fs.gts)), LAMBDA g : g.name = lb.name)
      rest  == SelectSeq(SubSeq(fs.gts, first, Len(fs.gts)), LAMBDA g : g.name # lb.name)
      Solve(h, g) == PatchList(IF g.nactvar < lb.nactvar THEN Fail(h, "jumps into scope") ELSE h,
                               g.pc, lb.pc)
  IN  <<[FoldLeft(Solve, fs, mine) EXCEPT !.gts = SubSeq(fs.gts, 1, first - 1) \o rest],
        \E g \in Range(mine) : g.close>>

CreateLabel(fs, x, last) ==
  LET g  == GetLabel(fs)
      lb == [name |-> x, pc |-> Pc(fs), nactvar |-> IF last THEN Block(fs).nactvar ELSE fs.nactvar]
      s  == SolveGotos([g EXCEPT !.labels = Append(@, lb)], lb)
  IN  IF s[2] THEN <<Emit(s[1], "CLOSE", NVarStack(s[1]), 0, 0, 0), TRUE>> ELSE <<s[1], FALSE>>

EnterBlock(fs, isloop) ==
  [fs EXCEPT !.bl = Append(@, [isloop |-> isloop, nactvar |-> fs.nactvar, upval |-> FALSE,
                               firstlabel |-> Len(fs.labels), firstgoto |-> Len(fs.gts) + 1,
                               insidetbc |-> IF @ = <<>> THEN FALSE ELSE Last(@).insidetbc])]

\* -- mutant: a goto that leaves the block no longer asks for a close
MoveGotosOut_NoClose(fs, bl) ==
  [fs EXCEPT !.gts = [i \in DOMAIN @ |->
     IF i < bl.firstgoto THEN @[i] ELSE [@[i] EXCEPT !.nactvar = bl.nactvar]]]

MoveGotosOut(fs, bl) ==
  [fs EXCEPT !.gts = [i \in DOMAIN @ |->
     IF i < bl.firstgoto THEN @[i]
     ELSE [@[i] EXCEPT !.nactvar = bl.nactvar,
             !.close = @ \/ (bl.upval /\ RegLevel(fs, fs.gts[i].nactvar) > RegLevel(fs, bl.nactvar))]]]

\* movegotosout reads the levels of variables that removevars has already taken
\* off the list, but left in the array: 'old' still has them
LeaveBlock(fs) ==
  LET bl    == Block(fs)
      outer == Len(fs.bl) > 1
      level == RegLevel(fs, bl.nactvar)
      gone  == RemoveVars(fs, bl.nactvar)
      s     == IF bl.isloop THEN CreateLabel(gone, "break", FALSE) ELSE <<gone, FALSE>>
      g     == IF ~s[2] /\ outer /\ bl.upval THEN Emit(s[1], "CLOSE", level, 0, 0, 0) ELSE s[1]
      h     == [g EXCEPT !.freereg = level, !.labels = SubSeq(@, 1, bl.firstlabel), !.bl = Front(@)]
      old   == [h EXCEPT !.vars = fs.vars]
  IN  IF outer THEN [MoveGotosOut(old, bl) EXCEPT !.vars = h.vars]
      ELSE IF h.gts # <<>> THEN Fail(h, "no visible label") ELSE h

-----------------------------------------------------------------------------
\* Expressions

RECURSIVE Expr(_, _), StatList(_, _, _)

OpenFunc(prev) ==
  EnterBlock([code |-> <<>>, k |-> <<>>, freereg |-> 0, maxstack |-> 2, lasttarget |-> 0,
              vars |-> <<>>, nactvar |-> 0, needclose |-> FALSE, isvararg |-> FALSE,
              numparams |-> 0, bl |-> <<>>, gts |-> <<>>, labels |-> <<>>, ups |-> <<>>,
              protos |-> <<>>, prev |-> prev, err |-> ""], FALSE)

\* the final state of a function; its prototype is the part the machine reads
CloseFunc(fs) == Finish(LeaveBlock(Ret(fs, NVarStack(fs), 0)))
Proto(fs) == [code |-> fs.code, k |-> fs.k, maxstack |-> fs.maxstack, ups |-> fs.ups,
              protos |-> fs.protos, numparams |-> fs.numparams, isvararg |-> fs.isvararg]

SetVararg(fs, n) == Emit([fs EXCEPT !.isvararg = TRUE], "VARARGPREP", n, 0, 0, 0)

ParList(fs, f) ==
  LET g == AdjustLocalVars(NewLocals(fs, f.params), Len(f.params))
      h == [g EXCEPT !.numparams = g.nactvar]
  IN  ReserveRegs(IF f.vararg THEN SetVararg(h, h.numparams) ELSE h, h.nactvar)

Body(fs, f, ismethod) ==
  LET open  == OpenFunc(<<fs>>)
      self  == IF ismethod THEN AdjustLocalVars(NewLocal(open, "self", "reg"), 1) ELSE open
      inner == CloseFunc(StatList(ParList(self, f), f.body, FALSE))
      outer == [inner.prev[1] EXCEPT !.protos = Append(@, Proto(inner))]
      code  == Emit(IF inner.err # "" THEN Fail(outer, inner.err) ELSE outer,
                    "CLOSURE", 0, Len(fs.protos), 0, 0)
  IN  Exp2NextReg(Pair(code, Exp("reloc", Pc(outer))))

\* all but the last are put in registers
RECURSIVE ExpList(_, _)
ExpList(fs, es) ==
  LET s == Expr(fs, Head(es))
  IN  IF Len(es) = 1 \/ s.fs.err # "" THEN s ELSE ExpList(Exp2NextReg(s).fs, Tail(es))

ExpVal(fs, e) == Exp2Val(Expr(fs, e))

FuncArgs(s, args) ==
  LET base == s.e.info
      a    == IF args = <<>> THEN Pair(s.fs, Void) ELSE ExpList(s.fs, args)
      open == HasMultRet(a.e)
      g    == CASE open -> SetReturns(a.fs, a.e, MultRet)
                [] a.e.k = "void" -> a.fs
                [] OTHER -> Exp2NextReg(a).fs
      n    == IF open THEN MultRet ELSE g.freereg - (base + 1)
  IN  Pair([Emit(g, "CALL", base, n + 1, 2, 0) EXCEPT !.freereg = base + 1], Exp("call", Pc(g)))

\* a table constructor: cc is [fs, v, na, tostore]
CloseListField(cc, table) ==
  LET g == Exp2NextReg(Pair(cc.fs, cc.v)).fs
  IN  IF cc.v.k = "void" THEN cc
      ELSE IF cc.tostore = FieldsPerFlush
           THEN [cc EXCEPT !.fs = SetList(g, table, cc.na, cc.tostore), !.v = Void,
                           !.na = @ + cc.tostore, !.tostore = 0]
           ELSE [cc EXCEPT !.fs = g, !.v = Void]

LastListField(cc, table) ==
  LET g == SetReturns(cc.fs, cc.v, MultRet)
      h == IF cc.v.k = "void" THEN cc.fs ELSE Exp2NextReg(Pair(cc.fs, cc.v)).fs
  IN  IF cc.tostore = 0 THEN cc.fs
      ELSE IF HasMultRet(cc.v) THEN SetList(g, table, cc.na, MultRet)
      ELSE SetList(h, table, cc.na, cc.tostore)

RecField(cc, table, item) ==
  LET k == ExpVal(cc.fs, item.key)
      t == Indexed(k.fs, Exp("nonreloc", table), k.e)
      v == Expr(t.fs, item.v)
  IN  [cc EXCEPT !.fs = [StoreVar(v.fs, t.e, v.e) EXCEPT !.freereg = cc.fs.freereg]]

Constructor(fs, items) ==
  LET table == fs.freereg
      g  == ReserveRegs(Emit(Emit(fs, "NEWTABLE", table, 0, 0, 0), "EXTRAARG", 0, 0, 0, 0), 1)
      Field(cc0, item) ==
        LET cc == CloseListField(cc0, table)
            x  == Expr(cc.fs, item.v)
        IN  IF item.key # <<>> THEN RecField(cc, table, [item EXCEPT !.key = @[1]])
            ELSE [cc EXCEPT !.fs = x.fs, !.v = x.e, !.tostore = @ + 1]
      cc == FoldLeft(Field, [fs |-> g, v |-> Void, na |-> 0, tostore |-> 0], items)
  IN  Pair(LastListField(cc, table), Exp("nonreloc", table))

\* e[key]
Index(fs, e, key) ==
  LET o == Exp2AnyRegUp(Expr(fs, e))
      k == ExpVal(o.fs, key)
  IN  Indexed(k.fs, o.e, k.e)

Expr(fs, e) ==
  IF fs.err # "" THEN Pair(fs, Void) ELSE
  CASE e.e \in {"nil", "true", "false"} -> Pair(fs, Exp(e.e, 0))
    [] e.e = "int"    -> Pair(fs, ExpValue("int", IntVal(e.n)))
    [] e.e = "str"    -> Pair(fs, ExpValue("str", StrVal(e.s)))
    [] e.e = "vararg" -> LET g == IF fs.isvararg THEN fs ELSE Fail(fs, "vararg")
                         IN  Pair(Emit(g, "VARARG", 0, 0, 1, 0), Exp("vararg", Pc(fs)))
    [] e.e = "table"  -> Constructor(fs, e.items)
    [] e.e = "func"   -> Body(fs, e.f, FALSE)
    [] e.e = "name"   -> SingleVar(fs, e.x)
    [] e.e = "paren"  -> DischargeVars(Expr(fs, e.a))
    [] e.e = "index"  -> Index(fs, e.a, e.key)
    [] e.e = "call"   -> FuncArgs(Exp2NextReg(Expr(fs, e.a)), e.args)
    [] e.e = "method" -> LET o == Expr(fs, e.a)
                         IN  FuncArgs(Self(o, ExpValue("str", StrVal(e.x))), e.args)
    [] e.e = "un"     -> Prefix(Expr(fs, e.a), e.op)
    [] e.e = "bin"    -> LET x == Infix(Expr(fs, e.a), e.op)
                             y == Expr(x.fs, e.b)
                         IN  Posfix(y, e.op, x.e)

-----------------------------------------------------------------------------
\* Statements

BlockStat(fs, ss) == LeaveBlock(StatList(EnterBlock(fs, FALSE), ss, FALSE))
Exp1(fs, e)       == Exp2NextReg(Expr(fs, e)).fs
Cond(fs, e)       == GoIfTrue(LET s == Expr(fs, e) IN IF s.e.k = "nil" THEN Pair(s.fs, [s.e EXCEPT !.k = "false"]) ELSE s)

\* v, assigned later in the same statement, is the table or the key of an
\* earlier target: those use a copy.  <<fs, the targets>>
CheckConflict(fs, lhs, v) ==
  LET extra == fs.freereg
      U(l) == l.k = "indexup" /\ v.k = "upval" /\ l.info = v.info
      T(l) == l.k \in {"indexed", "indexstr", "indexi"} /\ v.k = "local" /\ l.info = v.info
      K(l) == l.k = "indexed" /\ v.k = "local" /\ l.idx = v.info
      Safe(l) == [l EXCEPT !.k = IF U(l) THEN "indexstr" ELSE @,
                           !.info = IF U(l) \/ T(l) THEN extra ELSE @,
                           !.idx = IF K(l) THEN extra ELSE @]
      copy == IF v.k = "local" THEN "MOVE" ELSE "GETUPVAL"
  IN  IF \E i \in DOMAIN lhs : U(lhs[i]) \/ T(lhs[i]) \/ K(lhs[i])
      THEN <<ReserveRegs(Emit(fs, copy, extra, v.info, 0, 0), 1), [i \in DOMAIN lhs |-> Safe(lhs[i])]>>
      ELSE <<fs, lhs>>

\* restassign: read the targets, then the values, then store from the last target
RestAssign(fs, targets, es) ==
  LET Target(acc, e) ==
        LET s == Expr(acc[1], e)
            plain == s.e.k \in {"local", "upval"}
            c == IF plain /\ acc[2] # <<>> THEN CheckConflict(s.fs, acc[2], s.e) ELSE <<s.fs, acc[2]>>
        IN  <<CheckReadOnly(c[1], s.e), Append(c[2], s.e)>>
      read == FoldLeft(Target, <<fs, <<>>>>, targets)
      lhs  == read[2]
      n    == Len(lhs)
      s    == ExpList(read[1], es)
      one  == SetOneRet(s)
      same == Len(es) = n
      g    == IF same THEN StoreVar(one.fs, lhs[n], one.e) ELSE AdjustAssign(s.fs, n, Len(es), s.e)
      Store(h, l) == StoreVar(h, l, Exp("nonreloc", h.freereg - 1))
  IN  FoldLeft(Store, g, Reverse(IF same THEN Front(lhs) ELSE lhs))

GotoStat(fs, x) ==
  LET found == FindLabel(fs, x)
      level == RegLevel(fs, found[1].nactvar)
      g     == IF NVarStack(fs) > level THEN Emit(fs, "CLOSE", level, 0, 0, 0) ELSE fs
  IN  IF found = <<>> THEN NewGoto(Jump(fs), x, Pc(fs))
      ELSE PatchList(Jump(g), Pc(g), found[1].pc)

LabelStat(fs, x, last) ==
  CreateLabel(IF FindLabel(fs, x) # <<>> THEN Fail(fs, "label already defined") ELSE fs, x, last)[1]

WhileStat(fs, c, body) ==
  LET top  == Pc(fs)
      s    == Cond(GetLabel(fs), c)
      loop == JumpTo(BlockStat(EnterBlock(s.fs, TRUE), body), top)
  IN  PatchToHere(LeaveBlock(loop), s.e.f)

RepeatStat(fs, body, c) ==
  LET top  == Pc(fs)
      in   == StatList(EnterBlock(EnterBlock(GetLabel(fs), TRUE), FALSE), body, TRUE)
      s    == Cond(in, c)
      bl   == Block(s.fs)
      out  == LeaveBlock(s.fs)
      exit == Pc(out)                          \* jumps over the close
      shut == Emit(PatchToHere(Jump(out), s.e.f), "CLOSE", RegLevel(out, bl.nactvar), 0, 0, 0)
      back == PatchToHere(Jump(shut), exit)
  IN  LeaveBlock(IF bl.upval THEN PatchList(back, Pc(shut), top) ELSE PatchList(out, s.e.f, top))

\* the variables of a loop, after the three or four that control it
ForBody(fs, base, n, isgen, body) ==
  LET prep == Pc(fs)
      g == Emit(fs, IF isgen THEN "TFORPREP" ELSE "FORPREP", base, 0, 0, 0)
      h == ReserveRegs(AdjustLocalVars(EnterBlock(g, FALSE), n), n)
      b == GetLabel(LeaveBlock(BlockStat(h, body)))
      p == [b EXCEPT !.code[prep + 1].b = Pc(b) - (prep + 1)]
      c == IF isgen THEN Emit(p, "TFORCALL", base, 0, n, 0) ELSE p
  IN  Emit(c, IF isgen THEN "TFORLOOP" ELSE "FORLOOP", base, Pc(c) + 1 - (prep + 1), 0, 0)

Control3 == <<"(for state)", "(for state)", "(for state)">>

ForNum(fs, x, init, limit, step, body) ==
  LET base == fs.freereg
      v == NewLocal(NewLocals(fs, Control3), x, "reg")
      g == Exp1(Exp1(v, init), limit)
      h == IF step = <<>> THEN ReserveRegs(CodeInt(g, g.freereg, 1), 1) ELSE Exp1(g, step[1])
  IN  ForBody(AdjustLocalVars(h, 3), base, 1, FALSE, body)

\* -- mutant: no room for the call of the iterator
ForList_NoRoom(fs, xs, es, body) ==
  LET base == fs.freereg
      s == ExpList(NewLocals(fs, Control3 \o <<"(for state)">> \o xs), es)
      g == AdjustLocalVars(AdjustAssign(s.fs, 4, Len(es), s.e), 4)
  IN  ForBody(MarkToBeClosed(g), base, Len(xs), TRUE, body)

ForList(fs, xs, es, body) ==
  LET base == fs.freereg
      s == ExpList(NewLocals(fs, Control3 \o <<"(for state)">> \o xs), es)
      g == AdjustLocalVars(AdjustAssign(s.fs, 4, Len(es), s.e), 4)
  IN  ForBody(CheckStack(MarkToBeClosed(g), 3), base, Len(xs), TRUE, body)

\* an arm of an 'if': acc is <<fs, the jumps that leave the statement>>
TestThenBlock(fs, escape, c, body, more) ==
  LET s     == Expr(fs, c)
      break == IF body = <<>> THEN FALSE ELSE body[1].st = "break"
      f     == GoIfFalse(s)
      brk   == NewGoto(EnterBlock(f.fs, FALSE), "break", f.e.t)
      t     == GoIfTrue(s)
      in    == IF break THEN Jump(brk) ELSE EnterBlock(t.fs, FALSE)
      jf    == IF break THEN Pc(brk) ELSE t.e.f
      out   == LeaveBlock(StatList(in, IF break THEN Tail(body) ELSE body, FALSE))
      esc   == IF more THEN Concat(Jump(out), escape, Pc(out)) ELSE <<out, escape>>
  IN  IF break /\ Len(body) = 1 THEN <<LeaveBlock(brk), escape>>
      ELSE <<PatchToHere(esc[1], jf), esc[2]>>

IfStat(fs, arms, else) ==
  LET Arm(acc, i) == TestThenBlock(acc[1], acc[2], arms[i].c, arms[i].body,
                                   i < Len(arms) \/ else # <<>>)
      r == FoldLeft(Arm, <<fs, NoJump>>, [i \in DOMAIN arms |-> i])
      g == IF else = <<>> THEN r[1] ELSE BlockStat(r[1], else[1])
  IN  PatchToHere(g, r[2])

LocalFunc(fs, x, f) == Body(AdjustLocalVars(NewLocal(fs, x, "reg"), 1), f, FALSE).fs
FuncStat(fs, target, f, ismethod) ==
  LET v == Expr(fs, target)
      b == Body(v.fs, f, ismethod)
  IN  StoreVar(CheckReadOnly(b.fs, v.e), v.e, b.e)

\* luaK_exp2const
IsConst(e) == ~HasJumps(e) /\ e.k \in {"nil", "true", "false", "int", "str", "const"}

LocalStat(fs, xs, es) ==
  LET kinds == [i \in DOMAIN xs |-> xs[i].attr]
      close == {i \in DOMAIN xs : kinds[i] = "close"}
      n  == Len(xs)
      g  == FoldLeft(LAMBDA h, x : NewLocal(h, x.x, x.attr), fs, xs)
      s  == IF es = <<>> THEN Pair(g, Void)
            ELSE ExpList(IF Cardinality(close) > 1 THEN Fail(g, "multiple close") ELSE g, es)
      ctc == n = Len(es) /\ kinds[n] = "const" /\ IsConst(s.e)
      h  == [s.fs EXCEPT !.vars[Len(s.fs.vars)] = [@ EXCEPT !.kind = "ctc", !.v = ToConst(s.e)]]
      v  == IF ctc THEN [AdjustLocalVars(h, n - 1) EXCEPT !.nactvar = @ + 1]
            ELSE AdjustLocalVars(AdjustAssign(s.fs, n, Len(es), s.e), n)
  IN  IF close = {} THEN v
      ELSE Emit(MarkToBeClosed(v), "TBC", RegLevel(v, fs.nactvar + Min(close) - 1), 0, 0, 0)

ExprStat(fs, call) == LET s == Expr(fs, call) IN SetC(s.fs, s.e.info, 1)

RetStat(fs, es) ==
  LET first == NVarStack(fs)
      s    == ExpList(fs, es)
      open == SetReturns(s.fs, s.e, MultRet)
      tail == s.e.k = "call" /\ Len(es) = 1 /\ ~Block(fs).insidetbc
      one  == Exp2AnyReg(s)
  IN  CASE es = <<>> -> Ret(fs, first, 0)
        [] es # <<>> /\ HasMultRet(s.e) ->
             Ret(IF tail THEN [open EXCEPT !.code[s.e.info + 1].op = "TAILCALL"] ELSE open, first, MultRet)
        [] es # <<>> /\ ~HasMultRet(s.e) /\ Len(es) = 1 -> Ret(one.fs, one.e.info, 1)
        [] OTHER -> Ret(Exp2NextReg(s).fs, first, Len(es))

Stat(fs, s) ==
  CASE s.st = "local"     -> LocalStat(fs, s.xs, s.es)
    [] s.st = "assign"    -> RestAssign(fs, s.lhs, s.es)
    [] s.st = "call"      -> ExprStat(fs, s.a)
    [] s.st = "do"        -> BlockStat(fs, s.body)
    [] s.st = "while"     -> WhileStat(fs, s.c, s.body)
    [] s.st = "repeat"    -> RepeatStat(fs, s.body, s.c)
    [] s.st = "if"        -> IfStat(fs, s.arms, s.els)
    [] s.st = "fornum"    -> LeaveBlock(ForNum(EnterBlock(fs, TRUE), s.x, s.init, s.limit, s.step, s.body))
    [] s.st = "forlist"   -> LeaveBlock(ForList(EnterBlock(fs, TRUE), s.vars, s.es, s.body))
    [] s.st = "localfunc" -> LocalFunc(fs, s.x, s.f)
    [] s.st = "func"      -> FuncStat(fs, s.a, s.f, s.ismethod)
    [] s.st = "goto"      -> GotoStat(fs, s.x)
    [] s.st = "break"     -> NewGoto(Jump(fs), "break", Pc(fs))
    [] s.st = "return"    -> RetStat(fs, s.es)

FreeAll(fs) == [fs EXCEPT !.freereg = NVarStack(fs)]

\* a list of statements; 'until' closes it without closing its scope, so that a
\* label before it is not the last thing in its block.  The labels of a row are
\* made from the last one.  An error ends the compilation
StatList(fs, ss, until) ==
  LET n == Max({0} \cup {i \in DOMAIN ss : \A j \in 1 .. i : ss[j].st = "label"})
      rest == SubSeq(ss, n + 1, Len(ss))
      Label(g, s) == FreeAll(LabelStat(g, s.x, rest = <<>> /\ ~until))
  IN  IF ss = <<>> \/ fs.err # "" THEN fs
      ELSE IF n > 0 THEN StatList(FoldLeft(Label, fs, Reverse(SubSeq(ss, 1, n))), rest, until)
      ELSE StatList(FreeAll(Stat(fs, Head(ss))), Tail(ss), until)

\* mainfunc: a vararg function whose upvalue is the globals' table
Compile(body) ==
  LET fs == SetVararg(OpenFunc(<<>>), 0)
      up == [fs EXCEPT !.ups = <<[name |-> "_ENV", instack |-> TRUE, idx |-> 0, kind |-> "reg"]>>]
  IN  CloseFunc(StatList(up, body, FALSE))
=============================================================================
