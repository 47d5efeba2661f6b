------------------------------- MODULE Semantics -------------------------------
(***************************************************************************)
(* What a program means, by itself: an evaluator of the trees that knows    *)
(* neither registers nor instructions nor upvalues.  A variable is a place  *)
(* of the store, an environment a sequence of names and places, the         *)
(* innermost last.  It is the definition the compiled code is compared with.*)
(*                                                                          *)
(* s: [store, tabs, fns, trace, err]; c: [env, va].  A failed operation     *)
(* sets s.err, and nothing is seen after it.                                *)
(***************************************************************************)
EXTENDS Values

LOCAL Is(s, x)  == [s |-> s, v |-> x]
LOCAL Fails(s)  == [s EXCEPT !.err = TRUE]
LOCAL See(s, events) == IF s.err THEN s ELSE [s EXCEPT !.trace = @ \o events]
LOCAL One(r)    == IF r.v = <<>> THEN NilVal ELSE r.v[1]
\* an operation that fails calls a metamethod if there is one
LOCAL Operation(s, op, v, a, b) ==
  IF v # Err \/ s.err THEN Is(s, <<v>>)
  ELSE IF HasMeta(a, b) THEN Is(See(s, <<Event(op, a, b)>>), <<Answer(op, a)>>) ELSE Is(Fails(s), <<NilVal>>)
LOCAL Checked(s, v) == IF v = Err THEN Is(Fails(s), <<NilVal>>) ELSE Is(s, <<v>>)

\* new variables with their values, the missing ones nil
Bind(s, c, xs, vs) ==
  LET n == Len(s.store)
      new == [i \in DOMAIN xs |-> IF i <= Len(vs) THEN vs[i] ELSE NilVal]
  IN  [s |-> [s EXCEPT !.store = @ \o new],
       c |-> [c EXCEPT !.env = @ \o [i \in DOMAIN xs |-> <<xs[i], n + i>>]]]

Place(c, x) == LET found == {i \in DOMAIN c.env : c.env[i][1] = x}
               IN  IF found = {} THEN 0 ELSE c.env[Max(found)][2]
GlobalTable == [t |-> "table", id |-> 1]

GetIndex(s, t, k) ==
  IF s.err THEN Is(s, <<NilVal>>) ELSE Checked(s, IF t.t = "table" THEN RawGet(s.tabs[t.id], k) ELSE Err)
SetIndex(s, t, k, v) ==
  IF s.err THEN s ELSE IF t.t # "table" \/ k = NilVal THEN Fails(s) ELSE [s EXCEPT !.tabs[t.id] = RawSet(@, k, v)]

RECURSIVE Eval(_, _, _), Values(_, _, _), Apply(_, _, _), Run(_, _, _, _, _, _), Loop(_, _, _),
          Count(_, _, _, _, _, _), Each(_, _, _, _, _)

Eval(s, c, e) ==
  CASE e.e = "nil"    -> Is(s, <<NilVal>>)
    [] e.e = "true"   -> Is(s, <<True>>)
    [] e.e = "false"  -> Is(s, <<False>>)
    [] e.e = "int"    -> Is(s, <<IntVal(e.n)>>)
    [] e.e = "str"    -> Is(s, <<StrVal(e.s)>>)
    [] e.e = "vararg" -> Is(s, c.va)
    [] e.e = "func"   -> Is([s EXCEPT !.fns = Append(@, [f |-> e.f, env |-> c.env])],
                            <<[t |-> "fn", id |-> Len(s.fns) + 1]>>)
    [] e.e = "name"   -> LET p == Place(c, e.x)
                         IN  IF p = 0 THEN GetIndex(s, GlobalTable, StrVal(e.x)) ELSE Is(s, <<s.store[p]>>)
    [] e.e = "paren"  -> LET r == Eval(s, c, e.a) IN Is(r.s, <<One(r)>>)
    [] e.e = "index"  -> LET o == Eval(s, c, e.a)
                             k == Eval(o.s, c, e.key)
                         IN  GetIndex(k.s, One(o), One(k))
    [] e.e = "call"   -> LET f == Eval(s, c, e.a)
                             a == Values(f.s, c, e.args)
                         IN  Apply(a.s, One(f), a.v)
    [] e.e = "method" -> LET o == Eval(s, c, e.a)
                             f == GetIndex(o.s, One(o), StrVal(e.x))
                             a == Values(f.s, c, e.args)
                         IN  Apply(a.s, One(f), <<One(o)>> \o a.v)
    [] e.e = "table"  ->
         LET id == Len(s.tabs) + 1
             T  == [t |-> "table", id |-> id]
             Item(acc, i) ==
               LET it == e.items[i]
                   k == Eval(acc.s, c, it.key[1])
                   v == Eval(IF it.key = <<>> THEN acc.s ELSE k.s, c, it.v)
                   all == IF i = Len(e.items) THEN v.v ELSE <<One(v)>>
               IN  IF it.key # <<>> THEN [acc EXCEPT !.s = SetIndex(v.s, T, One(k), One(v))]
                   ELSE [s |-> FoldLeft(LAMBDA u, j : SetIndex(u, T, IntVal(acc.n + j), all[j]), v.s,
                                        [j \in DOMAIN all |-> j]),
                         n |-> acc.n + Len(all)]
             r == FoldLeft(Item, [s |-> [s EXCEPT !.tabs = Append(@, <<>>)], n |-> 0],
                           [i \in DOMAIN e.items |-> i])
         IN  Is(r.s, <<T>>)
    [] e.e = "un"     -> LET r == Eval(s, c, e.a)
                             x == One(r)
                         IN  CASE e.op = "not" -> Is(r.s, <<Bool(IsFalse(x))>>)
                               [] e.op = "len" /\ x.t \in {"str", "table"} ->
                                    Is(r.s, <<Length(x, IF x.t = "table" THEN r.s.tabs[x.id] ELSE <<>>)>>)
                               [] OTHER -> Operation(r.s, e.op, IF e.op = "len" THEN Err ELSE Arithmetic(e.op, x, IF x.t = "int" THEN IntVal(0) ELSE x), x, x)
    [] e.e = "bin"    ->
         LET a == Eval(s, c, e.a)
             x == One(a)
             b == Eval(a.s, c, e.b)
             y == One(b)
         IN  CASE e.op = "and" -> IF IsFalse(x) THEN Is(a.s, <<x>>) ELSE Is(b.s, <<y>>)
               [] e.op = "or"  -> IF IsFalse(x) THEN Is(b.s, <<y>>) ELSE Is(a.s, <<x>>)
               [] e.op = "eq"  -> Is(b.s, <<Bool(x = y)>>)
               [] e.op = "ne"  -> Is(b.s, <<Bool(x # y)>>)
               [] e.op \in {"lt", "le"} -> Operation(b.s, e.op, Compare(e.op, x, y), x, y)
               [] e.op = "gt" -> Operation(b.s, "lt", Compare("lt", y, x), y, x)
               [] e.op = "ge" -> Operation(b.s, "le", Compare("le", y, x), y, x)
               [] e.op = "concat" -> Operation(b.s, "concat", Join(x, y), x, y)
               [] OTHER -> Operation(b.s, e.op, Arithmetic(e.op, x, y), x, y)

\* a list of expressions gives all the values of the last
Values(s, c, es) ==
  LET More(acc, i) == LET r == Eval(acc.s, c, es[i])
                      IN  Is(r.s, acc.v \o (IF i = Len(es) THEN r.v ELSE <<One(r)>>))
  IN  FoldLeft(More, Is(s, <<>>), [i \in DOMAIN es |-> i])

-----------------------------------------------------------------------------
\* Statements end normally or by a break, a goto or a return.  A block runs from
\* its p-th statement; before[i] is the environment, and the number of values to
\* close, that statement i found

Normal == [k |-> "normal", x |-> "", v |-> <<>>]
Does(s, c, sig) == [s |-> s, c |-> c, sig |-> sig, tbc |-> <<>>]
Close(s, tbc)   == See(s, [i \in DOMAIN tbc |-> <<"close", Reverse(tbc)[i]>>])

\* the whole block, with the condition of an 'until' in its scope
BlockOf(s, c, ss, until) ==
  LET r == Run(s, c, ss, 1, <<>>, <<>>)
      u == Eval(r.s, r.c, until[1])
      cond == until # <<>> /\ r.sig.k = "normal"
  IN  [s |-> Close(IF cond THEN u.s ELSE r.s, r.tbc), sig |-> r.sig, done |-> cond /\ (cond => ~IsFalse(One(u)))]

Exits(sig) == IF sig.k = "break" THEN Normal ELSE sig

AssignTo(s, ref, v) ==
  IF s.err THEN s ELSE IF ref[1] = "place" THEN [s EXCEPT !.store[ref[2]] = v] ELSE SetIndex(s, ref[2], ref[3], v)

\* the place a target names: [s, ref]
Ref(s, c, e) ==
  LET p == Place(c, e.x)
      o == Eval(s, c, e.a)
      k == Eval(o.s, c, e.key)
  IN  IF e.e = "name" THEN [s |-> s, ref |-> IF p # 0 THEN <<"place", p>> ELSE <<"key", GlobalTable, StrVal(e.x)>>]
      ELSE [s |-> k.s, ref |-> <<"key", One(o), One(k)>>]

Assign(s, c, lhs, es) ==
  LET Read(acc, e) == LET r == Ref(acc[1], c, e) IN <<r.s, Append(acc[2], r.ref)>>
      refs == FoldLeft(Read, <<s, <<>>>>, lhs)
      vs   == Values(refs[1], c, es)
      V(i) == IF i <= Len(vs.v) THEN vs.v[i] ELSE NilVal
  IN  FoldLeft(LAMBDA u, i : AssignTo(u, refs[2][i], V(i)), vs.s, Reverse([i \in DOMAIN lhs |-> i]))

Exec(s, c, st) ==
  CASE st.st = "local" ->
         LET vs == Values(s, c, st.es)
             b  == Bind(vs.s, c, [i \in DOMAIN st.xs |-> st.xs[i].x], vs.v)
             V(i) == IF i <= Len(vs.v) THEN vs.v[i] ELSE NilVal
             close == SelectSeq([i \in DOMAIN st.xs |-> i], LAMBDA i : st.xs[i].attr = "close" /\ ~IsFalse(V(i)))
             bad == \E i \in Range(close) : V(i).t # "obj"
         IN  [Does(IF bad THEN Fails(b.s) ELSE b.s, b.c, Normal)
                EXCEPT !.tbc = IF bad THEN <<>> ELSE [i \in DOMAIN close |-> V(close[i])]]
    [] st.st = "assign"  -> Does(Assign(s, c, st.lhs, st.es), c, Normal)
    [] st.st = "func"    ->
         LET f == [st.f EXCEPT !.params = (IF st.ismethod THEN <<"self">> ELSE <<>>) \o @]
         IN  Does(Assign(s, c, <<st.a>>, <<[e |-> "func", f |-> f]>>), c, Normal)
    [] st.st = "localfunc" ->
         LET b == Bind(s, c, <<st.x>>, <<>>)
             f == Eval(b.s, b.c, [e |-> "func", f |-> st.f])
         IN  Does([f.s EXCEPT !.store[Len(s.store) + 1] = One(f)], b.c, Normal)
    [] st.st = "call"    -> Does(Eval(s, c, st.a).s, c, Normal)
    [] st.st = "label"   -> Does(s, c, Normal)
    [] st.st = "goto"    -> Does(s, c, [Normal EXCEPT !.k = "goto", !.x = st.x])
    [] st.st = "break"   -> Does(s, c, [Normal EXCEPT !.k = "break"])
    [] st.st = "return"  -> LET vs == Values(s, c, st.es)
                            IN  Does(vs.s, c, [Normal EXCEPT !.k = "return", !.v = vs.v])
    [] st.st = "do"      -> LET r == BlockOf(s, c, st.body, <<>>) IN Does(r.s, c, r.sig)
    [] st.st \in {"while", "repeat"} -> LET r == Loop(s, c, st) IN Does(r.s, c, r.sig)
    [] st.st = "if"      ->
         LET Arm(acc, a) == LET v == Eval(acc.s, c, a.c)
                            IN  IF acc.done THEN acc
                                ELSE IF IsFalse(One(v)) THEN [acc EXCEPT !.s = v.s]
                                ELSE LET r == BlockOf(v.s, c, a.body, <<>>)
                                     IN  [s |-> r.s, sig |-> r.sig, done |-> TRUE]
             arms == FoldLeft(Arm, [s |-> s, sig |-> Normal, done |-> FALSE], st.arms)
             els  == BlockOf(arms.s, c, st.els[1], <<>>)
         IN  IF arms.done \/ st.els = <<>> THEN Does(arms.s, c, arms.sig) ELSE Does(els.s, c, els.sig)
    [] st.st = "fornum"  ->
         LET vs == Values(s, c, <<st.init, st.limit>> \o st.step)
             by == IF Len(vs.v) = 3 THEN vs.v[3] ELSE IntVal(1)
             bad == {vs.v[1].t, vs.v[2].t, by.t} # {"int"} \/ by = IntVal(0)
             r  == Count(vs.s, c, st, vs.v[1].n, vs.v[2].n, by.n)
         IN  IF bad \/ vs.s.err THEN Does(Fails(vs.s), c, Normal) ELSE Does(r.s, c, r.sig)
    [] st.st = "forlist" ->
         LET vs == Values(s, c, st.es)
             V(i) == IF i <= Len(vs.v) THEN vs.v[i] ELSE NilVal
             r  == Each(vs.s, c, st, <<V(1), V(2)>>, V(3))
             tbc == IF IsFalse(V(4)) THEN <<>> ELSE <<V(4)>>
         IN  IF ~IsFalse(V(4)) /\ V(4).t # "obj" THEN Does(Fails(vs.s), c, Normal)
             ELSE Does(Close(r.s, tbc), c, r.sig)

Run(s, c, ss, p, before, tbc) ==
  LET r == Exec(s, c, ss[p])
      here == [i \in 1 .. Len(before) + 1 |-> IF i <= Len(before) THEN before[i] ELSE [c |-> c, n |-> Len(tbc)]]
      to == {j \in DOMAIN ss : ss[j].st = "label" /\ (ss[j].st = "label" => ss[j].x = r.sig.x)}
      j  == Min(to)
      back == SubSeq(tbc, before[j].n + 1, Len(tbc))
  IN  CASE s.err \/ p > Len(ss) -> [s |-> s, c |-> c, sig |-> Normal, tbc |-> tbc]
        [] OTHER ->
            IF r.sig.k = "normal" THEN Run(r.s, r.c, ss, p + 1, here, tbc \o r.tbc)
            ELSE IF r.sig.k # "goto" \/ to = {} THEN [s |-> r.s, c |-> c, sig |-> r.sig, tbc |-> tbc]
            ELSE IF j < p THEN Run(Close(r.s, back), before[j].c, ss, j, SubSeq(before, 1, j - 1),
                                   SubSeq(tbc, 1, before[j].n))
            ELSE Run(r.s, c, ss, j, [i \in 1 .. j - 1 |-> IF i < p THEN before[i] ELSE [c |-> c, n |-> Len(tbc)]], tbc)

Loop(s, c, st) ==
  LET v == Eval(s, c, st.c)
      w == BlockOf(v.s, c, st.body, <<>>)
      r == BlockOf(s, c, st.body, <<st.c>>)
  IN  IF s.err THEN [s |-> s, sig |-> Normal]
      ELSE IF st.st = "while" THEN
        IF IsFalse(One(v)) \/ v.s.err THEN [s |-> v.s, sig |-> Normal]
        ELSE IF w.sig.k = "normal" THEN Loop(w.s, c, st) ELSE [s |-> w.s, sig |-> Exits(w.sig)]
      ELSE IF r.sig.k = "normal" /\ ~r.done THEN Loop(r.s, c, st) ELSE [s |-> r.s, sig |-> Exits(r.sig)]

Count(s, c, st, i, limit, by) ==
  LET b == Bind(s, c, <<st.x>>, <<IntVal(i)>>)
      r == BlockOf(b.s, b.c, st.body, <<>>)
  IN  IF s.err \/ (IF by > 0 THEN i > limit ELSE i < limit) THEN [s |-> s, sig |-> Normal]
      ELSE IF r.sig.k = "normal" THEN Count(r.s, c, st, i + by, limit, by)
      ELSE [s |-> r.s, sig |-> Exits(r.sig)]

Each(s, c, st, f, control) ==
  LET v == Apply(s, f[1], <<f[2], control>>)
      b == Bind(v.s, c, st.vars, v.v)
      r == BlockOf(b.s, b.c, st.body, <<>>)
  IN  IF v.s.err \/ One(v) = NilVal THEN [s |-> v.s, sig |-> Normal]
      ELSE IF r.sig.k = "normal" THEN Each(r.s, c, st, f, One(v))
      ELSE [s |-> r.s, sig |-> Exits(r.sig)]

Apply(s, f, args) ==
  LET fn == s.fns[f.id]
      n  == Len(fn.f.params)
      b  == Bind(s, [env |-> fn.env, va |-> SubSeq(args, n + 1, Len(args))], fn.f.params, args)
      r  == BlockOf(b.s, b.c, fn.f.body, <<>>)
  IN  CASE s.err -> Is(s, <<>>)
        [] ~s.err /\ f.t = "c"  -> Is(See(s, Traced(f.s, args)), External(f.s, args))
        [] ~s.err /\ f.t = "fn" -> Is(r.s, r.sig.v)
        [] OTHER -> Is(Fails(s), <<>>)

\* the meaning of a chunk with its arguments: what is seen, and whether it fails
Meaning(body, args) ==
  LET r == BlockOf([store |-> <<>>, tabs |-> <<Globals>>, fns |-> <<>>, trace |-> <<>>, err |-> FALSE],
                   [env |-> <<>>, va |-> args], body, <<>>)
  IN  [trace |-> IF r.s.err THEN r.s.trace
                 ELSE Append(r.s.trace, <<"return">> \o [i \in DOMAIN r.sig.v |-> Shown(r.sig.v[i])]),
       err |-> r.s.err]
=============================================================================
