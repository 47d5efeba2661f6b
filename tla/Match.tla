---------------------------------- MODULE Match ----------------------------------
(***************************************************************************)
(* Pattern matching (lstrlib.c): a backtracking matcher that keeps its     *)
(* captures in one array, undone by hand on every failure, inside the      *)
(* loops of find, gmatch and gsub.                                         *)
(*                                                                         *)
(* A pattern is the sequence of its items; a character class is the set of *)
(* the characters it matches.  Positions count from 0, as in the code.     *)
(***************************************************************************)
EXTENDS Integers, Sequences, SequencesExt, FiniteSets, FiniteSetsExt, Job

CONSTANTS MaxCaptures   \* LUA_MAXCAPTURES

ASSUME MatchAssumption == MaxCaptures \in Nat \ {0}

Unfinished == -1        \* CAP_UNFINISHED
Position   == -2        \* CAP_POSITION
EndChar    == "end"      \* what follows the subject

\* the outcome of a match: where it ends, and the captures as it leaves them
Matched(s, caps) == [how |-> "yes", s |-> s, caps |-> caps]
Failed(caps)     == [how |-> "no", s |-> 0, caps |-> caps]
Error_           == [how |-> "error", s |-> 0, caps |-> <<>>]

\* ms: src, the subject, and pat, the pattern
CharAt(ms, s)         == IF s < Len(ms.src) THEN ms.src[s + 1] ELSE EndChar
SingleMatch(ms, s, p) == s < Len(ms.src) /\ CharAt(ms, s) \in ms.pat[p].set

MaxRepeat(ms, s, p) == CHOOSE n \in 0 .. Len(ms.src) - s :
                         /\ \A i \in 0 .. n - 1 : SingleMatch(ms, s + i, p)
                         /\ ~SingleMatch(ms, s + n, p)

\* 0 if there is none
CaptureToClose(caps) == Max({0} \cup {l \in DOMAIN caps : caps[l].len = Unfinished})

\* after a balanced string x ... y; 0 if there is none (0 is never after one)
MatchBalance(ms, s, x, y) ==
  LET Step(c, i) ==            \* <<depth, end>>
        IF c[2] # 0 THEN c
        ELSE IF CharAt(ms, i) = y THEN IF c[1] = 1 THEN <<0, i + 1>> ELSE <<c[1] - 1, 0>>
        ELSE IF CharAt(ms, i) = x THEN <<c[1] + 1, 0>> ELSE c
  IN  IF CharAt(ms, s) # x THEN 0
      ELSE FoldLeft(Step, <<1, 0>>, [k \in 1 .. Len(ms.src) - s - 1 |-> s + k])[2]

\* the text of a capture at s again; -1 if it is not there
MatchCapture(ms, s, c) ==
  IF c.len >= 0 /\ Len(ms.src) - s >= c.len
     /\ SubSeq(ms.src, c.init + 1, c.init + c.len) = SubSeq(ms.src, s + 1, s + c.len)
  THEN s + c.len ELSE -1

RECURSIVE Run(_, _, _, _, _), MaxExpand(_, _, _, _, _, _), MinExpand(_, _, _, _, _)

\* a call of 'match': d calls may still nest
Call(ms, s, p, caps, d) == IF d = 0 THEN Error_ ELSE Run(ms, s, p, caps, d - 1)

\* with the i-th, ..., first and no repetition
MaxExpand(ms, s, p, i, caps, d) ==
  LET res == Call(ms, s + i, p + 1, caps, d)
  IN  IF res.how # "no" THEN res
      ELSE IF i = 0 THEN res ELSE MaxExpand(ms, s, p, i - 1, res.caps, d)

MinExpand(ms, s, p, caps, d) ==
  LET res == Call(ms, s, p + 1, caps, d)
  IN  IF res.how # "no" THEN res
      ELSE IF SingleMatch(ms, s, p) THEN MinExpand(ms, s + 1, p, res.caps, d) ELSE res

StartCapture(ms, s, p, what, caps, d) ==
  LET res == Call(ms, s, p, Append(caps, [init |-> s, len |-> what]), d)
  IN  IF Len(caps) >= MaxCaptures THEN Error_
      ELSE IF res.how = "no" THEN Failed(Front(res.caps)) ELSE res

\* -- mutant: a failure leaves the capture closed
EndCapture_NoUndo(ms, s, p, caps, d) ==
  LET l   == CaptureToClose(caps)
      res == Call(ms, s, p, [caps EXCEPT ![l].len = s - caps[l].init], d)
  IN  IF l = 0 THEN Error_ ELSE res

EndCapture(ms, s, p, caps, d) ==
  LET l   == CaptureToClose(caps)
      res == Call(ms, s, p, [caps EXCEPT ![l].len = s - caps[l].init], d)
  IN  IF l = 0 THEN Error_
      ELSE IF res.how = "no" THEN Failed([res.caps EXCEPT ![l].len = Unfinished]) ELSE res

\* a class and its suffix
Repeated(ms, s, p, caps, d) ==
  LET rep == ms.pat[p].rep
  IN  IF ~SingleMatch(ms, s, p)
      THEN IF rep \in {"*", "?", "-"} THEN Run(ms, s, p + 1, caps, d) ELSE Failed(caps)
      ELSE CASE rep = ""  -> Run(ms, s + 1, p + 1, caps, d)
             [] rep = "?" -> LET res == Call(ms, s + 1, p + 1, caps, d)
                             IN  IF res.how # "no" THEN res
                                 ELSE Run(ms, s, p + 1, res.caps, d)
             [] rep = "+" -> MaxExpand(ms, s + 1, p, MaxRepeat(ms, s + 1, p), caps, d)
             [] rep = "*" -> MaxExpand(ms, s, p, MaxRepeat(ms, s, p), caps, d)
             [] rep = "-" -> MinExpand(ms, s, p, caps, d)

\* 'match' from its label 'init'
Run(ms, s, p, caps, d) ==
  IF p > Len(ms.pat) THEN Matched(s, caps)
  ELSE LET it == ms.pat[p] IN
  CASE it.kind = "open"  -> StartCapture(ms, s, p + 1, Unfinished, caps, d)
    [] it.kind = "pos"   -> StartCapture(ms, s, p + 1, Position, caps, d)
    [] it.kind = "close" -> EndCapture(ms, s, p + 1, caps, d)
    [] it.kind = "end"   -> IF s = Len(ms.src) THEN Matched(s, caps) ELSE Failed(caps)
    [] it.kind = "balance" ->
         LET e == MatchBalance(ms, s, it.x, it.y)
         IN  IF e = 0 THEN Failed(caps) ELSE Run(ms, e, p + 1, caps, d)
    [] it.kind = "frontier" ->
         IF (IF s = 0 THEN EndChar ELSE CharAt(ms, s - 1)) \notin it.set /\ CharAt(ms, s) \in it.set
         THEN Run(ms, s, p + 1, caps, d) ELSE Failed(caps)
    [] it.kind = "back" ->
         IF it.l > Len(caps) \/ (it.l <= Len(caps) /\ caps[it.l].len = Unfinished) THEN Error_
         ELSE LET e == MatchCapture(ms, s, caps[it.l])
              IN  IF e = -1 THEN Failed(caps) ELSE Run(ms, e, p + 1, caps, d)
    [] it.kind = "class" -> Repeated(ms, s, p, caps, d)

-----------------------------------------------------------------------------
\* find, gmatch, gsub

\* the captures can be pushed
Pushable(r) == r.how = "yes" => \A l \in DOMAIN r.caps : r.caps[l].len # Unfinished

\* the first match at init or after: its start and outcome
FindAux(ms, init, anchor, d) ==
  LET Try(r, s) == IF r.res.how # "no" THEN r ELSE [at |-> s, res |-> Call(ms, s, 1, <<>>, d)]
      last == IF anchor THEN init ELSE Len(ms.src)
  IN  FoldLeft(Try, [at |-> 0, res |-> Failed(<<>>)],
               [k \in 1 .. last - init + 1 |-> init + k - 1])

\* the spans gmatch yields one after the other; errors end it
RECURSIVE GMatch(_, _, _, _)
GMatch(ms, src, lastmatch, d) ==
  IF src > Len(ms.src) THEN <<>>
  ELSE LET r == Call(ms, src, 1, <<>>, d)
       IN  IF r.how = "error" THEN <<>>
           ELSE IF r.how = "yes" /\ r.s # lastmatch
           THEN <<<<src, r.s>>>> \o GMatch(ms, r.s, r.s, d)
           ELSE GMatch(ms, src + 1, lastmatch, d)

\* the pieces of the result, <<from, to, replaced?>>, and the count
GSub(ms, max, anchor, d) ==
  LET N == Len(ms.src)
      Step(a, k) ==
        IF a.done \/ a.n >= max THEN a
        ELSE LET r == Call(ms, a.src, 1, <<>>, d)
                 hit == r.how = "yes" /\ r.s # a.last
                 next == IF hit
                         THEN [a EXCEPT !.n = @ + 1, !.src = r.s, !.last = r.s,
                                        !.out = Append(@, <<a.src, r.s, TRUE>>)]
                         ELSE IF a.src < N
                         THEN [a EXCEPT !.src = @ + 1, !.out = Append(@, <<a.src, a.src + 1, FALSE>>)]
                         ELSE [a EXCEPT !.done = TRUE]
             IN  IF anchor THEN [next EXCEPT !.done = TRUE] ELSE next
      end == FoldLeft(Step, [src |-> 0, last |-> -1, n |-> 0, done |-> FALSE, out |-> <<>>],
                      [k \in 1 .. 2 * N + 2 |-> k])
  IN  [n |-> end.n, out |-> IF end.src < N THEN Append(end.out, <<end.src, N, FALSE>>) ELSE end.out]

MatchNext ==
  \/ Return("match", Call(job.ms, 0, 1, <<>>, job.depth))
  \/ Return("find", FindAux(job.ms, job.init, job.anchor, job.depth))
  \/ Return("gmatch", GMatch(job.ms, 0, -1, job.depth))
  \/ Return("gsub", GSub(job.ms, job.max, job.anchor, job.depth))

-----------------------------------------------------------------------------
\* The definition: every way the pattern matches, in order of preference

RECURSIVE Ways(_, _, _, _)
Ways(ms, s, p, caps) ==
  IF p > Len(ms.pat) THEN <<Matched(s, caps)>>
  ELSE LET it   == ms.pat[p]
           max  == MaxRepeat(ms, s, p)
           with(i) == Ways(ms, s + i, p + 1, caps)
           open(what) == Ways(ms, s, p + 1, Append(caps, [init |-> s, len |-> what]))
           l    == CaptureToClose(caps)
           e    == IF it.kind = "back" THEN MatchCapture(ms, s, caps[it.l])
                   ELSE MatchBalance(ms, s, it.x, it.y)
           prev == IF s = 0 THEN EndChar ELSE CharAt(ms, s - 1)
  IN  CASE it.kind = "open"  -> open(Unfinished)
        [] it.kind = "pos"   -> open(Position)
        [] it.kind = "close" -> Ways(ms, s, p + 1, [caps EXCEPT ![l].len = s - caps[l].init])
        [] it.kind = "end"   -> IF s = Len(ms.src) THEN with(0) ELSE <<>>
        [] it.kind \in {"balance", "back"} ->
             IF e < 0 \/ (e = 0 /\ it.kind = "balance") THEN <<>> ELSE Ways(ms, e, p + 1, caps)
        [] it.kind = "frontier" ->
             IF prev \notin it.set /\ CharAt(ms, s) \in it.set THEN with(0) ELSE <<>>
        [] it.kind = "class" ->
             FlattenSeq([k \in 1 .. max + 1 |->
               LET i == IF it.rep = "-" THEN k - 1 ELSE max - k + 1
               IN  IF \/ (it.rep = "" /\ i # 1) \/ (it.rep = "?" /\ i > 1) \/ (it.rep = "+" /\ i = 0)
                   THEN <<>> ELSE with(i)])

\* parentheses match, and a back reference is to a capture closed before it
WellFormed(pat) ==
  LET opened(p) == {q \in 1 .. p - 1 : pat[q].kind \in {"open", "pos"}}
      Open(p)   == Cardinality({q \in 1 .. p - 1 : pat[q].kind = "open"})
      Closed(p) == Cardinality({q \in 1 .. p - 1 : pat[q].kind = "close"})
  IN  /\ \A p \in DOMAIN pat :
           /\ pat[p].kind = "close" => Closed(p) < Open(p)
           /\ pat[p].kind = "back" => /\ Cardinality(opened(p)) >= pat[p].l
                                      /\ Open(p) = Closed(p)
           /\ pat[p].kind = "end" => p = Len(pat)
      /\ Open(Len(pat) + 1) = Closed(Len(pat) + 1)
      /\ Cardinality(opened(Len(pat) + 1)) <= MaxCaptures

First(ms, s) == LET w == Ways(ms, s, 1, <<>>) IN IF w = <<>> THEN Failed(<<>>) ELSE w[1]

\* The matcher finds the first of the ways a pattern can match, with its
\* captures: a failed attempt leaves no trace in them.  It may give up
\* ("pattern too complex"), never answer otherwise.
MatchIsFirst ==
  /\ Returned({"match"}) /\ WellFormed(job.ms.pat) =>
       \/ answer[1] = First(job.ms, 0)
       \/ answer[1] = Error_ /\ job.depth <= Len(job.ms.pat)
  /\ Returned({"find"}) /\ WellFormed(job.ms.pat) =>
       LET r == answer[1]  at(s) == First(job.ms, s).how = "yes"
       IN  IF r.res.how = "yes"
           THEN /\ r.at \in job.init .. Len(job.ms.src) /\ r.res = First(job.ms, r.at)
                /\ \A s \in job.init .. r.at - 1 : ~at(s)
                /\ job.anchor => r.at = job.init
           ELSE \A s \in job.init .. Len(job.ms.src) : (job.anchor /\ s > job.init) \/ ~at(s)

\* gsub's pieces tile the subject in order, the pieces it replaces are matches
\* and no empty one follows a match at once; gmatch visits the same matches.
SubstitutionTiles ==
  /\ Returned({"gsub"}) =>
       LET out == answer[1].out
           hits == SelectSeq(out, LAMBDA x : x[3])
       IN  /\ \A k \in DOMAIN out : out[k][1] = IF k = 1 THEN 0 ELSE out[k - 1][2]
           /\ IF out = <<>> THEN Len(job.ms.src) = 0 ELSE Last(out)[2] = Len(job.ms.src)
           /\ answer[1].n = Len(hits) /\ Len(hits) <= job.max
           /\ \A k \in 1 .. Len(hits) - 1 : hits[k][2] # hits[k + 1][2]
           /\ ~job.anchor /\ job.max > Len(job.ms.src) =>
                [k \in DOMAIN hits |-> <<hits[k][1], hits[k][2]>>] = GMatch(job.ms, 0, -1, job.depth)
\* Matching is right: see the two statements above.
MatchingExact == MatchIsFirst /\ SubstitutionTiles
=============================================================================
