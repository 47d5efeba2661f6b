-------------------------------- MODULE TableLib --------------------------------
(***************************************************************************)
(* The table library (ltablib.c): the functions that walk a list by integer *)
(* index up to the ends of the integers, and 'sort', whose order function  *)
(* may answer anything.                                                    *)
(***************************************************************************)
EXTENDS Integers, Sequences, SequencesExt, FiniteSets, FiniteSetsExt, Job

CONSTANTS
  ListBits,     \* width of a lua_Integer
  IntMax,       \* INT_MAX
  RanLimit,     \* intervals as large may use a random pivot
  Imbalance     \* how unbalanced a partition must be for that (128)

ASSUME TableLibAssumption ==
  /\ ListBits \in Nat \ {0} /\ IntMax \in 1 .. 2^(ListBits - 1) - 1
  /\ RanLimit \in Nat /\ RanLimit >= 4 /\ Imbalance \in Nat \ {0}

MaxIndex == 2^(ListBits - 1) - 1
MinIndex == -MaxIndex - 1
Indices  == MinIndex .. MaxIndex
AsIndex(u) == LET m == u % 2^ListBits IN IF m > MaxIndex THEN m - 2^ListBits ELSE m
AsUnsigned(i) == i % 2^ListBits

\* t[to] = t[from] for each pair, in that order
Copies(t, pairs) == FoldLeft(LAMBDA u, p : [u EXCEPT ![p[2]] = u[p[1]]], t, pairs)
Upwards(a, b)    == [k \in 1 .. b - a + 1 |-> a + k - 1]
Downwards(b, a)  == [k \in 1 .. b - a + 1 |-> b - k + 1]

-----------------------------------------------------------------------------
\* insert, remove, move, unpack, concat; an error is <<>>

Insert(t, size, pos, v) ==
  LET e == AsIndex(AsUnsigned(size) + 1)       \* first empty element
      up == [k \in DOMAIN Downwards(e, pos + 1) |-> <<e - k, e - k + 1>>]
  IN  IF AsUnsigned(AsUnsigned(pos) - 1) >= AsUnsigned(e) THEN <<>>
      ELSE <<[Copies(t, up) EXCEPT ![pos] = v]>>

Remove_(t, size, pos, none) ==
  LET down == [k \in DOMAIN Upwards(pos, size - 1) |-> <<pos + k, pos + k - 1>>]
  IN  IF pos # size /\ AsUnsigned(AsUnsigned(pos) - 1) > AsUnsigned(size) THEN <<>>
      ELSE <<[Copies(t, down) EXCEPT ![IF pos < size THEN size ELSE pos] = none]>>

\* t[f .. e] is copied to d, d + 1, ... of the same or another table
Move(t, f, e, d, same) ==
  LET n     == e - f + 1
      order == IF d > e \/ d <= f \/ ~same THEN Upwards(0, n - 1) ELSE Downwards(n - 1, 0)
      dst   == IF same THEN t ELSE [i \in DOMAIN t |-> 0]
      Put(u, i) == [u EXCEPT ![d + i] = IF same THEN u[f + i] ELSE t[f + i]]
  IN  IF e < f THEN <<dst>>
      ELSE IF ~(f > 0 \/ e < MaxIndex + f) \/ d > MaxIndex - n + 1 THEN <<>>
      ELSE <<FoldLeft(Put, dst, order)>>

\* the indices unpack reads, in order; the last one is read outside the loop
Unpack(i, e) ==
  IF i > e THEN <<<<>>>>
  ELSE IF AsUnsigned(AsUnsigned(e) - AsUnsigned(i)) >= IntMax THEN <<>>
  ELSE <<Append(Upwards(i, e - 1), e)>>

\* likewise for concat, with no bound on their number
Concat(i, last) == <<Upwards(i, last - 1) \o (IF i <= last THEN <<last>> ELSE <<>>)>>

TableLibNext ==
  \/ Return("insert", Insert(job.t, job.size, job.pos, job.v))
  \/ Return("remove", Remove_(job.t, job.size, job.pos, 0))
  \/ Return("move", Move(job.t, job.f, job.e, job.d, job.same))
  \/ Return("unpack", Unpack(job.i, job.e))
  \/ Return("concat", Concat(job.i, job.e))

-----------------------------------------------------------------------------
\* sort: one step for each comparison

VARIABLE sort   \* pc, a: the list, lo, up: the interval, p: the pivot's place,
                \* i, j: the scan, todo: the intervals of the suspended calls,
                \* rnd: a random pivot may be chosen, order: the answers follow <

Swap(a, x, y) == [a EXCEPT ![x] = a[y], ![y] = a[x]]

SortInit(a, order) ==
  sort = [pc |-> IF Len(a) > 1 THEN "ends" ELSE "done", a |-> a, lo |-> 1, up |-> Len(a),
          p |-> 0, i |-> 0, j |-> 0, todo |-> <<>>, rnd |-> FALSE, order |-> order]

NoSort == sort = [pc |-> "none"]

\* the answer to 'is a[x] less than a[y]?'
Says(yes, x, y) == sort.order => yes = (sort.a[x] < sort.a[y])

\* the loop of auxsort goes on with [lo, up], or returns to a suspended call
Continue(s) ==
  IF s.lo < s.up THEN [s EXCEPT !.pc = "ends"]
  ELSE IF s.todo = <<>> THEN [s EXCEPT !.pc = "done"]
  ELSE LET outer == Last(s.todo)
       IN  [s EXCEPT !.pc = IF outer[1] < outer[2] THEN "ends" ELSE "pop",
                     !.lo = outer[1], !.up = outer[2], !.rnd = outer[3], !.todo = Front(s.todo)]

\* a place in the second or third quarter
ChoosePivot(lo, up) == LET r4 == (up - lo) \div 4 IN lo + r4 .. lo + 3 * r4 - 1

Pivots(s) ==
  {(s.lo + s.up) \div 2} \cup
  (IF s.rnd /\ s.up - s.lo >= RanLimit THEN ChoosePivot(s.lo, s.up) ELSE {})

SortEnds ==
  /\ sort.pc = "ends"
  /\ \E yes \in BOOLEAN, p \in Pivots(sort) :
       LET a == IF yes THEN Swap(sort.a, sort.lo, sort.up) ELSE sort.a
       IN  /\ Says(yes, sort.up, sort.lo)
           /\ sort' = IF sort.up - sort.lo = 1
                      THEN Continue([sort EXCEPT !.a = a, !.lo = sort.up])
                      ELSE [sort EXCEPT !.a = a, !.p = p, !.pc = "low"]

\* the three are in order: the pivot goes to up - 1
Median(s, a) ==
  IF s.up - s.lo = 2 THEN Continue([s EXCEPT !.a = a, !.lo = s.up])
  ELSE [s EXCEPT !.a = Swap(a, s.p, s.up - 1), !.pc = "right",
                 !.i = s.lo + 1, !.j = s.up - 1]

SortLow ==
  /\ sort.pc = "low"
  /\ \E yes \in BOOLEAN :
       /\ Says(yes, sort.p, sort.lo)
       /\ sort' = IF yes THEN Median(sort, Swap(sort.a, sort.p, sort.lo))
                  ELSE [sort EXCEPT !.pc = "high"]

SortHigh ==
  /\ sort.pc = "high"
  /\ \E yes \in BOOLEAN :
       /\ Says(yes, sort.up, sort.p)
       /\ sort' = Median(sort, IF yes THEN Swap(sort.a, sort.p, sort.up) ELSE sort.a)

\* -- mutant: only the answer stops the scan
SortRight_NoCheck ==
  /\ sort.pc = "right"
  /\ \E yes \in BOOLEAN :
       /\ Says(yes, sort.i, sort.up - 1)
       /\ sort' = IF yes THEN [sort EXCEPT !.i = @ + 1]
                  ELSE [sort EXCEPT !.pc = "left", !.j = @ - 1]

\* partition: while a[++i] < P
SortRight ==
  /\ sort.pc = "right"
  /\ \E yes \in BOOLEAN :
       /\ Says(yes, sort.i, sort.up - 1)
       /\ sort' = IF ~yes THEN [sort EXCEPT !.pc = "left", !.j = @ - 1]
                  ELSE IF sort.i = sort.up - 1 THEN [sort EXCEPT !.pc = "error"]
                  ELSE [sort EXCEPT !.i = @ + 1]

\* the pivot is in its place, p: the smaller side is sorted by a call
Split(s, p) ==
  LET low   == <<s.lo, p - 1>>
      high  == <<p + 1, s.up>>
      first == p - s.lo < s.up - p                   \* the lower side is smaller
      small == IF first THEN low ELSE high
      large == IF first THEN high ELSE low
      n     == IF first THEN p - s.lo ELSE s.up - p
      rnd   == s.rnd \/ (large[2] - large[1]) \div Imbalance > n
  IN  Continue([s EXCEPT !.lo = small[1], !.up = small[2],
                         !.todo = Append(@, <<large[1], large[2], rnd>>)])

\* ... and while P < a[--j]; then a swap, or the end of the partition
SortLeft ==
  /\ sort.pc = "left"
  /\ \E yes \in BOOLEAN :
       /\ Says(yes, sort.up - 1, sort.j)
       /\ sort' =
            IF yes THEN IF sort.j < sort.i THEN [sort EXCEPT !.pc = "error"]
                        ELSE [sort EXCEPT !.j = @ - 1]
            ELSE IF sort.j < sort.i
                 THEN Split([sort EXCEPT !.a = Swap(@, sort.up - 1, sort.i)], sort.i)
                 ELSE [sort EXCEPT !.a = Swap(@, sort.i, sort.j), !.pc = "right", !.i = @ + 1]

SortReturn == sort.pc = "pop" /\ sort' = Continue(sort)

SortNext == SortEnds \/ SortLow \/ SortHigh \/ SortRight \/ SortLeft \/ SortReturn

-----------------------------------------------------------------------------
\* What must hold

\* The list functions copy what they say, also at the ends of the integers and
\* when source and destination overlap, and refuse what would wrap around.
ListsExact ==
  LET t == job.t  r == answer[1]
  IN  /\ Returned({"insert"}) /\ job.size \in 0 .. MaxIndex - 1 =>
           IF job.pos \in 1 .. job.size + 1
           THEN r = <<[i \in Indices |-> IF i = job.pos THEN job.v
                         ELSE IF i \in job.pos + 1 .. job.size + 1 THEN t[i - 1] ELSE t[i]]>>
           ELSE r = <<>>
      /\ Returned({"remove"}) /\ job.size \in 0 .. MaxIndex - 1 =>
           IF job.pos \in 1 .. job.size + 1 \/ job.pos = job.size
           THEN r = <<[i \in Indices |->
                         IF i \in job.pos .. job.size - 1 THEN t[i + 1]
                         ELSE IF i = Max({job.pos, job.size}) THEN 0 ELSE t[i]]>>
           ELSE r = <<>>
      /\ Returned({"move"}) =>
           LET n == job.e - job.f + 1
           IN  IF n > 0 /\ (n > MaxIndex \/ job.d + n - 1 > MaxIndex) THEN r = <<>>
               ELSE r = <<[i \in Indices |->
                             IF i \in job.d .. job.d + n - 1 THEN t[job.f + (i - job.d)]
                             ELSE IF job.same THEN t[i] ELSE 0]>>
      /\ Returned({"unpack"}) =>
           r = IF job.e - job.i >= IntMax THEN <<>> ELSE <<Upwards(job.i, job.e)>>
      /\ Returned({"concat"}) => r = <<Upwards(job.i, job.e)>>

\* Whatever the order function answers, sort reads and writes inside the list,
\* keeps its elements, and recurs no deeper than the logarithm of its length;
\* answers that follow an order never make it complain and end in a sorted list.
SortSafe ==
  sort.pc # "none" =>
    LET n == Len(sort.a)
    IN  /\ sort.pc \in {"right", "left"} =>
             {sort.i, sort.j} \subseteq sort.lo .. sort.up /\ {sort.lo, sort.up} \subseteq 1 .. n
        /\ 2^Len(sort.todo) <= n + 1
        /\ ~sort.order => Range(sort.a) = 1 .. n       \* they start distinct
        /\ sort.order => sort.pc # "error"
        /\ sort.order /\ sort.pc = "done" => \A k \in 1 .. n - 1 : sort.a[k] <= sort.a[k + 1]
=============================================================================
