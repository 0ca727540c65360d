------------------------------ MODULE DynProg -------------------------------
(***************************************************************************)
(* The programs of algo/dyn-prog that compute with integers.  Each fills   *)
(* a table, noting beside every best value the choice that led to it, and  *)
(* then follows the choices.  A table maps a cell to [v, k], value and     *)
(* choice.  Programs that fill theirs on demand get the same entries in    *)
(* another order.  One step answers one question.                          *)
(***************************************************************************)
EXTENDS Integers, Sequences, FiniteSets, SequencesExt, FiniteSetsExt, TLC

CONSTANT Tasks                   \* the questions

VARIABLES task, answer

vars == <<task, answer>>

\* The cells filled one after the other, each from those before it.
FillFrom(table, cells, entry(_, _)) == FoldLeft(LAMBDA t, c : (c :> entry(t, c)) @@ t, table, cells)
Fill(cells, entry(_, _)) == FillFrom(<<>>, cells, entry)

\* The least value of f on S and the first choice that has it.
Least(S, f(_)) == LET k == CHOOSE x \in S : \A y \in S : f(x) < f(y) \/ (f(x) = f(y) /\ x <= y)
                  IN  [v |-> f(k), k |-> k]
Most(S, f(_))  == LET e == Least(S, LAMBDA x : -f(x)) IN [e EXCEPT !.v = -@]

\* The pairs of S, the smaller number first and the closest pairs first.
Diagonals(S) ==
  LET s == SetToSortSeq(S, <)
  IN  FlattenSeq([l \in DOMAIN s |-> [i \in 1..(Len(s) - l + 1) |-> <<s[i], s[i + l - 1]>>]])
-----------------------------------------------------------------------------
(* cut-rod.py: p[i] is the price of a piece of length i.                   *)

\* Faulty variant: a piece of the whole length is never sold.
RevenueCut(p) == Fill([n \in 1..(Len(p) + 1) |-> n - 1],
                      LAMBDA t, n : IF n = 0 THEN [v |-> 0, k |-> 0]
                                    ELSE Most(1..(IF n = 1 THEN 1 ELSE n - 1),
                                              LAMBDA i : p[i] + t[n - i].v))

Revenue(p) == Fill([n \in 1..(Len(p) + 1) |-> n - 1],
                   LAMBDA t, n : IF n = 0 THEN [v |-> 0, k |-> 0]
                                 ELSE Most(1..n, LAMBDA i : p[i] + t[n - i].v))

\* Faulty variant: the price of the cut is forgotten.
CheaperFree(p, c, t, j) ==
  FoldLeft(LAMBDA b, i : IF b.v < p[i] + t[j - i].v
                         THEN [v |-> p[i] + t[j - i].v, k |-> i] ELSE b,
           [v |-> -1, k |-> 0], [i \in 1..j |-> i])

\* An entry of cut_rod_extended.  The best so far has paid for its cut when
\* it is compared with the next one, which has not.
Cheaper(p, c, t, j) ==
  FoldLeft(LAMBDA b, i : IF b.v < p[i] + t[j - i].v
                         THEN [v |-> p[i] + t[j - i].v - (IF i = j THEN 0 ELSE c), k |-> i]
                         ELSE b,
           [v |-> -1, k |-> 0], [i \in 1..j |-> i])

RodExtended(p, c) == Fill([n \in 1..(Len(p) + 1) |-> n - 1],
                          LAMBDA t, n : IF n = 0 THEN [v |-> 0, k |-> 0]
                                        ELSE Cheaper(p, c, t, n))

\* cut_rod_price does not use c.
RodPrice(p, c) == Revenue(p)

\* cut_rod_print_solution
RECURSIVE Pieces(_, _)
Pieces(t, n) == IF n = 0 THEN <<>> ELSE <<t[n].k>> \o Pieces(t, n - t[n].k)
-----------------------------------------------------------------------------
(* lcs.py.  Indexes count from 0, and -1 is the last row or column.        *)

\* Faulty variant: no more rows and columns than letters.
ExtentTight(x) == Len(x)

\* How many rows or columns c has for a word: one more than it has letters.
Extent(x) == Len(x) + 1

NoLcs(x, y) == [c \in (0..(Extent(x) - 1)) \X (0..(Extent(y) - 1)) |-> [v |-> 0, k |-> "none"]]

\* c[i][j], where an index may be -1.
Entry(x, y, t, i, j) == t[<<i % Extent(x), j % Extent(y)>>].v

\* Faulty variant: at a tie the way goes on in both words.
DirectionBoth(x, y, t, i, j) ==
  LET c(k, l) == Entry(x, y, t, k, l)
  IN  IF x[i + 1] = y[j + 1] THEN [v |-> c(i - 1, j - 1) + 1, k |-> "both"]
      ELSE IF c(i - 1, j) = c(i, j - 1) THEN [v |-> c(i - 1, j), k |-> "both"]
      ELSE IF c(i - 1, j) > c(i, j - 1) THEN [v |-> c(i - 1, j), k |-> "up"]
      ELSE [v |-> c(i, j - 1), k |-> "left"]

Direction(x, y, t, i, j) ==
  LET c(k, l) == Entry(x, y, t, k, l)
  IN  IF x[i + 1] = y[j + 1] THEN [v |-> c(i - 1, j - 1) + 1, k |-> "both"]
      ELSE IF c(i - 1, j) >= c(i, j - 1) THEN [v |-> c(i - 1, j), k |-> "up"]
      ELSE [v |-> c(i, j - 1), k |-> "left"]

Lcs(x, y) == FillFrom(NoLcs(x, y),
                      [n \in 1..(Len(x) * Len(y)) |-> <<(n - 1) \div Len(y), (n - 1) % Len(y)>>],
                      LAMBDA t, c : Direction(x, y, t, c[1], c[2]))

\* print_lcs
RECURSIVE LcsPrinted(_, _, _, _)
LcsPrinted(t, x, i, j) ==
  IF i = -1 \/ j = -1 THEN <<>>
  ELSE CASE t[<<i, j>>].k = "both" -> Append(LcsPrinted(t, x, i - 1, j - 1), x[i + 1])
         [] t[<<i, j>>].k = "up"   -> LcsPrinted(t, x, i - 1, j)
         [] t[<<i, j>>].k = "left" -> LcsPrinted(t, x, i, j - 1)

\* find_longest_monot
LongestMonot(x) == LcsPrinted(Lcs(x, SortSeq(x, <)), x, Len(x) - 1, Len(x) - 1)
-----------------------------------------------------------------------------
(* mat-chain-mult.py: matrix i has p[i-1] rows and p[i] columns, which are *)
(* p[i] and p[i+1] here.                                                   *)

\* Faulty variant: the rows of the product are those of its second factor.
SplitAtRows(p, t, i, j, k) == t[<<i, k>>].v + t[<<k + 1, j>>].v + p[k + 1] * p[k + 1] * p[j + 1]

SplitAt(p, t, i, j, k) == t[<<i, k>>].v + t[<<k + 1, j>>].v + p[i] * p[k + 1] * p[j + 1]

ChainOrder(p) == Fill(Diagonals(1..(Len(p) - 1)),
                      LAMBDA t, c : IF c[1] = c[2] THEN [v |-> 0, k |-> 0]
                                    ELSE Least(c[1]..(c[2] - 1),
                                               LAMBDA k : SplitAt(p, t, c[1], c[2], k)))

\* What it costs to multiply as print_mult says.
RECURSIVE CostPrinted(_, _, _, _)
CostPrinted(t, p, i, j) ==
  LET k == t[<<i, j>>].k
  IN  IF i = j THEN 0
      ELSE CostPrinted(t, p, i, k) + CostPrinted(t, p, k + 1, j) + p[i] * p[k + 1] * p[j + 1]
-----------------------------------------------------------------------------
(* break-string.py                                                         *)

\* Faulty variant: a break just before the end of the part is not valid.
ValidShort(positions, i, j) == {k \in positions : k > i /\ k < j - 1}

Valid(positions, i, j) == {k \in positions : k > i /\ k < j}

BreakString(positions, n) ==
  Fill(Diagonals(positions \union {0, n}),
       LAMBDA t, c : IF Valid(positions, c[1], c[2]) = {} THEN [v |-> 0, k |-> -1]
                     ELSE Least(Valid(positions, c[1], c[2]),
                                LAMBDA k : t[<<c[1], k>>].v + t[<<k, c[2]>>].v + c[2] - c[1]))

\* print_breaks
RECURSIVE Breaks(_, _, _)
Breaks(t, i, j) == LET k == t[<<i, j>>].k
                   IN  IF k < 0 THEN <<>> ELSE <<k>> \o Breaks(t, i, k) \o Breaks(t, k, j)
-----------------------------------------------------------------------------
(* optimal-bst.py: the keys 1..n have the weights p, and the gaps 0..n     *)
(* between them the weights q, here q[1] to q[n+1].                        *)

\* w[i][j]
Weight(p, q, i, j) == FoldLeft(LAMBDA w, k : w + p[k] + q[k + 1], q[i],
                               [k \in 1..(j - i + 1) |-> i + k - 1])

\* Faulty variant: only the root itself is counted for its level.
RootedAtOnly(p, q, t, i, j, r) == t[<<i, r - 1>>].v + t[<<r + 1, j>>].v + p[r]

RootedAt(p, q, t, i, j, r) == t[<<i, r - 1>>].v + t[<<r + 1, j>>].v + Weight(p, q, i, j)

OptimalBst(p, q) ==
  LET n == Len(p)
      empty == [i \in 1..(n + 1) |-> <<i, i - 1>>]
  IN  Fill(empty \o Diagonals(1..n),
           LAMBDA t, c : IF c[2] < c[1] THEN [v |-> q[c[1]], k |-> 0]
                         ELSE Least(c[1]..c[2], LAMBDA r : RootedAt(p, q, t, c[1], c[2], r)))

\* construct_optimal_bst: the levels of the gaps and keys from left to right
RECURSIVE Levels(_, _, _, _)
Levels(t, i, j, level) ==
  LET r == t[<<i, j>>].k
  IN  IF i > j THEN <<level>>
      ELSE Levels(t, i, r - 1, level + 1) \o <<level>> \o Levels(t, r + 1, j, level + 1)
-----------------------------------------------------------------------------
(* seam-carving.py: d[i][j] is the energy of row i, column j.              *)

\* Faulty variant: the way to the left is not tried.
BelowRight(d, t, i, j) ==
  LET better(b, k) == IF k \in DOMAIN d[i] /\ t[<<i + 1, k>>].v < t[<<i + 1, b>>].v THEN k ELSE b
  IN  better(j, j + 1)

\* Straight on, unless left, or then right, is cheaper.
Below(d, t, i, j) ==
  LET better(b, k) == IF k \in DOMAIN d[i] /\ t[<<i + 1, k>>].v < t[<<i + 1, b>>].v THEN k ELSE b
  IN  better(better(j, j - 1), j + 1)

Seam(d) == LET m == Len(d)
               n == Len(d[1])
           IN  Fill([c \in 1..(m * n) |-> <<m - ((c - 1) \div n), ((c - 1) % n) + 1>>],
                    LAMBDA t, c : IF c[1] = m THEN [v |-> d[m][c[2]], k |-> 0]
                                  ELSE LET k == Below(d, t, c[1], c[2])
                                       IN  [v |-> d[c[1]][c[2]] + t[<<c[1] + 1, k>>].v, k |-> k])

RECURSIVE SeamFrom(_, _, _)
SeamFrom(t, i, j) == IF t[<<i, j>>].k = 0 THEN <<j>> ELSE <<j>> \o SeamFrom(t, i + 1, t[<<i, j>>].k)

\* printSeam, from the first of the cheapest columns
SeamPrinted(d, t) == SeamFrom(t, 1, Least(DOMAIN d[1], LAMBDA j : t[<<1, j>>].v).k)
-----------------------------------------------------------------------------
Init == task \in Tasks /\ answer = [prog |-> "none"]

Ask(prog) == task.prog = prog /\ answer.prog = "none" /\ UNCHANGED task

CutRod == /\ Ask("rod")
          /\ answer' = [prog |-> "rod", best |-> Revenue(task.p), paid |-> RodExtended(task.p, task.c),
                        priced |-> RodPrice(task.p, task.c)]
FindLcs == /\ Ask("lcs")
           /\ LET t == Lcs(task.x, task.y)
              IN  answer' = [prog |-> "lcs", c |-> t,
                             printed |-> LcsPrinted(t, task.x, Len(task.x) - 1, Len(task.y) - 1)]
FindMonot == /\ Ask("monot")
             /\ answer' = [prog |-> "monot", printed |-> LongestMonot(task.x)]
MatrixChain == Ask("chain") /\ answer' = [prog |-> "chain", m |-> ChainOrder(task.dims)]
BreakIt == Ask("break") /\ answer' = [prog |-> "break", memo |-> BreakString(task.at, task.n)]
Bst == Ask("bst") /\ answer' = [prog |-> "bst", e |-> OptimalBst(task.keys, task.gaps)]
Carve == Ask("seam") /\ answer' = [prog |-> "seam", memo |-> Seam(task.d)]

Next == CutRod \/ FindLcs \/ FindMonot \/ MatrixChain \/ BreakIt \/ Bst \/ Carve

Spec == Init /\ [][Next]_vars
-----------------------------------------------------------------------------
(* What the answers should be                                              *)

Total(s) == FoldLeft(LAMBDA a, b : a + b, 0, s)

\* What the rod yields when it is cut at the given places and each costs c.
CutAt(p, n, places, c) ==
  LET ends == SetToSortSeq(places \union {n}, <)
      piece(i) == ends[i] - (IF i = 1 THEN 0 ELSE ends[i - 1])
  IN  Total([i \in DOMAIN ends |-> p[piece(i)]]) - c * Cardinality(places)
BestCut(p, n, c) == Max({CutAt(p, n, places, c) : places \in SUBSET (1..(n - 1))})

\* cut-rod.py: the revenue of every length is the best of all ways to cut it
\* when cuts are free, and the pieces printed make up the length and yield it.
RodBest == answer.prog = "rod" => \A n \in DOMAIN task.p :
  LET s == Pieces(answer.best, n)
  IN  /\ answer.best[n].v = BestCut(task.p, n, 0)
      /\ Total(s) = n /\ Total([i \in DOMAIN s |-> task.p[s[i]]]) = answer.best[n].v

\* cut-rod.py: cut_rod_extended never promises more than its pieces yield when
\* the cuts are paid for, and when they are free misses nothing.
RodPromise == answer.prog = "rod" => \A n \in DOMAIN task.p :
  LET s == Pieces(answer.paid, n)
  IN  /\ answer.paid[n].v = Total([i \in DOMAIN s |-> task.p[s[i]]]) - task.c * (Len(s) - 1)
      /\ task.c = 0 => answer.paid[n].v = BestCut(task.p, n, 0)

\* What is left of s when letters are struck out.
Struck(s) == {LET at == SetToSortSeq(D, <) IN [k \in DOMAIN at |-> s[at[k]]] : D \in SUBSET DOMAIN s}

\* lcs.py: what is printed is common to both words, and nothing longer is; of
\* one word, it is in order, and nothing longer in order is in it.
Longest(s, S) == s \in S /\ \A r \in S : Len(r) <= Len(s)
LcsLongest ==
  /\ answer.prog = "lcs" =>
       /\ Longest(answer.printed, Struck(task.x) \intersect Struck(task.y))
       /\ Len(answer.printed) = Entry(task.x, task.y, answer.c, Len(task.x) - 1, Len(task.y) - 1)
  /\ answer.prog = "monot" =>
       Longest(answer.printed, {s \in Struck(task.x) : IsSorted(s, <=)})

\* The least cost of multiplying neighbours until one matrix is left.
RECURSIVE Multiply(_)
Multiply(p) == IF Len(p) = 2 THEN 0
               ELSE Min({p[k - 1] * p[k] * p[k + 1] + Multiply(RemoveAt(p, k)) : k \in 2..(Len(p) - 1)})

\* mat-chain-mult.py: no order of multiplying neighbours is cheaper than the
\* one printed, and it costs what the table says.
ChainCheapest == answer.prog = "chain" =>
  LET n == Len(task.dims) - 1
  IN  /\ answer.m[<<1, n>>].v = Multiply(task.dims)
      /\ CostPrinted(answer.m, task.dims, 1, n) = answer.m[<<1, n>>].v

\* What it costs to break a string of n at the places of s in this order: each
\* break costs the length of the part it breaks.
BreakCost(s, n) ==
  LET cost(k) == LET done == {s[l] : l \in 1..(k - 1)} \union {0, n}
                 IN  Min({x \in done : x > s[k]}) - Max({x \in done : x < s[k]})
  IN  Total([k \in DOMAIN s |-> cost(k)])

\* break-string.py: the breaks are printed in an order in which they can be
\* made at the cost in the table, and no order costs less.
BreakCheapest == answer.prog = "break" =>
  LET s == Breaks(answer.memo, 0, task.n)
  IN  /\ s \in SetToSeqs(task.at)
      /\ BreakCost(s, task.n) = answer.memo[<<0, task.n>>].v
      /\ \A r \in SetToSeqs(task.at) : answer.memo[<<0, task.n>>].v <= BreakCost(r, task.n)

\* All trees of the keys i to j, as the levels of gaps and keys.
RECURSIVE Trees(_, _, _)
Trees(i, j, level) ==
  IF i > j THEN {<<level>>}
  ELSE UNION {{l \o <<level>> \o r : l \in Trees(i, k - 1, level + 1), r \in Trees(k + 1, j, level + 1)} :
                k \in i..j}
SearchCost(levels) ==
  Total([k \in DOMAIN levels |-> levels[k] * (IF k % 2 = 0 THEN task.keys[k \div 2]
                                             ELSE task.gaps[(k + 1) \div 2])])

\* optimal-bst.py: the tree that is printed costs what the table says, and no
\* search tree of the keys costs less.
BstCheapest == answer.prog = "bst" =>
  LET n == Len(task.keys)
      best == answer.e[<<1, n>>].v
  IN  /\ SearchCost(Levels(answer.e, 1, n, 1)) = best
      /\ \A t \in Trees(1, n, 1) : best <= SearchCost(t)

\* seam-carving.py: the seam goes down one row at a time by at most one column
\* to the side, and no seam has less energy.
Seams(d) == {s \in [DOMAIN d -> DOMAIN d[1]] :
               \A i \in 1..(Len(d) - 1) : s[i + 1] \in (s[i] - 1)..(s[i] + 1)}
Energy(d, s) == Total([i \in DOMAIN d |-> d[i][s[i]]])
SeamCheapest == answer.prog = "seam" =>
  LET s == SeamPrinted(task.d, answer.memo)
  IN  s \in Seams(task.d) /\ \A r \in Seams(task.d) : Energy(task.d, s) <= Energy(task.d, r)

\* The programs find the best of all answers, and the choices they print reach
\* what they found.  Of cut-rod.py this is said where cuts are free.
AllBest == /\ RodBest /\ RodPromise /\ LcsLongest /\ ChainCheapest
           /\ BreakCheapest /\ BstCheapest /\ SeamCheapest

\* What a comment of cut-rod.py says of cut_rod_price, "adding a constant price
\* for each cut": its answer is the best when every cut is paid for.
PricePaid == answer.prog = "rod" => \A n \in DOMAIN task.p :
  answer.priced[n].v = BestCut(task.p, n, task.c)
=============================================================================
