----------------------------- MODULE MCPrograms -----------------------------
(***************************************************************************)
(* The programs that share nothing with any other: the file responders,    *)
(* the interpreter, and the sorting, graph and dynamic programs.  The      *)
(* first state chooses one, and only its steps are taken.                  *)
(*                                                                         *)
(* Two workers, two requesters with a readable file and two without.       *)
(* Lines of up to two items, and of three that start with a symbol.  Lists *)
(* of up to five numbers, at most three of them different, and of six, at  *)
(* most two.  Graphs of three vertices, two of them with the children in   *)
(* any order and two with loops; of four, all that are undirected, all of  *)
(* up to three edges and those of four out of six, without loops and with  *)
(* the children in ascending order.  Rods of up to four, words of up to    *)
(* five letters, chains of up to five matrices, up to four breaks, up to   *)
(* four keys, pictures of three by three.  Energies are positive: 0 is how *)
(* seam-carving.py marks a cell that is not filled.                        *)
(***************************************************************************)
EXTENDS Lispy, FilerCluster, Sorting, GraphSearch

CONSTANTS w1, w2, req1, req2, req3, req4

VARIABLES program, question, answer

MCWorker    == {w1, w2}
MCRequester == {req1, req2, req3, req4}
MCReadable  == {req1, req2}

Symbols == {Sym(s) : s \in {"+", "-", "/", "+-", "head", "tail", "list", "join",
                            "eval", "foo"}}
Numbers == {Num(n) : n \in {-4, -1, 0, 3}} \union {Err("invalid number")}
Nested == {Qexpr(<<>>), Qexpr(<<Num(3)>>), Qexpr(<<Num(3), Num(0)>>),
          Qexpr(<<Sym("-"), Num(3), Num(1)>>),
          Qexpr(<<Sym("+"), Num(1), Sexpr(<<Sym("/"), Num(1), Num(0)>>)>>),
          Qexpr(<<Qexpr(<<>>), Qexpr(<<Num(1)>>)>>),
          Sexpr(<<>>), Sexpr(<<Sym("/"), Num(3), Num(0)>>),
          Sexpr(<<Sym("+"), Num(3), Num(3)>>),
          Sexpr(<<Sym("list"), Num(1), Sym("head")>>),
          Sexpr(<<Sym("tail"), Qexpr(<<Num(0), Sym("eval"), Num(1)>>)>>)}
Items == Symbols \union Numbers \union Nested

MCLines == {Sexpr(c) : c \in {<<>>} \union {<<i>> : i \in Items}
                             \union (Items \X Items)
                             \union (Symbols \X Items \X Items)}

MCLists == UNION {[0..(n - 1) -> 0..2] : n \in 0..5} \union [0..5 -> 0..1]

\* The graphs of four vertices have both directions of an edge, or few edges.
Orders(T)    == UNION {SetToSeqs(U) : U \in SUBSET T}
Ascending(T) == SetToSortSeq(T, <)
Pairs        == {e \in (1..4) \X (1..4) : e[1] # e[2]}
Around       == {<<1, 2>>, <<2, 3>>, <<3, 4>>, <<4, 1>>, <<1, 3>>, <<2, 4>>}
EdgeSets     == UNION {kSubset(k, Pairs) : k \in 0..3} \union kSubset(4, Around)
                \union {{e \in Pairs : {e[1], e[2]} \in R} : R \in SUBSET kSubset(2, 1..4)}
MCGraphs == {<<p, Ascending(Q), r>> : p \in Orders(1..3), Q \in SUBSET (1..3), r \in Orders(1..2)}
            \union {[v \in 1..4 |-> Ascending({w \in 1..4 : <<v, w>> \in E})] : E \in EdgeSets}

\* For what the comments say: the graph of dfs-edges.py, and the middle of the
\* tree of find-tree-diam.py.
SampleGraphs == {<<<<2, 4>>, <<5>>, <<5, 6>>, <<2>>, <<4>>, <<6>>>>,
                 <<<<2, 3, 4>>, <<1>>, <<1>>, <<1>>>>}
OneLine == {Sexpr(<<>>)}
OneList == {<<>>}

Words(n, S) == UNION {[1..k -> S] : k \in 1..n}

Tasks ==
  {[prog |-> "rod", p |-> p, c |-> c] : p \in Words(4, 0..4), c \in {0, 1, 3}}
  \union {[prog |-> "lcs", x |-> u, y |-> v] : u \in Words(5, {"a", "b"}), v \in Words(5, {"a", "b"})}
  \union {[prog |-> "monot", x |-> u] : u \in Words(5, 1..3)}
  \union {[prog |-> "chain", dims |-> p] : p \in UNION {[1..k -> {1, 2, 5}] : k \in 2..6}}
  \union {[prog |-> "break", at |-> S, n |-> 9] : S \in {T \in SUBSET (1..8) : Cardinality(T) <= 4}}
  \union {[prog |-> "bst", keys |-> p, gaps |-> q] : p \in [1..3 -> {0, 1, 4}], q \in [1..4 -> {0, 2}]}
  \union {[prog |-> "bst", keys |-> p, gaps |-> <<1, 0, 3, 0, 1>>] : p \in [1..4 -> {1, 2, 5}]}
  \union {[prog |-> "seam", d |-> d] : d \in [1..3 -> {<<1, 1, 2>>, <<2, 1, 3>>, <<3, 2, 1>>, <<1, 3, 1>>,
                                                       <<2, 2, 1>>, <<1, 2, 3>>, <<3, 1, 2>>}]}

D == INSTANCE DynProg WITH task <- question
-----------------------------------------------------------------------------
\* No list is sorted.
NoList == /\ given = <<>> /\ prog = "none" /\ ls = <<>> /\ calls = <<>>
          /\ at = "call" /\ lo = 0 /\ hi = 0 /\ edge = 0 /\ pivot = 0 /\ copy = <<>>

\* No graph is searched.
NoGraph == /\ adj = <<>> /\ search = "none" /\ start = 0 /\ color = adj /\ path = adj /\ dist = adj
           /\ disc = adj /\ fin = adj /\ cc = adj /\ nth = adj /\ stack = <<>> /\ clock = 0
           /\ group = 1 /\ que = <<>> /\ passed = {} /\ cnt = adj /\ listed = <<>>
           /\ refused = FALSE /\ told = {}

MCInit == /\ program \in {"filer", "lispy", "sorting", "graphs", "dyn-prog"}
          /\ Init /\ LispyInit
          /\ IF program = "sorting" THEN SortInit ELSE NoList
          /\ IF program = "graphs" THEN GraphInit ELSE NoGraph
          /\ IF program = "dyn-prog" THEN D!Init ELSE question = 0 /\ answer = 0

Runs(p) == program = p /\ UNCHANGED program

MCNext ==
  \/ Runs("filer") /\ Next /\ UNCHANGED <<lispyVars, sortVars, graphVars, question, answer>>
  \/ Runs("lispy") /\ LispyNext /\ UNCHANGED <<vars, sortVars, graphVars, question, answer>>
  \/ Runs("sorting") /\ SortNext /\ UNCHANGED <<vars, lispyVars, graphVars, question, answer>>
  \/ Runs("graphs") /\ GraphNext /\ UNCHANGED <<vars, lispyVars, sortVars, question, answer>>
  \/ Runs("dyn-prog") /\ D!Next /\ UNCHANGED <<vars, lispyVars, sortVars, graphVars>>

MCSpec == /\ MCInit /\ [][MCNext]_<<vars, lispyVars, sortVars, graphVars, program, question, answer>>
          /\ program = "filer" => Fairness
-----------------------------------------------------------------------------
\* The dynamic programs of algo/dyn-prog find the best there is.
DynProgRight == program = "dyn-prog" => D!AllBest

\* A comment on cut_rod_price: every cut is paid for.
RodPricePaid == program = "dyn-prog" => D!PricePaid
=============================================================================
