------------------------------- MODULE Lispy --------------------------------
(***************************************************************************)
(* The interpreter of lisp-c/ch11/var.c: its loop of read, eval and print  *)
(* over trees of lval that are built, changed in place and freed by hand.  *)
(* The heap maps the address of each live lval to its node; a node's       *)
(* string or cell array lives and dies with it.  An operation takes a heap *)
(* and returns [h, v]: the heap after it and the lval it returns.          *)
(*                                                                         *)
(* The environment (lenv_*, lval_put, LVAL_FUN) is not reached from main:  *)
(* a symbol evaluates to itself.                                           *)
(***************************************************************************)
EXTENDS Integers, Sequences, FiniteSets, SequencesExt, TLC

CONSTANTS Lines,                 \* what may be typed, parsed
          LongMax                \* a long is in -LongMax-1 .. LongMax

ASSUME LongAssumption == LongMax \in Nat

VARIABLES heap,                  \* live lvals, next address, error flags
          root,                  \* the lval that main holds, or 0
          line, printed,         \* what was read and what was printed
          hurt,                  \* whether malloc's own data may be damaged
          pc

lispyVars == <<heap, root, line, printed, hurt, pc>>

\* An lval, or the tree of one: type, number, symbol or message, cells.
Node(t, n, s, c) == [t |-> t, n |-> n, s |-> s, c |-> c]
Num(n)   == Node("num", n, "", <<>>)
Sym(s)   == Node("sym", 0, s, <<>>)
Err(s)   == Node("err", 0, s, <<>>)
Sexpr(c) == Node("sexpr", 0, "", c)
Qexpr(c) == Node("qexpr", 0, "", c)

\* bad: something was freed twice.  torn: lval_pop wrote behind the array.
\* trap: LONG_MIN / -1.
EmptyHeap == [mem |-> <<>>, next |-> 1, bad |-> FALSE, torn |-> FALSE,
              trap |-> FALSE]

Long == -LongMax - 1 .. LongMax

\* Signed overflow, as the machine's addition does it.
Wrap(n) == ((n + LongMax + 1) % (2 * (LongMax + 1))) - LongMax - 1
-----------------------------------------------------------------------------
(* Building and freeing                                                    *)

New(h, node) == [h |-> [h EXCEPT !.mem = (h.next :> node) @@ @, !.next = @ + 1],
                 v |-> h.next]

Cells(h, v) == h.mem[v].c

\* lval_del
RECURSIVE Del(_, _)
Del(h, v) ==
  IF v \notin DOMAIN h.mem THEN [h EXCEPT !.bad = TRUE]
  ELSE LET g == FoldLeft(Del, h, Cells(h, v))
       IN  [g EXCEPT !.mem = [a \in DOMAIN g.mem \ {v} |-> g.mem[a]]]

\* lval_read, with lval_add for the children of a node
RECURSIVE Read(_, _)
Read(h, tree) ==
  LET children == FoldLeft(LAMBDA r, t : LET x == Read(r.h, t)
                                         IN  [h |-> x.h, v |-> Append(r.v, x.v)],
                           [h |-> h, v |-> <<>>], tree.c)
  IN  New(children.h, [tree EXCEPT !.c = children.v])

\* lval_print: the tree that is shown
RECURSIVE Shown(_, _)
Shown(h, v) == [h.mem[v] EXCEPT !.c = [i \in DOMAIN @ |-> Shown(h, @[i])]]

\* lval_add
Add(h, v, x) == [h EXCEPT !.mem[v].c = Append(@, x)]

\* lval_pop of cell i, counted from 0.  memmove shifts count - 1 cells
\* whatever i is; from the third cell on they end behind the array.
Pop(h, v, i) == [h |-> [h EXCEPT !.mem[v].c = RemoveAt(@, i + 1),
                                 !.torn = @ \/ i >= 2],
                 v |-> Cells(h, v)[i + 1]]

\* lval_take
Take(h, v, i) == LET p == Pop(h, v, i) IN [h |-> Del(p.h, v), v |-> p.v]

\* LASSERT when the condition fails
Fail(h, args, s) == New(Del(h, args), Err(s))
-----------------------------------------------------------------------------
(* The built-in functions, each of the list of its arguments               *)

OneQexpr(h, args) == /\ Len(Cells(h, args)) = 1
                     /\ h.mem[Cells(h, args)[1]].t = "qexpr"
OneFullQexpr(h, args) == /\ OneQexpr(h, args)
                         /\ Cells(h, Cells(h, args)[1]) # <<>>

\* The message of head, tail and eval says which assertion failed.
Complaint(h, args) == IF Len(Cells(h, args)) # 1 THEN "one argument"
                      ELSE IF OneQexpr(h, args) THEN "passed {}"
                      ELSE "not a Q expression"

\* Pop cell i of v and free it.
Drop(h, v, i) == LET p == Pop(h, v, i) IN Del(p.h, p.v)

\* Faulty variant: what follows the head is popped, not freed.
BuiltinHeadLeaks(h, args) ==
  IF ~OneFullQexpr(h, args) THEN Fail(h, args, Complaint(h, args))
  ELSE LET t == Take(h, args, 0)
       IN  [t EXCEPT !.h.mem[t.v].c = SubSeq(@, 1, 1)]

BuiltinHead(h, args) ==
  IF ~OneFullQexpr(h, args) THEN Fail(h, args, Complaint(h, args))
  ELSE LET t == Take(h, args, 0)
           rest == Tail(Cells(t.h, t.v))
       IN  [t EXCEPT !.h = FoldLeft(LAMBDA g, a : Drop(g, t.v, 1), @, rest)]

BuiltinTail(h, args) ==
  IF ~OneFullQexpr(h, args) THEN Fail(h, args, Complaint(h, args))
  ELSE LET t == Take(h, args, 0) IN [t EXCEPT !.h = Drop(@, t.v, 0)]

BuiltinList(h, args) == [h |-> [h EXCEPT !.mem[args].t = "qexpr"], v |-> args]

\* Faulty variant: y is emptied from its end.
JoinReversed(h, x, y) ==
  Del(FoldLeft(LAMBDA g, a : LET p == Pop(g, y, Len(Cells(g, y)) - 1)
                             IN  Add(p.h, x, p.v),
               h, Cells(h, y)), y)

\* lval_join
Join(h, x, y) ==
  Del(FoldLeft(LAMBDA g, a : LET p == Pop(g, y, 0) IN Add(p.h, x, p.v),
               h, Cells(h, y)), y)

BuiltinJoin(h, args) ==
  IF \E i \in DOMAIN Cells(h, args) : h.mem[Cells(h, args)[i]].t # "qexpr"
  THEN Fail(h, args, "not a Q expression")
  ELSE LET x == Pop(h, args, 0)
           g == FoldLeft(LAMBDA f, a : LET p == Pop(f, args, 0)
                                       IN  Join(p.h, x.v, p.v),
                         x.h, Cells(x.h, args))
       IN  [h |-> Del(g, args), v |-> x.v]

\* C's division truncates.
Quotient(a, b) == LET abs(n) == IF n < 0 THEN -n ELSE n
                      q == abs(a) \div abs(b)
                  IN  IF (a < 0) = (b < 0) THEN q ELSE -q

\* op may be several characters, for which no comparison holds.
Apply(op, a, b) == CASE op = "+" -> a + b
                     [] op = "-" -> a - b
                     [] op = "*" -> a * b
                     [] op = "/" -> Quotient(a, b)
                     [] OTHER -> a

\* The loop of builtin_op: the arguments are popped into x one by one.
RECURSIVE Operate(_, _, _, _)
Operate(h, x, args, op) ==
  IF Cells(h, args) = <<>> THEN [h |-> h, v |-> x]
  ELSE LET p == Pop(h, args, 0)
           a == h.mem[x].n
           b == h.mem[p.v].n
           r == Apply(op, a, b)
           g == [p.h EXCEPT !.mem[x].n = Wrap(r),
                            !.trap = @ \/ (op = "/" /\ r \notin Long)]
       IN  IF op = "/" /\ b = 0
           THEN New(Del(Del(p.h, x), p.v), Err("Division by zero"))
           ELSE Operate(Del(g, p.v), x, args, op)

BuiltinOp(h, args, op) ==
  IF \E i \in DOMAIN Cells(h, args) : h.mem[Cells(h, args)[i]].t # "num"
  THEN Fail(h, args, "Cannot operate on non-number!")
  ELSE LET x == Pop(h, args, 0)
           g == IF op = "-" /\ Cells(x.h, args) = <<>>
                THEN [x.h EXCEPT !.mem[x.v].n = Wrap(-@)] ELSE x.h
           r == Operate(g, x.v, args, op)
       IN  [r EXCEPT !.h = Del(@, args)]

\* strstr("+-/*", func)
Operators == {"+", "-", "/", "*", "+-", "-/", "/*", "+-/", "-/*", "+-/*"}
-----------------------------------------------------------------------------
(* Evaluation                                                              *)

FirstErr(h, v) == SelectInSeq(Cells(h, v), LAMBDA a : h.mem[a].t = "err")

\* lval_eval, with lval_eval_sexpr, builtin and builtin_eval
RECURSIVE Eval(_, _)
Eval(h, v) ==
  LET evaluated == FoldLeft(LAMBDA g, i : LET r == Eval(g, Cells(g, v)[i])
                                          IN  [r.h EXCEPT !.mem[v].c[i] = r.v],
                            h, [i \in DOMAIN Cells(h, v) |-> i])
      g == evaluated
      f == Pop(g, v, 0)
      s == g.mem[f.v].s
      Builtin == CASE s = "list" -> BuiltinList(f.h, v)
                   [] s = "head" -> BuiltinHead(f.h, v)
                   [] s = "tail" -> BuiltinTail(f.h, v)
                   [] s = "join" -> BuiltinJoin(f.h, v)
                   [] s = "eval" ->
                        IF ~OneQexpr(f.h, v) THEN Fail(f.h, v, Complaint(f.h, v))
                        ELSE LET t == Take(f.h, v, 0)
                             IN  Eval([t.h EXCEPT !.mem[t.v].t = "sexpr"], t.v)
                   [] s \in Operators -> BuiltinOp(f.h, v, s)
                   [] OTHER -> Fail(f.h, v, "Unkown function!")
  IN  IF h.mem[v].t # "sexpr" THEN [h |-> h, v |-> v]
      ELSE IF FirstErr(g, v) # 0 THEN Take(g, v, FirstErr(g, v) - 1)
      ELSE IF Cells(g, v) = <<>> THEN [h |-> g, v |-> v]
      ELSE IF Len(Cells(g, v)) = 1 THEN Take(g, v, 0)
      ELSE IF g.mem[f.v].t # "sym"
      THEN New(Del(Del(f.h, f.v), v), Err("does not start with a symbol"))
      ELSE [Builtin EXCEPT !.h = Del(@, f.v)]
-----------------------------------------------------------------------------
(* The loop of main                                                        *)

NoLine == Sexpr(<<>>)              \* nothing read or printed yet

LispyInit == /\ heap = EmptyHeap /\ root = 0 /\ hurt = FALSE
             /\ line = NoLine /\ printed = NoLine /\ pc = "prompt"

\* A line that mpc parses; one that it does not makes no lval.
ReadLine == /\ pc = "prompt" /\ pc' = "eval"
            /\ \E e \in Lines : LET r == Read(heap, e)
                                IN  heap' = r.h /\ root' = r.v /\ line' = e
            /\ UNCHANGED <<printed, hurt>>

\* The trap of a division that overflows ends the process.
EvalLine == /\ pc = "eval"
            /\ LET r == Eval(heap, root)
               IN  /\ heap' = r.h /\ root' = r.v
                   /\ hurt' = (hurt \/ r.h.torn)
                   /\ pc' = IF r.h.trap THEN "killed" ELSE "print"
            /\ UNCHANGED <<line, printed>>

\* lval_println, then lval_del
PrintLine == /\ pc = "print" /\ pc' = "shown"
             /\ printed' = Shown(heap, root)
             /\ heap' = Del(heap, root) /\ root' = 0
             /\ UNCHANGED <<line, hurt>>

\* The next turn of the loop; addresses that are free again may be reused.
NextLine == /\ pc = "shown" /\ pc' = "prompt"
            /\ heap' = [heap EXCEPT !.next = Cardinality(DOMAIN heap.mem) + 1,
                                    !.torn = FALSE]
            /\ line' = NoLine /\ printed' = NoLine
            /\ UNCHANGED <<root, hurt>>

\* malloc, realloc or free finds its data damaged, at once, later or never.
Killed == /\ hurt /\ pc # "killed" /\ pc' = "killed"
          /\ UNCHANGED <<heap, root, line, printed, hurt>>

LispyNext == ReadLine \/ EvalLine \/ PrintLine \/ NextLine \/ Killed
-----------------------------------------------------------------------------
(* What a line means                                                       *)

Undefined == Node("undefined", 0, "", <<>>)

\* The value of op over the numbers ns, in exact arithmetic; undefined when
\* a value on the way is not a long.
Meant(op, ns) ==
  LET step(r, m) == IF r.t # "num" THEN r
                    ELSE IF op = "/" /\ m = 0 THEN Err("Division by zero")
                    ELSE IF Apply(op, r.n, m) \notin Long THEN Undefined
                    ELSE Num(Apply(op, r.n, m))
  IN  IF op = "-" /\ Len(ns) = 1
      THEN IF -ns[1] \in Long THEN Num(-ns[1]) ELSE Undefined
      ELSE FoldLeft(step, Num(Head(ns)), Tail(ns))

\* The meaning of tree e, and of function s applied to the values vs, as
\* values without addresses.
RECURSIVE Meaning(_)
Called(s, vs) ==
  LET q == vs[1]
      one == Len(vs) = 1
      isQ == one /\ q.t = "qexpr"
      why == IF ~one THEN "one argument" ELSE IF isQ THEN "passed {}"
             ELSE "not a Q expression"
  IN  CASE s = "list" -> Qexpr(vs)
        [] s = "head" -> IF isQ /\ q.c # <<>> THEN Qexpr(<<Head(q.c)>>) ELSE Err(why)
        [] s = "tail" -> IF isQ /\ q.c # <<>> THEN Qexpr(Tail(q.c)) ELSE Err(why)
        [] s = "eval" -> IF isQ THEN Meaning(Sexpr(q.c)) ELSE Err(why)
        [] s = "join" -> IF \A i \in DOMAIN vs : vs[i].t = "qexpr"
                         THEN Qexpr(FlattenSeq([i \in DOMAIN vs |-> vs[i].c]))
                         ELSE Err("not a Q expression")
        [] s \in Operators -> IF \A i \in DOMAIN vs : vs[i].t = "num"
                              THEN Meant(s, [i \in DOMAIN vs |-> vs[i].n])
                              ELSE Err("Cannot operate on non-number!")
        [] OTHER -> Err("Unkown function!")

Meaning(e) ==
  LET vs  == [i \in DOMAIN e.c |-> Meaning(e.c[i])]
      bad == SelectInSeq(vs, LAMBDA x : x.t = "err")
  IN  IF e.t # "sexpr" THEN e
      ELSE IF \E i \in DOMAIN vs : vs[i].t = "undefined" THEN Undefined
      ELSE IF bad # 0 THEN vs[bad]
      ELSE IF vs = <<>> THEN e
      ELSE IF Len(vs) = 1 THEN vs[1]
      ELSE IF vs[1].t # "sym" THEN Err("does not start with a symbol")
      ELSE Called(vs[1].s, Tail(vs))

\* Evaluating e meets a list whose first error is its third cell or later.
RECURSIVE LateError(_)
LateError(e) ==
  LET vs == [i \in DOMAIN e.c |-> Meaning(e.c[i])]
      bad == SelectInSeq(vs, LAMBDA x : x.t = "err")
  IN  /\ e.t = "sexpr"
      /\ \/ bad > 2
         \/ \E i \in DOMAIN e.c : LateError(e.c[i])
         \/ /\ bad = 0 /\ Len(vs) = 2 /\ vs[1].s = "eval" /\ vs[1].t = "sym"
            /\ vs[2].t = "qexpr" /\ LateError(Sexpr(vs[2].c))
-----------------------------------------------------------------------------
(* Properties                                                              *)

RECURSIVE Reachable(_, _)
Reachable(h, v) == {v} \union UNION {Reachable(h, Cells(h, v)[i]) :
                                       i \in DOMAIN Cells(h, v)}

\* Ownership: nothing is freed twice or used after it was freed, every live
\* lval belongs to the one tree that main holds, and after a line is printed
\* nothing is left.
NothingLeft == /\ ~heap.bad
               /\ root = 0 => heap.mem = <<>>
               /\ root # 0 => DOMAIN heap.mem = Reachable(heap, root)

\* What is printed is what the line means, where that is defined.  A write
\* behind an array only comes of an error that is the third cell of a list or
\* a later one, and a trap only of an overflow.
PrintsMeaning ==
  LET m == Meaning(line)
  IN  m # Undefined => /\ pc = "shown" => printed = m
                       /\ heap.torn => LateError(line)
                       /\ ~heap.trap
=============================================================================
