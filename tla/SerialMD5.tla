----------------------------- MODULE SerialMD5 ------------------------------
(* serial.go: MD5All in the callback of filepath.Walk, one file at a time. *)
(* A sequential program: what it returns is a function of the tree.        *)
EXTENDS Naturals

CONSTANT N                       \* the number of entries Walk would present

Entry == 1..N

\* Faulty variant: the sums so far are returned with the error.
ReturnPartial(sums, e, i) == [sums |-> sums, err |-> e, file |-> i]

\* The return statements of MD5All: the map is dropped when Walk reports an
\* error of its own or of the callback, which names file i.
Return(sums, e, i) == [sums |-> IF e = "nil" THEN sums ELSE {}, err |-> e, file |-> i]

\* The map and the error after entry i of the tree, when they are m.sums and
\* m.err before it: Walk goes no further after its own error or one of the
\* callback, so a read error names the first file that cannot be read.
Visit(tree, i, m) ==
  IF m.err # "nil" THEN m
  ELSE CASE tree[i] = "broken"     -> [sums |-> m.sums, err |-> "walk", file |-> 0]
         [] tree[i] = "unreadable" -> [sums |-> m.sums, err |-> "read", file |-> i]
         [] tree[i] = "other"      -> m
         [] tree[i] = "regular"    -> [sums |-> m.sums \union {i}, err |-> "nil", file |-> 0]

SerialMD5All(tree) ==
  LET walk[i \in 0..N] == IF i = 0 THEN [sums |-> {}, err |-> "nil", file |-> 0]
                          ELSE Visit(tree, i, walk[i - 1])
  IN  Return(walk[N].sums, walk[N].err, walk[N].file)
=============================================================================
