--------------------------- MODULE MCHeapBalancer ---------------------------
(* main starts one worker.  With two the index of a worker goes wrong, and *)
(* with four Down has a left and a right child to choose from when one of  *)
(* them has left the pool.  Requesters differ in name only.                *)
EXTENDS HeapBalancer, TLC

CONSTANTS r1, r2, r3, r4, w1, w2, w3, w4

MCRequester == {r1, r2, r3, r4}
MCWorker    == {w1, w2, w3, w4}
OneToFour   == {{w1}, {w1, w2}, {w1, w2, w3}, {w1, w2, w3, w4}}
Pair        == {{w1, w2}}
Symmetric   == Permutations(MCRequester)
=============================================================================
