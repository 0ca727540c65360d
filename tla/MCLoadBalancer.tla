--------------------------- MODULE MCLoadBalancer ---------------------------
(* Four requesters share two workers with queues of two: a queue, its      *)
(* worker and the balancer can all be occupied at once, which is what a    *)
(* wedge takes, and a requester is left over to compete for the select.    *)
EXTENDS LoadBalancer

CONSTANTS r1, r2, r3, r4, w1, w2

MCRequester == {r1, r2, r3, r4}
MCWorker    == {w1, w2}
=============================================================================
