---------------------------- MODULE LoadBalancer ----------------------------
(***************************************************************************)
(* load-balancer.go without its heap: how a request travels from a         *)
(* requester through the balancer to a worker and back, whichever worker   *)
(* the pool proposes.  `work`, `done` and the reply channels are           *)
(* unbuffered, so a send and its receive are one joint step; the requests  *)
(* channel of a worker is a queue of capacity Cap.                         *)
(*                                                                         *)
(* The balancer is a single goroutine.  While it is in dispatch, blocked   *)
(* on a full queue, it does not listen to `done`.                          *)
(***************************************************************************)
EXTENDS Naturals, Integers, Sequences, FiniteSets

CONSTANTS Requester,             \* the goroutines of startRequesters, 30
          Worker,                \* the goroutines of startWorkers, 1
          Cap,                   \* the capacity of Worker.requests, 3
          None                   \* no request, no worker

ASSUME RequesterAssumption == IsFiniteSet(Requester) /\ Requester # {}
ASSUME WorkerAssumption    == Worker # {}
ASSUME CapAssumption       == Cap \in Nat \ {0}
ASSUME NoneAssumption      == None \notin Requester /\ None \notin Worker

VARIABLES waiting,               \* the requesters at result := <-c
          held, target,          \* dispatch: the request and the worker popped
          queue,                 \* Worker.requests
          wpc, cur,              \* each worker and the request it serves
          pending                \* Worker.pending

vars == <<waiting, held, target, queue, wpc, cur, pending>>

TypeOK == /\ waiting \in SUBSET Requester
          /\ held \in Requester \union {None}
          /\ target \in Worker \union {None}
          /\ held = None <=> target = None
          /\ queue \in [Worker -> Seq(Requester)]
          /\ wpc \in [Worker -> {"recv", "reply", "notify"}]
          /\ cur \in [Worker -> Requester \union {None}]
          /\ \A w \in Worker : cur[w] = None <=> wpc[w] # "reply"
          /\ pending \in [Worker -> Int]

Init == /\ waiting = {} /\ held = None /\ target = None
        /\ queue = [w \in Worker |-> <<>>]
        /\ wpc = [w \in Worker |-> "recv"]
        /\ cur = [w \in Worker |-> None]
        /\ pending = [w \in Worker |-> 0]
-----------------------------------------------------------------------------
Selecting == held = None         \* the balancer is at its select

\* Faulty variant: the requester does not receive its result.
AcceptNoReceive(r, w) == /\ Selecting /\ r \notin waiting
                         /\ held' = r /\ target' = w
                         /\ UNCHANGED <<waiting, queue, wpc, cur, pending>>

\* work <- Request{workFn, c} meets the select, and dispatch pops w.
Accept(r, w) == /\ Selecting /\ r \notin waiting
                /\ waiting' = waiting \union {r}
                /\ held' = r /\ target' = w
                /\ UNCHANGED <<queue, wpc, cur, pending>>

\* w.requests <- req; w.pending++
Enqueue(w) == /\ target = w /\ Len(queue[w]) < Cap
              /\ queue' = [queue EXCEPT ![w] = Append(@, held)]
              /\ pending' = [pending EXCEPT ![w] = @ + 1]
              /\ held' = None /\ target' = None
              /\ UNCHANGED <<waiting, wpc, cur>>

\* Faulty variants: the request stays in the queue, or the last one is taken
\* instead of the first.
TakeCopy(w) == /\ wpc[w] = "recv" /\ queue[w] # <<>>
               /\ cur' = [cur EXCEPT ![w] = Head(queue[w])]
               /\ wpc' = [wpc EXCEPT ![w] = "reply"]
               /\ UNCHANGED <<waiting, held, target, queue, pending>>
TakeLast(w) == /\ wpc[w] = "recv" /\ queue[w] # <<>>
               /\ cur' = [cur EXCEPT ![w] = queue[w][Len(queue[w])]]
               /\ queue' = [queue EXCEPT ![w] = SubSeq(@, 1, Len(@) - 1)]
               /\ wpc' = [wpc EXCEPT ![w] = "reply"]
               /\ UNCHANGED <<waiting, held, target, pending>>

\* req := <-w.requests
Take(w) == /\ wpc[w] = "recv" /\ queue[w] # <<>>
           /\ cur' = [cur EXCEPT ![w] = Head(queue[w])]
           /\ queue' = [queue EXCEPT ![w] = Tail(@)]
           /\ wpc' = [wpc EXCEPT ![w] = "reply"]
           /\ UNCHANGED <<waiting, held, target, pending>>

\* req.c <- req.fn() meets the requester, which goes back to sleep.
Reply(w) == /\ wpc[w] = "reply" /\ cur[w] \in waiting
            /\ waiting' = waiting \ {cur[w]}
            /\ cur' = [cur EXCEPT ![w] = None]
            /\ wpc' = [wpc EXCEPT ![w] = "notify"]
            /\ UNCHANGED <<held, target, queue, pending>>

\* Faulty variant: `done` is heard during a dispatch too.
CompletedAnytime(w) == /\ wpc[w] = "notify"
                       /\ pending' = [pending EXCEPT ![w] = @ - 1]
                       /\ wpc' = [wpc EXCEPT ![w] = "recv"]
                       /\ UNCHANGED <<waiting, held, target, queue, cur>>

\* done <- w meets the select: completed(w).
Completed(w) == /\ Selecting /\ wpc[w] = "notify"
                /\ pending' = [pending EXCEPT ![w] = @ - 1]
                /\ wpc' = [wpc EXCEPT ![w] = "recv"]
                /\ UNCHANGED <<waiting, held, target, queue, cur>>

WorkerStep(w) == Enqueue(w) \/ Take(w) \/ Reply(w) \/ Completed(w)

Progress == \E w \in Worker : (\E r \in Requester : Accept(r, w)) \/ WorkerStep(w)

\* No channel operation can go on: nobody submits or reports while the
\* balancer selects, its send has no room, and no worker has a request to
\* take or anybody to answer.  TLC reports any other state without a step as
\* a deadlock.
Stuck == /\ Selecting => Requester \subseteq waiting
         /\ \A w \in Worker : /\ target = w => Len(queue[w]) >= Cap
                              /\ wpc[w] = "recv" => queue[w] = <<>>
                              /\ wpc[w] = "reply" => cur[w] \notin waiting
                              /\ wpc[w] = "notify" => ~Selecting

Next == Progress \/ (Stuck /\ UNCHANGED vars)

Spec == Init /\ [][Next]_vars

\* Goroutines are scheduled fairly.  Completed competes with Accept in a
\* select, which Go resolves at random: a case that is ready again and again
\* is taken in the end.  No requester has to submit anything.
Fairness == \A w \in Worker : /\ WF_vars(Enqueue(w)) /\ WF_vars(Take(w))
                              /\ WF_vars(Reply(w)) /\ SF_vars(Completed(w))

FairSpec == Spec /\ Fairness
-----------------------------------------------------------------------------
(* Properties                                                              *)

\* The requests held by the balancer, queued at w and served by w.
Queued(w)  == {queue[w][i] : i \in DOMAIN queue[w]}
Serving(w) == {r \in Requester : wpc[w] = "reply" /\ cur[w] = r}

\* A request is in one place at a time: held, at one position of one queue
\* or with one worker.  Requesters reuse their reply channel, so a second
\* copy would answer the requester's next request.
RequestOnce ==
  /\ \A v, w \in Worker : \A i \in DOMAIN queue[v], j \in DOMAIN queue[w] :
       queue[v][i] = queue[w][j] => v = w /\ i = j
  /\ \A v, w \in Worker : Serving(v) \intersect Queued(w) = {}
  /\ \A v, w \in Worker : v # w => Serving(v) \intersect Serving(w) = {}
  /\ \A w \in Worker : held \notin Queued(w) \union Serving(w)

\* A requester waits exactly while its request is somewhere in the system:
\* no request is lost, and no worker blocks on a reply nobody waits for.
WaitingIsServed ==
  \A r \in Requester : r \in waiting <=>
    \/ held = r
    \/ \E w \in Worker : r \in Queued(w) \union Serving(w)

\* The load the heap is ordered by: requests queued and the one in work,
\* until the balancer has heard of it; never negative.
PendingCounts ==
  \A w \in Worker : pending[w] = Len(queue[w]) + (IF wpc[w] = "recv" THEN 0 ELSE 1)

\* A send blocks on a full queue: it never holds more than Cap requests.
Bounded == \A w \in Worker : Len(queue[w]) <= Cap

\* The inductive invariant of the balancer's bookkeeping.
Inv == TypeOK /\ RequestOnce /\ WaitingIsServed /\ PendingCounts /\ Bounded

\* The balancer waits for room in the queue of a worker that waits for the
\* balancer to listen to `done`.
Wedged == \E w \in Worker : target = w /\ Len(queue[w]) = Cap /\ wpc[w] = "notify"

\* It takes more requesters than one queue has room for, all of them waiting,
\* to wedge the balancer.  With no more than Cap it never happens.
WedgeNeedsCrowd == Wedged => Cardinality(waiting) > Cap

\* A wedged balancer stays wedged.
WedgeForever == [][Wedged => Wedged']_vars

\* Nothing but the wedge stops the program.
StuckIsWedge == Stuck => Wedged

\* Every request accepted is answered, unless the balancer is wedged.
Answered == \A r \in Requester : r \in waiting ~> r \notin waiting \/ Wedged
=============================================================================
