------------------------ MODULE LoadBalancer_proof --------------------------
(* What the balancer's channels guarantee for any number of requesters and *)
(* workers and any capacity: no request is lost or doubled, the load a     *)
(* worker is ordered by is exact, it takes more requesters than one queue  *)
(* has room for to wedge the balancer, and nothing else stops it. Then     *)
(* what its heap makes of the pool and of the indices, for any fleet, and  *)
(* that the balancer with its heap implements the one without.             *)
EXTENDS HeapBalancer, TLAPS, FiniteSetTheorems, FunctionTheorems,
        SequenceTheorems, WellFoundedInduction

\* The request a worker has in work or has not yet reported.
InWork(w) == IF wpc[w] = "recv" THEN 0 ELSE 1

\* What a send to and a receive from a channel do to its contents.
LEMMA AppendFacts ==
  ASSUME NEW S, NEW s \in Seq(S), NEW e \in S
  PROVE  /\ Append(s, e) \in Seq(S)
         /\ Len(Append(s, e)) = Len(s) + 1
         /\ DOMAIN Append(s, e) = DOMAIN s \union {Len(s) + 1}
         /\ \A i \in DOMAIN s : i # Len(s) + 1 /\ Append(s, e)[i] = s[i]
         /\ Append(s, e)[Len(s) + 1] = e
OBVIOUS

LEMMA TailFacts ==
  ASSUME NEW S, NEW s \in Seq(S), s # <<>>
  PROVE  /\ Tail(s) \in Seq(S) /\ Head(s) \in S
         /\ Len(s) \in Nat \ {0} /\ Len(Tail(s)) = Len(s) - 1
         /\ 1 \in DOMAIN s /\ Head(s) = s[1]
         /\ \A i \in DOMAIN Tail(s) : /\ i + 1 \in DOMAIN s /\ i + 1 # 1
                                      /\ Tail(s)[i] = s[i + 1]
         /\ \A i \in DOMAIN s : i # 1 => i - 1 \in DOMAIN Tail(s) /\ Tail(s)[i - 1] = s[i]
         /\ DOMAIN Tail(s) \subseteq Int /\ DOMAIN s \subseteq Int
OBVIOUS

\* A set that contains a queue's worth of distinct requests and one more is
\* larger than the queue.
LEMMA OneMoreThanQueue ==
  ASSUME NEW S, IsFiniteSet(S), NEW q \in Seq(S), NEW r \in S,
         \A i, j \in DOMAIN q : q[i] = q[j] => i = j,
         \A i \in DOMAIN q : q[i] # r
  PROVE  Cardinality(S) > Len(q)
<1> DEFINE Place == 1..(Len(q) + 1)
           f == [i \in Place |-> IF i = Len(q) + 1 THEN r ELSE q[i]]
<1>1. Len(q) \in Nat /\ DOMAIN q = 1..Len(q)
  OBVIOUS
<1>2. IsFiniteSet(Place) /\ Cardinality(Place) = Len(q) + 1
  BY <1>1, FS_Interval
<1>3. f \in [Place -> S]
  BY <1>1
<1>4. \A i, j \in Place : f[i] = f[j] => i = j
  BY <1>1
<1>5. f \in Injection(Place, S)
  BY <1>3, <1>4 DEF Injection, IsInjective
<1>6. Cardinality(Place) <= Cardinality(S)
  BY <1>2, <1>5, FS_Injection DEF ExistsInjection
<1>7. Cardinality(S) \in Nat
  BY FS_CardinalityType
<1> QED
  BY <1>1, <1>2, <1>6, <1>7

LEMMA InitInv == Init => Inv
<1> SUFFICES ASSUME Init PROVE Inv
  OBVIOUS
<1> USE CapAssumption, NoneAssumption DEF Init
<1>1. \A w \in Worker : queue[w] = <<>> /\ Len(queue[w]) = 0 /\ DOMAIN queue[w] = {}
  OBVIOUS
<1>2. TypeOK
  BY DEF TypeOK
<1>3. RequestOnce /\ WaitingIsServed
  BY <1>1 DEF RequestOnce, WaitingIsServed, Queued, Serving
<1>4. PendingCounts /\ Bounded
  BY <1>1 DEF PendingCounts, Bounded
<1> QED
  BY <1>2, <1>3, <1>4 DEF Inv

\* Accepting a request of a requester that was asleep.
LEMMA AcceptInv ==
  ASSUME Inv, NEW r \in Requester, NEW w \in Worker, Accept(r, w)
  PROVE  Inv'
<1> USE NoneAssumption DEF Inv, Accept, Selecting
<1>1. TypeOK'
  BY DEF TypeOK
<1>2. \A v \in Worker : Queued(v)' = Queued(v) /\ Serving(v)' = Serving(v)
  BY DEF Queued, Serving
<1>3. \A v \in Worker : r \notin Queued(v) \union Serving(v)
  BY DEF WaitingIsServed
<1>4. RequestOnce'
  BY <1>2, <1>3 DEF RequestOnce
<1>5. WaitingIsServed'
  BY <1>2 DEF WaitingIsServed, TypeOK
<1>6. PendingCounts' /\ Bounded'
  BY DEF PendingCounts, Bounded
<1> QED
  BY <1>1, <1>4, <1>5, <1>6

\* The request moves from the balancer to the end of a queue.
LEMMA EnqueueInv ==
  ASSUME Inv, NEW w \in Worker, Enqueue(w)
  PROVE  Inv'
<1> USE NoneAssumption DEF Inv
<1> DEFINE n == Len(queue[w]) + 1
<1>1. /\ held \in Requester /\ queue[w] \in Seq(Requester)
      /\ queue' = [queue EXCEPT ![w] = Append(queue[w], held)]
      /\ held' = None /\ UNCHANGED <<waiting, wpc, cur>>
  BY DEF Enqueue, TypeOK
<1>2. /\ queue'[w] = Append(queue[w], held)
      /\ \A v \in Worker : v # w => queue'[v] = queue[v]
  BY <1>1 DEF TypeOK
<1>3. /\ DOMAIN queue'[w] = DOMAIN queue[w] \union {n}
      /\ \A i \in DOMAIN queue[w] : i # n /\ queue'[w][i] = queue[w][i]
      /\ queue'[w][n] = held /\ Len(queue'[w]) = n /\ queue'[w] \in Seq(Requester)
  BY <1>1, <1>2, AppendFacts
<1>4. \A v \in Worker : Serving(v)' = Serving(v)
  BY <1>1 DEF Serving
<1>5. Queued(w)' = Queued(w) \union {held} /\ \A v \in Worker : v # w => Queued(v)' = Queued(v)
  BY <1>2, <1>3 DEF Queued
<1>6. \A v \in Worker : held \notin Queued(v) \union Serving(v)
  BY DEF RequestOnce
<1>7. TypeOK'
  BY <1>1, <1>3 DEF TypeOK, Enqueue
<1>8. RequestOnce'
  <2>1. ASSUME NEW u \in Worker, NEW v \in Worker,
               NEW i \in DOMAIN queue'[u], NEW j \in DOMAIN queue'[v],
               queue'[u][i] = queue'[v][j]
        PROVE  u = v /\ i = j
    <3>1. \A x \in Worker : \A k \in DOMAIN queue'[x] :
            \/ x = w /\ k = n /\ queue'[x][k] = held
            \/ k \in DOMAIN queue[x] /\ queue'[x][k] = queue[x][k] /\ queue[x][k] # held
      BY <1>2, <1>3, <1>6 DEF Queued
    <3>2. \A x, y \in Worker : \A k \in DOMAIN queue[x], l \in DOMAIN queue[y] :
            queue[x][k] = queue[y][l] => x = y /\ k = l
      BY DEF RequestOnce
    <3> QED
      BY <2>1, <3>1, <3>2
  <2>2. \A u, v \in Worker : Serving(u)' \intersect Queued(v)' = {}
    BY <1>4, <1>5, <1>6 DEF RequestOnce
  <2>3. \A u, v \in Worker : u # v => Serving(u)' \intersect Serving(v)' = {}
    BY <1>4 DEF RequestOnce
  <2>4. \A v \in Worker : None \notin Queued(v)' \union Serving(v)'
    BY <1>1, <1>4, <1>5, <1>7 DEF Queued, Serving, TypeOK
  <2> QED
    BY <1>1, <2>1, <2>2, <2>3, <2>4 DEF RequestOnce
<1>9. WaitingIsServed'
  BY <1>1, <1>4, <1>5 DEF WaitingIsServed
<1>10. PendingCounts' /\ Bounded'
  <2>1. /\ Len(queue'[w]) = Len(queue[w]) + 1 /\ Len(queue[w]) < Cap
        /\ pending'[w] = pending[w] + 1 /\ InWork(w)' = InWork(w)
    BY <1>1, <1>3 DEF Enqueue, TypeOK, InWork
  <2>2. /\ Len(queue[w]) \in Nat /\ pending[w] \in Int /\ InWork(w) \in Int
        /\ pending[w] = Len(queue[w]) + InWork(w)
    BY <1>1 DEF TypeOK, PendingCounts, InWork
  <2>3. pending'[w] = Len(queue'[w]) + InWork(w)' /\ Len(queue'[w]) <= Cap
    BY <2>1, <2>2, CapAssumption
  <2>4. ASSUME NEW v \in Worker, v # w
        PROVE  queue'[v] = queue[v] /\ pending'[v] = pending[v] /\ InWork(v)' = InWork(v)
    BY <1>1, <1>2, <2>4 DEF Enqueue, TypeOK, InWork
  <2> QED
    BY <2>3, <2>4 DEF PendingCounts, Bounded, InWork
<1> QED
  BY <1>7, <1>8, <1>9, <1>10

\* The request at the head of a queue moves to its worker.
LEMMA TakeInv ==
  ASSUME Inv, NEW w \in Worker, Take(w)
  PROVE  Inv'
<1> USE NoneAssumption DEF Inv
<1> DEFINE h == Head(queue[w])
<1>1. /\ queue[w] \in Seq(Requester) /\ queue[w] # <<>> /\ wpc[w] = "recv"
      /\ queue' = [queue EXCEPT ![w] = Tail(queue[w])]
      /\ cur' = [cur EXCEPT ![w] = h] /\ wpc' = [wpc EXCEPT ![w] = "reply"]
      /\ UNCHANGED <<waiting, held, target, pending>>
  BY DEF Take, TypeOK
<1>2. /\ queue'[w] = Tail(queue[w])
      /\ \A v \in Worker : v # w => queue'[v] = queue[v]
  BY <1>1 DEF TypeOK
<1>3. /\ h \in Requester /\ 1 \in DOMAIN queue[w] /\ h = queue[w][1]
      /\ \A i \in DOMAIN queue'[w] : /\ i + 1 \in DOMAIN queue[w] /\ i + 1 # 1
                                     /\ queue'[w][i] = queue[w][i + 1]
      /\ \A i \in DOMAIN queue[w] : i # 1 => /\ i - 1 \in DOMAIN queue'[w]
                                             /\ queue'[w][i - 1] = queue[w][i]
      /\ DOMAIN queue'[w] \subseteq Int /\ DOMAIN queue[w] \subseteq Int
      /\ Len(queue[w]) \in Nat \ {0} /\ Len(queue'[w]) = Len(queue[w]) - 1
      /\ queue'[w] \in Seq(Requester)
  <2>1. queue[w] \in Seq(Requester) /\ queue[w] # <<>>
    BY <1>1
  <2> HIDE DEF Inv
  <2> QED
    BY <1>2, <2>1, TailFacts
<1>4. \A x, y \in Worker : \A k \in DOMAIN queue[x], l \in DOMAIN queue[y] :
        queue[x][k] = queue[y][l] => x = y /\ k = l
  BY DEF RequestOnce
<1>5. Serving(w) = {} /\ Serving(w)' = {h} /\ \A v \in Worker : v # w => Serving(v)' = Serving(v)
  BY <1>1, <1>3 DEF Serving, TypeOK
<1>6. Queued(w) = Queued(w)' \union {h} /\ h \notin Queued(w)'
  <2>1. Queued(w)' \subseteq Queued(w)
    BY <1>3 DEF Queued
  <2>2. Queued(w) \subseteq Queued(w)' \union {h} /\ h \in Queued(w)
    BY <1>3 DEF Queued
  <2>3. \A i \in DOMAIN queue'[w] : queue'[w][i] # h
    BY <1>3, <1>4
  <2> QED
    BY <2>1, <2>2, <2>3 DEF Queued
<1>7. \A v \in Worker : v # w => Queued(v)' = Queued(v) /\ h \notin Queued(v)
  BY <1>2, <1>3, <1>4 DEF Queued
<1>8. TypeOK'
  BY <1>1, <1>3 DEF TypeOK
<1>9. RequestOnce'
  <2>1. ASSUME NEW u \in Worker, NEW v \in Worker,
               NEW i \in DOMAIN queue'[u], NEW j \in DOMAIN queue'[v],
               queue'[u][i] = queue'[v][j]
        PROVE  u = v /\ i = j
    <3>1. CASE u = w /\ v = w
      <4>1. /\ i \in Int /\ j \in Int /\ i + 1 \in DOMAIN queue[w] /\ j + 1 \in DOMAIN queue[w]
            /\ queue[w][i + 1] = queue[w][j + 1]
        BY <1>3, <2>1, <3>1
      <4>2. i + 1 = j + 1
        BY <1>4, <4>1
      <4> QED
        BY <3>1, <4>1, <4>2
    <3>2. CASE u = w /\ v # w
      <4>1. i + 1 \in DOMAIN queue[w] /\ j \in DOMAIN queue[v] /\ queue[w][i + 1] = queue[v][j]
        BY <1>2, <1>3, <2>1, <3>2
      <4> QED
        BY <1>4, <3>2, <4>1
    <3>3. CASE u # w /\ v = w
      <4>1. i \in DOMAIN queue[u] /\ j + 1 \in DOMAIN queue[w] /\ queue[u][i] = queue[w][j + 1]
        BY <1>2, <1>3, <2>1, <3>3
      <4> QED
        BY <1>4, <3>3, <4>1
    <3>4. CASE u # w /\ v # w
      BY <1>2, <1>4, <2>1, <3>4
    <3> QED
      BY <3>1, <3>2, <3>3, <3>4
  <2>2. \A u, v \in Worker : Serving(u)' \intersect Queued(v)' = {}
    BY <1>5, <1>6, <1>7 DEF RequestOnce
  <2>3. \A u, v \in Worker : u # v => Serving(u)' \intersect Serving(v)' = {}
    BY <1>5, <1>6 DEF RequestOnce
  <2>4. \A v \in Worker : held' \notin Queued(v)' \union Serving(v)'
    BY <1>1, <1>5, <1>6, <1>7 DEF RequestOnce
  <2> QED
    BY <2>1, <2>2, <2>3, <2>4 DEF RequestOnce
<1>10. WaitingIsServed'
  <2>1. UNCHANGED <<waiting, held>>
    BY <1>1
  <2>2. \A v \in Worker : Queued(v)' \union Serving(v)' = Queued(v) \union Serving(v)
    BY <1>5, <1>6, <1>7
  <2> QED
    BY <2>1, <2>2 DEF WaitingIsServed
<1>11. PendingCounts' /\ Bounded'
  <2>1. /\ Len(queue'[w]) = Len(queue[w]) - 1 /\ pending'[w] = pending[w]
        /\ InWork(w) = 0 /\ InWork(w)' = 1
    BY <1>1, <1>3 DEF TypeOK, InWork
  <2>2. /\ Len(queue[w]) \in Nat /\ pending[w] \in Int
        /\ pending[w] = Len(queue[w]) + InWork(w) /\ Len(queue[w]) <= Cap
    BY <1>1 DEF TypeOK, PendingCounts, Bounded, InWork
  <2>3. pending'[w] = Len(queue'[w]) + InWork(w)' /\ Len(queue'[w]) <= Cap
    BY <2>1, <2>2, CapAssumption
  <2>4. ASSUME NEW v \in Worker, v # w
        PROVE  queue'[v] = queue[v] /\ pending'[v] = pending[v] /\ InWork(v)' = InWork(v)
    BY <1>1, <1>2, <2>4 DEF TypeOK, InWork
  <2> QED
    BY <2>3, <2>4 DEF PendingCounts, Bounded, InWork
<1> QED
  BY <1>8, <1>9, <1>10, <1>11

\* The answer reaches the requester, and the request is nowhere any more.
LEMMA ReplyInv ==
  ASSUME Inv, NEW w \in Worker, Reply(w)
  PROVE  Inv'
<1> USE NoneAssumption DEF Inv
<1> DEFINE c == cur[w]
<1>1. /\ wpc[w] = "reply" /\ c \in Requester /\ waiting' = waiting \ {c}
      /\ cur' = [cur EXCEPT ![w] = None] /\ wpc' = [wpc EXCEPT ![w] = "notify"]
      /\ UNCHANGED <<held, target, queue, pending>>
  BY DEF Reply, TypeOK
<1>2. Serving(w) = {c} /\ Serving(w)' = {} /\ \A v \in Worker : v # w => Serving(v)' = Serving(v)
  BY <1>1 DEF Serving, TypeOK
<1>3. \A v \in Worker : Queued(v)' = Queued(v)
  BY <1>1 DEF Queued
<1>4. TypeOK'
  BY <1>1 DEF TypeOK
<1>5. RequestOnce'
  <2>1. \A x, y \in Worker : \A k \in DOMAIN queue'[x], l \in DOMAIN queue'[y] :
          queue'[x][k] = queue'[y][l] => x = y /\ k = l
    BY <1>1 DEF RequestOnce
  <2>2. held' = held
    BY <1>1
  <2> QED
    BY <1>2, <1>3, <2>1, <2>2 DEF RequestOnce
<1>6. WaitingIsServed'
  <2>1. held # c /\ \A v \in Worker : c \notin Queued(v) /\ (v # w => c \notin Serving(v))
    BY <1>2 DEF RequestOnce
  <2>2. held' = held
    BY <1>1
  <2>3. ASSUME NEW r \in Requester
        PROVE  (\E v \in Worker : r \in Queued(v)' \union Serving(v)') <=>
               r # c /\ \E v \in Worker : r \in Queued(v) \union Serving(v)
    BY <1>2, <1>3, <2>1
  <2> QED
    BY <1>1, <2>1, <2>2, <2>3 DEF WaitingIsServed
<1>7. PendingCounts' /\ Bounded'
  BY <1>1 DEF PendingCounts, Bounded, TypeOK
<1> QED
  BY <1>4, <1>5, <1>6, <1>7

\* The balancer hears of a finished request.
LEMMA CompletedInv ==
  ASSUME Inv, NEW w \in Worker, Completed(w)
  PROVE  Inv'
<1> USE NoneAssumption DEF Inv, Completed
<1>1. TypeOK'
  BY DEF TypeOK
<1>2. \A v \in Worker : Queued(v)' = Queued(v) /\ Serving(v)' = Serving(v)
  BY DEF Queued, Serving, TypeOK
<1>3. RequestOnce' /\ WaitingIsServed'
  BY <1>2 DEF RequestOnce, WaitingIsServed
<1>4. PendingCounts' /\ Bounded'
  BY DEF PendingCounts, Bounded, TypeOK
<1> QED
  BY <1>1, <1>3, <1>4

LEMMA NextInv == Inv /\ [Next]_vars => Inv'
<1>1. ASSUME Inv, UNCHANGED vars PROVE Inv'
  BY <1>1 DEF Inv, TypeOK, RequestOnce, WaitingIsServed, PendingCounts, Bounded,
     Queued, Serving, vars
<1> QED
  BY <1>1, AcceptInv, EnqueueInv, TakeInv, ReplyInv, CompletedInv DEF Next, Progress, WorkerStep

THEOREM InvHolds == Spec => []Inv
BY InitInv, NextInv, PTL DEF Spec

\* No request is lost or doubled on its way through balancer and workers.
THEOREM RequestsKept == Spec => [](RequestOnce /\ WaitingIsServed)
<1>1. Inv => RequestOnce /\ WaitingIsServed
  BY DEF Inv
<1> QED
  BY <1>1, InvHolds, PTL

\* The load the pool is ordered by is exact whenever the balancer selects.
THEOREM LoadExact == Spec => []PendingCounts
<1>1. Inv => PendingCounts
  BY DEF Inv
<1> QED
  BY <1>1, InvHolds, PTL

\* dispatch blocks on a worker that waits for the balancer only when more than
\* Cap requesters are waiting.  main starts 30, on one queue of capacity 3.
THEOREM CrowdWedges == Spec => []WedgeNeedsCrowd
<1>1. Inv => WedgeNeedsCrowd
  <2> SUFFICES ASSUME Inv, NEW w \in Worker, target = w, Len(queue[w]) = Cap
               PROVE  Cardinality(waiting) > Cap
    BY DEF WedgeNeedsCrowd, Wedged
  <2>1. held \in Requester /\ queue[w] \in Seq(Requester)
    BY NoneAssumption DEF Inv, TypeOK
  <2>2. \A i, j \in DOMAIN queue[w] : queue[w][i] = queue[w][j] => i = j
    BY DEF Inv, RequestOnce
  <2>3. \A i \in DOMAIN queue[w] : queue[w][i] # held
    BY DEF Inv, RequestOnce, Queued
  <2>4. waiting \subseteq Requester /\ IsFiniteSet(waiting)
    BY RequesterAssumption, FS_Subset DEF Inv, TypeOK
  <2>5. held \in waiting
    BY <2>1 DEF Inv, WaitingIsServed
  <2>6. ASSUME NEW i \in DOMAIN queue[w] PROVE queue[w][i] \in waiting
    <3>1. queue[w][i] \in Requester /\ queue[w][i] \in Queued(w)
      BY <2>1 DEF Queued
    <3> QED BY <3>1 DEF Inv, WaitingIsServed
  <2>7. queue[w] \in Seq(waiting)
    BY <2>1, <2>6
  <2> QED
    BY <2>2, <2>3, <2>4, <2>5, <2>7, OneMoreThanQueue
<1> QED
  BY <1>1, InvHolds, PTL

\* Once the balancer is wedged nothing can free it: it stays wedged.
THEOREM WedgeLasts == Spec => WedgeForever
<1>1. Inv /\ [Next]_vars /\ Wedged => Wedged'
  <2> SUFFICES ASSUME Inv, [Next]_vars, NEW w \in Worker,
                      target = w, Len(queue[w]) = Cap, wpc[w] = "notify"
               PROVE  Wedged'
    BY DEF Wedged
  <2>1. held # None
    BY NoneAssumption DEF Inv, TypeOK
  <2>2. ASSUME NEW v \in Worker, WorkerStep(v) \/ \E r \in Requester : Accept(r, v)
        PROVE  target' = w /\ queue'[w] = queue[w] /\ wpc'[w] = "notify"
    <3>1. CASE Take(v)
      BY <3>1, <2>1 DEF Take, Inv, TypeOK
    <3>2. CASE Reply(v)
      BY <3>2, <2>1 DEF Reply, Inv, TypeOK
    <3>3. ~Enqueue(v)
      BY CapAssumption DEF Enqueue
    <3>4. ~Completed(v) /\ \A r \in Requester : ~Accept(r, v)
      BY <2>1 DEF Completed, Accept, Selecting
    <3> QED BY <2>2, <3>1, <3>2, <3>3, <3>4 DEF WorkerStep
  <2>3. CASE UNCHANGED vars
    BY <2>3 DEF vars, Wedged
  <2>4. CASE Next
    BY <2>2, <2>3, <2>4 DEF Next, Progress, Wedged
  <2> QED BY <2>3, <2>4
<1>2. Inv /\ [Next]_vars => [Wedged => Wedged']_vars
  BY <1>1
<1> QED
  BY <1>2, InvHolds, PTL DEF Spec, WedgeForever

\* A worker whose queue is full has a request to take, and a request in a
\* worker's hands has a requester waiting for its answer: when nothing moves,
\* the balancer waits for a worker that waits for the balancer.
THEOREM OnlyWedgeStops == Spec => []StuckIsWedge
<1>1. Inv => StuckIsWedge
  <2> SUFFICES ASSUME Inv, Stuck PROVE Wedged
    BY DEF StuckIsWedge
  <2>1. ASSUME NEW w \in Worker, queue[w] # <<>> \/ wpc[w] # "recv"
        PROVE  wpc[w] = "notify" /\ ~Selecting
    <3>1. wpc[w] \in {"recv", "reply", "notify"} /\ (wpc[w] = "recv" => queue[w] = <<>>)
      BY DEF Inv, TypeOK, Stuck
    <3>2. ASSUME wpc[w] = "reply" PROVE FALSE
      <4>1. cur[w] \in Requester /\ cur[w] \in Serving(w)
        BY <3>2, NoneAssumption DEF Inv, TypeOK, Serving
      <4>2. cur[w] \in waiting
        BY <4>1 DEF Inv, WaitingIsServed
      <4> QED
        BY <3>2, <4>2 DEF Stuck
    <3>3. wpc[w] = "notify"
      BY <2>1, <3>1, <3>2
    <3> QED
      BY <3>3 DEF Stuck
  <2>2. ~Selecting
    <3> SUFFICES ASSUME Selecting PROVE FALSE
      OBVIOUS
    <3>1. PICK r \in Requester : TRUE
      BY RequesterAssumption
    <3>2. r \in waiting /\ held # r
      BY <3>1, NoneAssumption DEF Stuck, Selecting
    <3>3. PICK w \in Worker : r \in Queued(w) \union Serving(w)
      BY <3>2 DEF Inv, WaitingIsServed
    <3>4. queue[w] # <<>> \/ wpc[w] # "recv"
      <4>1. CASE r \in Serving(w)
        BY <4>1 DEF Serving
      <4>2. CASE r \in Queued(w)
        <5>1. PICK i \in DOMAIN queue[w] : TRUE
          BY <4>2 DEF Queued
        <5> QED
          BY <5>1
      <4> QED
        BY <3>3, <4>1, <4>2
    <3> QED
      BY <2>1, <3>4
  <2>3. PICK w \in Worker : target = w
    BY <2>2 DEF Inv, TypeOK, Selecting
  <2>4. queue[w] \in Seq(Requester) /\ Len(queue[w]) >= Cap /\ Len(queue[w]) <= Cap
    BY <2>3 DEF Inv, TypeOK, Stuck, Bounded
  <2>5. Len(queue[w]) = Cap /\ queue[w] # <<>>
    BY <2>4, CapAssumption
  <2> QED
    BY <2>1, <2>3, <2>5 DEF Wedged
<1> QED
  BY <1>1, InvHolds, PTL
-----------------------------------------------------------------------------
\* A set of numbers that is not empty has a least one.
LEMMA LeastNat ==
  ASSUME NEW T, T \subseteq Nat, T # {}
  PROVE  \E n \in T : \A m \in T : n <= m
<1> DEFINE R == {p \in Nat \X Nat : p[1] < p[2]}
<1>1. IsWellFoundedOn(R, Nat)
  BY NatLessThanWellFounded DEF OpToRel
<1>2. PICK n \in T : \A m \in T : ~(<<m, n>> \in R)
  BY <1>1, WFMin
<1>3. ASSUME NEW m \in T PROVE n <= m
  <2>1. n \in Nat /\ m \in Nat /\ <<m, n>> \in Nat \X Nat /\ <<m, n>>[1] = m /\ <<m, n>>[2] = n
    OBVIOUS
  <2>2. ~(m < n)
    BY <1>2, <2>1
  <2> QED
    BY <2>1, <2>2
<1> QED
  BY <1>3

\* Induction over the numbers, for a set of them.
LEMMA AllNat ==
  ASSUME NEW P, 0 \in P, \A n \in Nat : n \in P => n + 1 \in P
  PROVE  Nat \subseteq P
<1> DEFINE T == Nat \ P
<1>1. ASSUME T # {} PROVE FALSE
  <2>1. PICK n \in T : \A m \in T : n <= m
    BY <1>1, LeastNat
  <2>2. n \in Nat /\ n # 0 /\ n - 1 \in Nat /\ n - 1 \notin T
    BY <2>1
  <2>3. n - 1 \in P /\ (n - 1) + 1 = n
    BY <2>2
  <2> QED
    BY <2>1, <2>2, <2>3
<1> QED
  BY <1>1

\* The first n turns of a loop whose turns are the function st.
IsRun(S, x, st, n, g) == /\ g \in [0..n -> S] /\ g[0] = x
                         /\ \A k \in 0..n : k # n => g[k + 1] = st[g[k]]

\* A loop has a run of any length, and only one.
LEMMA Runs ==
  ASSUME NEW S, NEW x \in S, NEW st \in [S -> S]
  PROVE  /\ \A n \in Nat : \E g : IsRun(S, x, st, n, g)
         /\ \A n \in Nat : \A g, h : IsRun(S, x, st, n, g) /\ IsRun(S, x, st, n + 1, h) => g[n] = h[n]
<1>1. \A n \in Nat : \E g : IsRun(S, x, st, n, g)
  <2> DEFINE P == {n \in Nat : \E g : IsRun(S, x, st, n, g)}
  <2>1. 0 \in P
    <3>1. IsRun(S, x, st, 0, [k \in 0..0 |-> x])
      BY DEF IsRun
    <3> QED
      BY <3>1
  <2>2. ASSUME NEW n \in Nat, n \in P PROVE n + 1 \in P
    <3>1. PICK g : IsRun(S, x, st, n, g)
      BY <2>2
    <3> DEFINE h == [k \in 0..(n + 1) |-> IF k = n + 1 THEN st[g[n]] ELSE g[k]]
    <3>2. /\ g \in [0..n -> S] /\ g[0] = x
          /\ \A k \in 0..n : k # n => g[k + 1] = st[g[k]]
      BY <3>1 DEF IsRun
    <3>3. st[g[n]] \in S /\ \A k \in 0..n : g[k] \in S
      BY <3>2
    <3>4. h \in [0..(n + 1) -> S]
      <4>1. \A k \in 0..(n + 1) : k = n + 1 \/ k \in 0..n
        OBVIOUS
      <4> QED
        BY <3>3, <4>1
    <3>5. h[0] = x
      BY <3>2
    <3>6. ASSUME NEW k \in 0..(n + 1), k # n + 1 PROVE h[k + 1] = st[h[k]]
      <4>1. k \in 0..n /\ k + 1 \in 0..(n + 1) /\ h[k] = g[k]
        BY <3>6
      <4>2. CASE k = n
        BY <4>1, <4>2
      <4>3. CASE k # n
        <5>1. k + 1 # n + 1 /\ h[k + 1] = g[k + 1]
          BY <4>1, <4>3
        <5> QED
          BY <3>2, <4>1, <4>3, <5>1
      <4> QED
        BY <4>2, <4>3
    <3> HIDE DEF h
    <3>7. IsRun(S, x, st, n + 1, h)
      BY <3>4, <3>5, <3>6 DEF IsRun
    <3> QED
      BY <3>7
  <2> HIDE DEF P
  <2>3. Nat \subseteq P
    BY <2>1, <2>2, AllNat
  <2> QED
    BY <2>3 DEF P
<1>2. ASSUME NEW n \in Nat, NEW g, NEW h, IsRun(S, x, st, n, g), IsRun(S, x, st, n + 1, h)
      PROVE  g[n] = h[n]
  <2> DEFINE P == {k \in Nat : k <= n => g[k] = h[k]}
  <2>1. 0 \in P
    BY <1>2 DEF IsRun
  <2>2. ASSUME NEW k \in Nat, k \in P PROVE k + 1 \in P
    <3>1. CASE k + 1 <= n
      <4>1. k \in 0..n /\ k # n /\ k \in 0..(n + 1) /\ k # n + 1
        BY <3>1
      <4>2. g[k + 1] = st[g[k]] /\ h[k + 1] = st[h[k]]
        BY <1>2, <4>1 DEF IsRun
      <4>3. g[k] = h[k]
        BY <2>2, <4>1
      <4> QED
        BY <4>2, <4>3
    <3> QED
      BY <3>1
  <2> HIDE DEF P
  <2>3. Nat \subseteq P
    BY <2>1, <2>2, AllNat
  <2> QED
    BY <2>3 DEF P
<1> QED
  BY <1>1, <1>2

\* A recursion over the turns of a loop defines its run.
LEMMA LoopDefined ==
  ASSUME NEW S, NEW x \in S, NEW st \in [S -> S]
  PROVE  \E t \in [Nat -> S] : t = [k \in Nat |-> IF k = 0 THEN x ELSE st[t[k - 1]]]
<1> DEFINE run(n) == CHOOSE g : IsRun(S, x, st, n, g)
           t == [n \in Nat |-> run(n)[n]]
<1>1. ASSUME NEW n \in Nat PROVE IsRun(S, x, st, n, run(n))
  BY Runs
<1> HIDE DEF run
<1>2. ASSUME NEW n \in Nat PROVE t[n] = run(n)[n] /\ t[n] \in S
  <2>1. run(n) \in [0..n -> S] /\ n \in 0..n
    BY <1>1 DEF IsRun
  <2> QED
    BY <2>1
<1>3. t[0] = x
  <2>1. run(0)[0] = x
    BY <1>1 DEF IsRun
  <2> QED
    BY <1>2, <2>1
<1>4. ASSUME NEW n \in Nat PROVE t[n + 1] = st[t[n]]
  <2>1. run(n + 1)[n + 1] = st[run(n + 1)[n]]
    <3>1. n + 1 \in Nat /\ n \in 0..(n + 1) /\ n # n + 1
      OBVIOUS
    <3> QED
      BY <1>1, <3>1 DEF IsRun
  <2>2. run(n)[n] = run(n + 1)[n]
    BY <1>1, Runs
  <2> QED
    BY <1>2, <2>1, <2>2
<1> HIDE DEF t
<1>5. ASSUME NEW k \in Nat PROVE t[k] = IF k = 0 THEN x ELSE st[t[k - 1]]
  <2>1. CASE k # 0
    <3>1. k - 1 \in Nat /\ (k - 1) + 1 = k
      BY <2>1
    <3> QED
      BY <1>4, <2>1, <3>1
  <2> QED
    BY <1>3, <2>1
<1>6. t \in [Nat -> S] /\ t = [k \in Nat |-> t[k]]
  BY <1>2 DEF t
<1> QED
  BY <1>5, <1>6
-----------------------------------------------------------------------------
\* The heaps of workers from F, and whether w is in a pool.
HeapOf(F) == [pool : Seq(F), index : [Worker -> Int], load : [Worker -> Int]]
Has(p, w) == \E i \in DOMAIN p : p[i] = w
Distinct(p) == \A i, j \in DOMAIN p : p[i] = p[j] => i = j

\* g is h with its first n places rearranged: the members and their number
\* are the same, and only members get another index, that of a place.
Shuffled(h, g, n) ==
  /\ Len(g.pool) = Len(h.pool) /\ g.load = h.load
  /\ \A k \in 1..Len(h.pool) : k > n => g.pool[k] = h.pool[k]
  /\ \A w : Has(g.pool, w) <=> Has(h.pool, w)
  /\ Distinct(h.pool) => Distinct(g.pool)
  /\ \A w \in Worker : \/ g.index[w] = h.index[w]
                       \/ Has(h.pool, w) /\ g.index[w] \in 0..(Len(h.pool) - 1)

\* A function on 1..n is a sequence.
LEMMA FunIsSeq ==
  ASSUME NEW F, NEW n \in Nat, NEW p \in [1..n -> F]
  PROVE  p \in Seq(F) /\ Len(p) = n /\ DOMAIN p = 1..n
OBVIOUS

\* Two indices are set.
LEMMA IndexSet ==
  ASSUME NEW f \in [Worker -> Int], NEW a \in Worker, NEW b \in Worker, NEW i \in Int, NEW j \in Int,
         NEW x, x = [[f EXCEPT ![a] = j] EXCEPT ![b] = i]
  PROVE  x \in [Worker -> Int] /\ \A w \in Worker : x[w] = IF w = b THEN i ELSE IF w = a THEN j ELSE f[w]
OBVIOUS

\* Swap rearranges the two places it is given.
LEMMA SwapShuffles ==
  ASSUME NEW F, F \subseteq Worker, NEW h \in HeapOf(F), NEW n \in 0..Len(h.pool),
         NEW i \in 0..(n - 1), NEW j \in 0..(n - 1)
  PROVE  /\ Swap(h, i, j) \in HeapOf(F) /\ Shuffled(h, Swap(h, i, j), n)
         /\ Swap(h, i, j).pool[j + 1] = h.pool[i + 1]
<1> DEFINE p == [h.pool EXCEPT ![i + 1] = h.pool[j + 1], ![j + 1] = h.pool[i + 1]]
           x == [[h.index EXCEPT ![p[i + 1]] = j] EXCEPT ![p[j + 1]] = i]
           L == Len(h.pool)
<1>1. /\ L \in Nat /\ h.pool \in Seq(F) /\ h.pool \in [1..L -> F] /\ DOMAIN h.pool = 1..L
      /\ h.index \in [Worker -> Int] /\ h.load \in [Worker -> Int]
  BY DEF HeapOf
<1>2. n \in Nat /\ n <= L /\ i \in Nat /\ j \in Nat /\ i + 1 \in 1..n /\ j + 1 \in 1..n
      /\ i + 1 \in 1..L /\ j + 1 \in 1..L
  BY <1>1
<1>3. /\ p \in [1..L -> F]
      /\ p[i + 1] = h.pool[j + 1] /\ p[j + 1] = h.pool[i + 1]
      /\ \A k \in 1..L : k # i + 1 /\ k # j + 1 => p[k] = h.pool[k]
  BY <1>1, <1>2
<1>4. Swap(h, i, j) = [pool |-> p, index |-> x, load |-> h.load]
  BY DEF Swap
<1> HIDE DEF p, L
<1>5. p \in Seq(F) /\ Len(p) = L /\ DOMAIN p = 1..L
  BY <1>1, <1>3, FunIsSeq
<1>6. p[i + 1] \in Worker /\ p[j + 1] \in Worker
  BY <1>1, <1>2, <1>3
<1>7. /\ x \in [Worker -> Int]
      /\ \A w \in Worker : x[w] = IF w = p[j + 1] THEN i ELSE IF w = p[i + 1] THEN j ELSE h.index[w]
  <2>1. i \in Int /\ j \in Int
    OBVIOUS
  <2> QED
    BY <1>1, <1>6, <2>1, IndexSet
<1> HIDE DEF x
<1>8. \A w \in Worker : x[w] = h.index[w] \/ (Has(h.pool, w) /\ x[w] \in 0..(L - 1))
  <2>1. i \in 0..(L - 1) /\ j \in 0..(L - 1)
    BY <1>1, <1>2
  <2>2. Has(h.pool, p[i + 1]) /\ Has(h.pool, p[j + 1])
    BY <1>1, <1>2, <1>3 DEF Has
  <2> QED
    BY <1>7, <2>1, <2>2
<1>9. \A w : Has(p, w) <=> Has(h.pool, w)
  <2>1. ASSUME NEW w, NEW k \in 1..L, p[k] = w PROVE \E m \in 1..L : h.pool[m] = w
    BY <1>2, <1>3, <2>1
  <2>2. ASSUME NEW w, NEW k \in 1..L, h.pool[k] = w PROVE \E m \in 1..L : p[m] = w
    BY <1>2, <1>3, <2>2
  <2> QED
    BY <1>1, <1>5, <2>1, <2>2 DEF Has
<1>10. Distinct(h.pool) => Distinct(p)
  <2> SUFFICES ASSUME Distinct(h.pool), NEW k \in 1..L, NEW m \in 1..L, p[k] = p[m] PROVE k = m
    BY <1>5 DEF Distinct
  <2>1. \A a, b \in 1..L : h.pool[a] = h.pool[b] => a = b
    BY <1>1 DEF Distinct
  <2>2. PICK a \in 1..L : p[k] = h.pool[a] /\ a = (IF k = i + 1 THEN j + 1 ELSE IF k = j + 1 THEN i + 1 ELSE k)
    BY <1>2, <1>3
  <2>3. PICK b \in 1..L : p[m] = h.pool[b] /\ b = (IF m = i + 1 THEN j + 1 ELSE IF m = j + 1 THEN i + 1 ELSE m)
    BY <1>2, <1>3
  <2>4. a = b
    BY <2>1, <2>2, <2>3
  <2> QED
    BY <1>2, <2>2, <2>3, <2>4
<1>11. \A k \in 1..L : k > n => p[k] = h.pool[k]
  BY <1>2, <1>3
<1>12. Swap(h, i, j) \in HeapOf(F)
  <2>1. p \in Seq(F) /\ x \in [Worker -> Int] /\ h.load \in [Worker -> Int]
    BY <1>1, <1>5, <1>7
  <2>2. [pool |-> p, index |-> x, load |-> h.load] \in HeapOf(F)
    BY <2>1 DEF HeapOf
  <2> QED
    BY <1>4, <2>2
<1>13. Swap(h, i, j).pool = p /\ Swap(h, i, j).index = x /\ Swap(h, i, j).load = h.load
  BY <1>4
<1>14. Shuffled(h, Swap(h, i, j), n)
  BY <1>5, <1>8, <1>9, <1>10, <1>11, <1>13 DEF Shuffled, L
<1> QED
  BY <1>3, <1>12, <1>13, <1>14

\* Rearranging twice is rearranging.
LEMMA ShuffledTwice ==
  ASSUME NEW h, NEW g, NEW f, NEW n \in Nat, NEW m \in Nat, n <= m,
         h.index \in [Worker -> Int], Len(h.pool) \in Nat,
         Shuffled(h, g, n), Shuffled(g, f, m)
  PROVE  Shuffled(h, f, m)
<1>1. \A k \in 1..Len(h.pool) : k > m => f.pool[k] = h.pool[k]
  BY DEF Shuffled
<1>2. \A w \in Worker : \/ f.index[w] = h.index[w]
                        \/ Has(h.pool, w) /\ f.index[w] \in 0..(Len(h.pool) - 1)
  BY DEF Shuffled
<1> QED
  BY <1>1, <1>2 DEF Shuffled

LEMMA ShuffledNot == ASSUME NEW h, NEW n PROVE Shuffled(h, h, n)
BY DEF Shuffled

\* The heaps with m places that a loop goes through, and the places it is at.
LoopState(F, m, A) == {s \in [heap : HeapOf(F), at : A] : Len(s.heap.pool) = m}

\* A turn of Down stays within the first n places.
LEMMA DownTurnShuffles ==
  ASSUME NEW F, F \subseteq Worker, NEW m \in Nat, NEW n \in 0..m, NEW s \in LoopState(F, m, Nat)
  PROVE  DownTurn(s, n) \in LoopState(F, m, Nat) /\ Shuffled(s.heap, DownTurn(s, n).heap, n)
<1> USE DEF LoopState
<1>1. s.heap \in HeapOf(F) /\ s.at \in Nat /\ Len(s.heap.pool) = m
  OBVIOUS
<1> DEFINE l == 2 * s.at + 1
           c == IF l + 1 < n /\ Less(s.heap, l + 1, l) THEN l + 1 ELSE l
<1>2. CASE l < n /\ Less(s.heap, c, s.at)
  <2>1. c \in 0..(n - 1) /\ s.at \in 0..(n - 1)
    BY <1>1, <1>2
  <2>2. DownTurn(s, n) = [heap |-> Swap(s.heap, s.at, c), at |-> c]
    BY <1>2 DEF DownTurn
  <2>3. Swap(s.heap, s.at, c) \in HeapOf(F) /\ Shuffled(s.heap, Swap(s.heap, s.at, c), n)
    BY <1>1, <2>1, SwapShuffles
  <2>4. Len(Swap(s.heap, s.at, c).pool) = m
    BY <1>1, <2>3 DEF Shuffled
  <2> HIDE DEF c
  <2> QED
    BY <2>1, <2>2, <2>3, <2>4
<1>3. CASE ~(l < n /\ Less(s.heap, c, s.at))
  <2>1. DownTurn(s, n) = s
    BY <1>3 DEF DownTurn
  <2> QED
    BY <2>1, ShuffledNot
<1> QED
  BY <1>2, <1>3

\* The turns t of the loop of Down, from place i of heap h.
DownTurns(F, h, i, n, t) ==
  /\ t[0] = [heap |-> h, at |-> i]
  /\ \A k \in Nat : t[k] \in LoopState(F, Len(h.pool), Nat) /\ t[k + 1] = DownTurn(t[k], n)

\* Down runs the turns of its loop.
LEMMA DownRun ==
  ASSUME NEW F, F \subseteq Worker, NEW h \in HeapOf(F), NEW n \in 0..Len(h.pool), NEW i \in Nat
  PROVE  \E t : DownTurns(F, h, i, n, t) /\ Down(h, i, n) = t[n].heap
<1> DEFINE S == LoopState(F, Len(h.pool), Nat)
           x == [heap |-> h, at |-> i]
           st == [s \in S |-> DownTurn(s, n)]
           IsTurn(t) == t = [k \in Nat |-> IF k = 0 THEN x ELSE DownTurn(t[k - 1], n)]
<1>1. Len(h.pool) \in Nat /\ x \in S /\ n \in 0..Len(h.pool)
  BY DEF HeapOf, LoopState
<1>2. ASSUME NEW s \in S PROVE DownTurn(s, n) \in S
  BY <1>1, DownTurnShuffles
<1> HIDE DEF S, x
<1>3. \E t : IsTurn(t)
  <2>1. st \in [S -> S]
    BY <1>2
  <2>2. PICK t \in [Nat -> S] : t = [k \in Nat |-> IF k = 0 THEN x ELSE st[t[k - 1]]]
    <3> HIDE DEF st
    <3> QED
      BY <1>1, <2>1, LoopDefined
  <2>3. ASSUME NEW k \in Nat PROVE t[k] = IF k = 0 THEN x ELSE DownTurn(t[k - 1], n)
    <3>1. CASE k # 0
      <4>1. k - 1 \in Nat /\ t[k - 1] \in S
        <5>1. k - 1 \in Nat
          BY <3>1
        <5> QED
          BY <2>2, <5>1
      <4>2. st[t[k - 1]] = DownTurn(t[k - 1], n)
        BY <4>1
      <4> HIDE DEF st
      <4> QED
        BY <2>2, <3>1, <4>2
    <3>2. CASE k = 0
      <4> HIDE DEF st
      <4> QED
        BY <2>2, <3>2
    <3> QED
      BY <3>1, <3>2
  <2>4. t = [k \in Nat |-> t[k]]
    <3> HIDE DEF st
    <3> QED
      BY <2>2
  <2> QED
    BY <2>3, <2>4
<1>4. PICK t : IsTurn(t) /\ Down(h, i, n) = t[n].heap
  <2>1. Down(h, i, n) = (CHOOSE t : IsTurn(t))[n].heap
    BY DEF Down, x
  <2>2. IsTurn(CHOOSE t : IsTurn(t))
    BY <1>3
  <2> QED
    BY <2>1, <2>2
<1>5. t[0] = x /\ \A k \in Nat : t[k + 1] = DownTurn(t[k], n)
  <2>1. \A k \in Nat : k + 1 \in Nat /\ k + 1 # 0 /\ (k + 1) - 1 = k
    OBVIOUS
  <2> QED
    BY <1>4, <2>1
<1> DEFINE P == {k \in Nat : t[k] \in S}
<1>6. 0 \in P /\ \A k \in Nat : k \in P => k + 1 \in P
  <2>1. 0 \in P
    BY <1>1, <1>5
  <2>2. ASSUME NEW k \in Nat, t[k] \in S PROVE t[k + 1] \in S
    <3>1. t[k + 1] = DownTurn(t[k], n)
      BY <1>5
    <3> QED
      BY <1>2, <2>2, <3>1
  <2> QED
    BY <2>1, <2>2
<1> HIDE DEF P
<1>7. Nat \subseteq P
  BY <1>6, AllNat
<1> QED
  BY <1>4, <1>5, <1>7 DEF P, S, x, DownTurns

\* The loop of Down stays within the first n places.
LEMMA DownShuffles ==
  ASSUME NEW F, F \subseteq Worker, NEW h \in HeapOf(F), NEW n \in 0..Len(h.pool), NEW i \in Nat
  PROVE  Down(h, i, n) \in HeapOf(F) /\ Shuffled(h, Down(h, i, n), n)
<1>1. Len(h.pool) \in Nat /\ n \in Nat /\ i \in Nat /\ h.index \in [Worker -> Int]
  BY DEF HeapOf
<1>r. PICK t : DownTurns(F, h, i, n, t) /\ Down(h, i, n) = t[n].heap
  BY DownRun
<1>2. /\ Down(h, i, n) = t[n].heap /\ t[0] = [heap |-> h, at |-> i]
      /\ \A k \in Nat : t[k] \in LoopState(F, Len(h.pool), Nat) /\ t[k + 1] = DownTurn(t[k], n)
  BY <1>r DEF DownTurns
<1>3. \A s \in LoopState(F, Len(h.pool), Nat) : Shuffled(s.heap, DownTurn(s, n).heap, n)
  BY <1>1, DownTurnShuffles
<1> DEFINE P == {k \in Nat : Shuffled(h, t[k].heap, n)}
<1>4. 0 \in P
  <2>1. t[0].heap = h /\ 0 \in Nat
    BY <1>2
  <2> QED
    BY <2>1, ShuffledNot
<1>5. ASSUME NEW k \in Nat, k \in P PROVE k + 1 \in P
  <2>1. t[k] \in LoopState(F, Len(h.pool), Nat) /\ t[k + 1] = DownTurn(t[k], n)
    BY <1>2
  <2>2. Shuffled(t[k].heap, t[k + 1].heap, n)
    BY <1>3, <2>1
  <2>3. Shuffled(h, t[k].heap, n)
    BY <1>5
  <2>4. Shuffled(h, t[k + 1].heap, n)
    BY <1>1, <2>2, <2>3, ShuffledTwice
  <2> QED
    BY <2>4
<1> HIDE DEF P
<1>6. Nat \subseteq P
  BY <1>4, <1>5, AllNat
<1>7. t[n].heap \in HeapOf(F) /\ Shuffled(h, t[n].heap, n)
  <2>1. n \in Nat /\ n \in P
    BY <1>1, <1>6
  <2> QED
    BY <1>2, <2>1 DEF P, LoopState
<1> QED
  BY <1>2, <1>7

-----------------------------------------------------------------------------
\* A turn of Up stays within the first i + 1 places.
LEMMA UpTurnShuffles ==
  ASSUME NEW F, F \subseteq Worker, NEW m \in Nat, NEW i \in 0..(m - 1), NEW s \in LoopState(F, m, 0..i)
  PROVE  UpTurn(s) \in LoopState(F, m, 0..i) /\ Shuffled(s.heap, UpTurn(s).heap, i + 1)
<1> USE DEF LoopState
<1>1. s.heap \in HeapOf(F) /\ s.at \in Nat /\ Len(s.heap.pool) = m
  OBVIOUS
<1> DEFINE c == IF s.at = 0 THEN 0 ELSE (s.at - 1) \div 2
<1>2. c \in 0..i /\ s.at \in 0..i /\ i + 1 \in 0..Len(s.heap.pool) /\ (i + 1) - 1 = i
  BY <1>1
<1>3. CASE c # s.at /\ Less(s.heap, s.at, c)
  <2>1. UpTurn(s) = [heap |-> Swap(s.heap, c, s.at), at |-> c]
    BY <1>3 DEF UpTurn
  <2> HIDE DEF c
  <2>2. Swap(s.heap, c, s.at) \in HeapOf(F) /\ Shuffled(s.heap, Swap(s.heap, c, s.at), i + 1)
    BY <1>1, <1>2, SwapShuffles
  <2>3. Len(Swap(s.heap, c, s.at).pool) = m
    BY <1>1, <2>2 DEF Shuffled
  <2> QED
    BY <1>2, <2>1, <2>2, <2>3
<1>4. CASE ~(c # s.at /\ Less(s.heap, s.at, c))
  <2>1. UpTurn(s) = s
    BY <1>4 DEF UpTurn
  <2> QED
    BY <2>1, ShuffledNot
<1> QED
  BY <1>3, <1>4

\* The turns t of the loop of Up, from place i of heap h.
UpTurns(F, h, i, t) ==
  /\ t[0] = [heap |-> h, at |-> i]
  /\ \A k \in Nat : t[k] \in LoopState(F, Len(h.pool), 0..i) /\ t[k + 1] = UpTurn(t[k])

\* Up runs the turns of its loop.
LEMMA UpRun ==
  ASSUME NEW F, F \subseteq Worker, NEW h \in HeapOf(F), NEW i \in 0..(Len(h.pool) - 1)
  PROVE  \E t : UpTurns(F, h, i, t) /\ Up(h, i) = t[i].heap
<1> DEFINE S == LoopState(F, Len(h.pool), 0..i)
           x == [heap |-> h, at |-> i]
           st == [s \in S |-> UpTurn(s)]
           IsTurn(t) == t = [k \in Nat |-> IF k = 0 THEN x ELSE UpTurn(t[k - 1])]
<1>1. Len(h.pool) \in Nat /\ x \in S /\ i \in Nat /\ i \in 0..(Len(h.pool) - 1)
  BY DEF HeapOf, LoopState
<1>2. ASSUME NEW s \in S PROVE UpTurn(s) \in S
  BY <1>1, UpTurnShuffles
<1> HIDE DEF S, x
<1>3. \E t : IsTurn(t)
  <2>1. st \in [S -> S]
    BY <1>2
  <2>2. PICK t \in [Nat -> S] : t = [k \in Nat |-> IF k = 0 THEN x ELSE st[t[k - 1]]]
    <3> HIDE DEF st
    <3> QED
      BY <1>1, <2>1, LoopDefined
  <2>3. ASSUME NEW k \in Nat PROVE t[k] = IF k = 0 THEN x ELSE UpTurn(t[k - 1])
    <3>1. CASE k # 0
      <4>1. k - 1 \in Nat /\ t[k - 1] \in S
        <5>1. k - 1 \in Nat
          BY <3>1
        <5> QED
          BY <2>2, <5>1
      <4>2. st[t[k - 1]] = UpTurn(t[k - 1])
        BY <4>1
      <4> HIDE DEF st
      <4> QED
        BY <2>2, <3>1, <4>2
    <3>2. CASE k = 0
      <4> HIDE DEF st
      <4> QED
        BY <2>2, <3>2
    <3> QED
      BY <3>1, <3>2
  <2>4. t = [k \in Nat |-> t[k]]
    <3> HIDE DEF st
    <3> QED
      BY <2>2
  <2> QED
    BY <2>3, <2>4
<1>4. PICK t : IsTurn(t) /\ Up(h, i) = t[i].heap
  <2>1. Up(h, i) = (CHOOSE t : IsTurn(t))[i].heap
    BY DEF Up, x
  <2>2. IsTurn(CHOOSE t : IsTurn(t))
    BY <1>3
  <2> QED
    BY <2>1, <2>2
<1>5. t[0] = x /\ \A k \in Nat : t[k + 1] = UpTurn(t[k])
  <2>1. \A k \in Nat : k + 1 \in Nat /\ k + 1 # 0 /\ (k + 1) - 1 = k
    OBVIOUS
  <2> QED
    BY <1>4, <2>1
<1> DEFINE P == {k \in Nat : t[k] \in S}
<1>6. 0 \in P /\ \A k \in Nat : k \in P => k + 1 \in P
  <2>1. 0 \in P
    BY <1>1, <1>5
  <2>2. ASSUME NEW k \in Nat, t[k] \in S PROVE t[k + 1] \in S
    <3>1. t[k + 1] = UpTurn(t[k])
      BY <1>5
    <3> QED
      BY <1>2, <2>2, <3>1
  <2> QED
    BY <2>1, <2>2
<1> HIDE DEF P
<1>7. Nat \subseteq P
  BY <1>6, AllNat
<1> QED
  BY <1>4, <1>5, <1>7 DEF P, S, x, UpTurns

\* The loop of Up stays within the first i + 1 places.
LEMMA UpShuffles ==
  ASSUME NEW F, F \subseteq Worker, NEW h \in HeapOf(F), NEW i \in 0..(Len(h.pool) - 1)
  PROVE  Up(h, i) \in HeapOf(F) /\ Shuffled(h, Up(h, i), i + 1)
<1>1. Len(h.pool) \in Nat /\ i + 1 \in Nat /\ i \in Nat /\ h.index \in [Worker -> Int]
  BY DEF HeapOf
<1>r. PICK t : UpTurns(F, h, i, t) /\ Up(h, i) = t[i].heap
  BY UpRun
<1>2. /\ Up(h, i) = t[i].heap /\ t[0] = [heap |-> h, at |-> i]
      /\ \A k \in Nat : t[k] \in LoopState(F, Len(h.pool), 0..i) /\ t[k + 1] = UpTurn(t[k])
  BY <1>r DEF UpTurns
<1>3. \A s \in LoopState(F, Len(h.pool), 0..i) : Shuffled(s.heap, UpTurn(s).heap, i + 1)
  BY <1>1, UpTurnShuffles
<1> DEFINE P == {k \in Nat : Shuffled(h, t[k].heap, i + 1)}
<1>4. 0 \in P
  <2>1. t[0].heap = h /\ 0 \in Nat
    BY <1>2
  <2> QED
    BY <2>1, ShuffledNot
<1>5. ASSUME NEW k \in Nat, k \in P PROVE k + 1 \in P
  <2>1. t[k] \in LoopState(F, Len(h.pool), 0..i) /\ t[k + 1] = UpTurn(t[k])
    BY <1>2
  <2>2. Shuffled(t[k].heap, t[k + 1].heap, i + 1)
    BY <1>3, <2>1
  <2>3. Shuffled(h, t[k].heap, i + 1)
    BY <1>5
  <2>4. Shuffled(h, t[k + 1].heap, i + 1)
    BY <1>1, <2>2, <2>3, ShuffledTwice
  <2> QED
    BY <2>4
<1> HIDE DEF P
<1>6. Nat \subseteq P
  BY <1>4, <1>5, AllNat
<1>7. t[i].heap \in HeapOf(F) /\ Shuffled(h, t[i].heap, i + 1)
  <2>1. i \in Nat /\ i \in P
    BY <1>1, <1>6
  <2> QED
    BY <1>2, <2>1 DEF P, LoopState
<1> QED
  BY <1>2, <1>7

\* The worker x has been removed from h, with the index -1.
Removed(h, g, x) ==
  /\ Len(g.pool) = Len(h.pool) - 1 /\ g.index[x] = -1
  /\ Has(h.pool, x)
  /\ \A w : Has(g.pool, w) => Has(h.pool, w)
  /\ \A w : Has(h.pool, w) => w = x \/ Has(g.pool, w)
  /\ Distinct(h.pool) => Distinct(g.pool) /\ ~Has(g.pool, x)
  /\ \A w \in Worker : w # x => \/ g.index[w] = h.index[w]
                                \/ Has(h.pool, w) /\ g.index[w] \in 0..(Len(h.pool) - 1)

\* The worker x has been added to h, with the index of a place.
Added(h, g, x) ==
  /\ Len(g.pool) = Len(h.pool) + 1 /\ g.index[x] \in 0..Len(h.pool)
  /\ \A w : Has(g.pool, w) <=> w = x \/ Has(h.pool, w)
  /\ Distinct(h.pool) /\ ~Has(h.pool, x) => Distinct(g.pool)
  /\ \A w \in Worker : w # x => \/ g.index[w] = h.index[w]
                                \/ Has(h.pool, w) /\ g.index[w] \in 0..Len(h.pool)

\* Pop removes the worker that is last after the places were rearranged.
LEMMA PopRemoves ==
  ASSUME NEW F, F \subseteq Worker, NEW h \in HeapOf(F), NEW g \in HeapOf(F),
         NEW n \in Nat, Shuffled(h, g, n), Len(h.pool) # 0
  PROVE  Pop(g) \in HeapOf(F) /\ Removed(h, Pop(g), g.pool[Len(h.pool)])
<1> DEFINE L == Len(h.pool)
           x == g.pool[L]
           p == SubSeq(g.pool, 1, L - 1)
           f == [g.index EXCEPT ![x] = -1]
<1>1. /\ L \in Nat \ {0} /\ L - 1 \in Nat
      /\ g.pool \in Seq(F) /\ Len(g.pool) = L /\ DOMAIN g.pool = 1..L /\ DOMAIN h.pool = 1..L
      /\ g.index \in [Worker -> Int] /\ g.load \in [Worker -> Int]
  BY DEF HeapOf, Shuffled
<1> HIDE DEF L
<1>2. Pop(g) = [pool |-> p, index |-> f, load |-> g.load]
  BY <1>1 DEF Pop
<1>3. \A k \in 1..L : g.pool[k] \in F
  BY <1>1, ElementOfSeq
<1>4. /\ p \in Seq(F) /\ Len(p) = L - 1 /\ DOMAIN p = 1..(L - 1)
      /\ \A k \in 1..(L - 1) : p[k] = g.pool[k]
  <2>1. /\ SubSeq(g.pool, 1, L - 1) \in Seq(F)
        /\ Len(SubSeq(g.pool, 1, L - 1)) = IF 1 <= L - 1 THEN (L - 1) - 1 + 1 ELSE 0
        /\ \A k \in 1..((L - 1) - 1 + 1) : SubSeq(g.pool, 1, L - 1)[k] = g.pool[1 + k - 1]
    <3>1. 1 \in Int /\ L - 1 \in Int /\ \A k \in 1..(L - 1) : g.pool[k] \in F
      BY <1>1, <1>3
    <3> QED
      BY <3>1, SubSeqProperties
  <2>2. DOMAIN p = 1..Len(p)
    BY <2>1, LenProperties
  <2> QED
    BY <1>1, <2>1, <2>2
<1>5. x \in F /\ x \in Worker
  BY <1>1, <1>3
<1> HIDE DEF p, x
<1>6. f \in [Worker -> Int] /\ f[x] = -1 /\ \A w \in Worker : w # x => f[w] = g.index[w]
  BY <1>1, <1>5
<1> HIDE DEF f
<1>7. \A k \in 1..L : k = L \/ k \in 1..(L - 1)
  BY <1>1
<1>8. L \in 1..L /\ L \notin 1..(L - 1) /\ 1..(L - 1) \subseteq 1..L
  BY <1>1
<1>9. \A w : Has(g.pool, w) <=> w = x \/ Has(p, w)
  BY <1>1, <1>4, <1>7, <1>8 DEF Has, x
<1>10. Distinct(g.pool) => Distinct(p) /\ ~Has(p, x)
  BY <1>1, <1>4, <1>8 DEF Has, Distinct, x
<1>11. Removed(h, [pool |-> p, index |-> f, load |-> g.load], x)
  <2>1. \A w \in Worker : w # x => \/ f[w] = h.index[w]
                                   \/ Has(h.pool, w) /\ f[w] \in 0..(L - 1)
    BY <1>6 DEF Shuffled, L
  <2> QED
    BY <1>4, <1>6, <1>9, <1>10, <2>1 DEF Removed, Shuffled, L
<1>12. [pool |-> p, index |-> f, load |-> g.load] \in HeapOf(F)
  BY <1>1, <1>4, <1>6 DEF HeapOf
<1> QED
  BY <1>2, <1>11, <1>12 DEF x, L

\* heap.Pop removes the worker at the top.
LEMMA HeapPopRemoves ==
  ASSUME NEW F, F \subseteq Worker, NEW h \in HeapOf(F), Len(h.pool) # 0
  PROVE  HeapTop(h) \in F /\ HeapPop(h) \in HeapOf(F) /\ Removed(h, HeapPop(h), HeapTop(h))
<1> DEFINE n == Len(h.pool) - 1
           s == Swap(h, 0, n)
           d == Down(s, 0, n)
<1>1. n \in Nat /\ n + 1 = Len(h.pool) /\ n + 1 \in 0..Len(h.pool) /\ 0 \in 0..((n + 1) - 1) /\ n \in 0..((n + 1) - 1)
      /\ h.pool \in Seq(F) /\ Len(h.pool) \in Nat /\ h.index \in [Worker -> Int] /\ 1 \in 1..Len(h.pool)
  BY DEF HeapOf
<1>2. HeapPop(h) = Pop(d)
  BY DEF HeapPop
<1> HIDE DEF n
<1>3. s \in HeapOf(F) /\ Shuffled(h, s, n + 1) /\ s.pool[n + 1] = h.pool[0 + 1]
  BY <1>1, SwapShuffles
<1> HIDE DEF s
<1>4. Len(s.pool) = n + 1
  BY <1>1, <1>3 DEF Shuffled
<1>5. d \in HeapOf(F) /\ Shuffled(s, d, n)
  BY <1>1, <1>3, <1>4, DownShuffles
<1> HIDE DEF d
<1>6. Shuffled(s, d, n + 1)
  BY <1>1, <1>4, <1>5 DEF Shuffled
<1>7. Shuffled(h, d, n + 1)
  BY <1>1, <1>3, <1>6, ShuffledTwice
<1>8. d.pool[n + 1] = h.pool[1]
  BY <1>1, <1>3, <1>4, <1>5 DEF Shuffled
<1>9. Pop(d) \in HeapOf(F) /\ Removed(h, Pop(d), d.pool[n + 1])
  <2>1. n + 1 \in Nat
    BY <1>1
  <2> QED
    BY <1>1, <1>5, <1>7, <2>1, PopRemoves
<1>10. HeapTop(h) \in F
  BY <1>1, ElementOfSeq DEF HeapTop
<1> QED
  BY <1>2, <1>8, <1>9, <1>10 DEF HeapTop

\* heap.Remove removes the worker at place i.
LEMMA HeapRemoveRemoves ==
  ASSUME NEW F, F \subseteq Worker, NEW h \in HeapOf(F), NEW i \in 0..(Len(h.pool) - 1)
  PROVE  HeapRemove(h, i) \in HeapOf(F) /\ Removed(h, HeapRemove(h, i), h.pool[i + 1])
<1> DEFINE n == Len(h.pool) - 1
           s == Swap(h, i, n)
           d == Down(s, i, n)
           u == Up(d, i)
<1>1. n \in Nat /\ n + 1 = Len(h.pool) /\ n + 1 \in 0..Len(h.pool) /\ i \in 0..((n + 1) - 1) /\ n \in 0..((n + 1) - 1)
      /\ Len(h.pool) \in Nat /\ Len(h.pool) # 0 /\ h.index \in [Worker -> Int] /\ i \in Nat /\ n + 1 \in Nat
  BY DEF HeapOf
<1>2. HeapRemove(h, i) = IF i = n THEN Pop(h) ELSE Pop(u)
  BY DEF HeapRemove
<1> HIDE DEF n
<1>3. CASE i = n
  <2>1. Pop(h) \in HeapOf(F) /\ Removed(h, Pop(h), h.pool[Len(h.pool)])
    BY <1>1, ShuffledNot, PopRemoves
  <2> QED
    BY <1>1, <1>2, <1>3, <2>1
<1>4. CASE i # n
  <2>1. s \in HeapOf(F) /\ Shuffled(h, s, n + 1) /\ s.pool[n + 1] = h.pool[i + 1]
    BY <1>1, SwapShuffles
  <2> HIDE DEF s
  <2>2. Len(s.pool) = n + 1 /\ s.index \in [Worker -> Int]
    BY <1>1, <2>1 DEF Shuffled, HeapOf
  <2>3. d \in HeapOf(F) /\ Shuffled(s, d, n)
    BY <1>1, <2>1, <2>2, DownShuffles
  <2> HIDE DEF d
  <2>4. Len(d.pool) = n + 1 /\ i + 1 \in Nat /\ i + 1 <= n /\ i \in 0..(Len(d.pool) - 1)
    BY <1>1, <1>4, <2>2, <2>3 DEF Shuffled
  <2>5. u \in HeapOf(F) /\ Shuffled(d, u, i + 1)
    BY <2>3, <2>4, UpShuffles
  <2> HIDE DEF u
  <2>6. Shuffled(d, u, n) /\ Shuffled(d, u, n + 1) /\ Shuffled(s, d, n + 1)
    BY <1>1, <2>2, <2>3, <2>4, <2>5 DEF Shuffled
  <2>7. Shuffled(s, u, n + 1)
    BY <1>1, <2>2, <2>3, <2>6, ShuffledTwice
  <2>8. Shuffled(h, u, n + 1)
    BY <1>1, <2>1, <2>7, ShuffledTwice
  <2>9. u.pool[n + 1] = h.pool[i + 1]
    <3>1. n + 1 \in 1..(n + 1) /\ n + 1 > n
      BY <1>1
    <3>2. u.pool[n + 1] = d.pool[n + 1] /\ d.pool[n + 1] = s.pool[n + 1]
      BY <2>2, <2>3, <2>4, <2>6, <3>1 DEF Shuffled
    <3> QED
      BY <2>1, <3>2
  <2>10. Pop(u) \in HeapOf(F) /\ Removed(h, Pop(u), u.pool[n + 1])
    BY <1>1, <2>5, <2>8, PopRemoves
  <2> QED
    BY <1>2, <1>4, <2>9, <2>10
<1> QED
  BY <1>3, <1>4

\* heap.Push adds a worker.
LEMMA HeapPushAdds ==
  ASSUME NEW F, F \subseteq Worker, NEW h \in HeapOf(F), NEW w \in F
  PROVE  HeapPush(h, w) \in HeapOf(F) /\ Added(h, HeapPush(h, w), w)
<1> DEFINE L == Len(h.pool)
           p == Append(h.pool, w)
           f == [h.index EXCEPT ![w] = L]
           g == [pool |-> p, index |-> f, load |-> h.load]
           u == Up(g, L)
<1>1. L \in Nat /\ h.pool \in Seq(F) /\ h.index \in [Worker -> Int] /\ h.load \in [Worker -> Int] /\ w \in Worker
      /\ DOMAIN h.pool = 1..L
  BY DEF HeapOf
<1>2. HeapPush(h, w) = u
  BY DEF HeapPush, Push
<1> HIDE DEF L
<1>3. /\ p \in Seq(F) /\ Len(p) = L + 1 /\ DOMAIN p = 1..(L + 1)
      /\ p[L + 1] = w /\ \A k \in 1..L : p[k] = h.pool[k]
  <2>1. /\ p \in Seq(F) /\ Len(p) = L + 1
        /\ p[L + 1] = w /\ \A k \in 1..L : p[k] = h.pool[k]
    BY <1>1, AppendProperties DEF L
  <2> QED
    BY <2>1, LenProperties
<1>4. f \in [Worker -> Int] /\ f[w] = L /\ \A v \in Worker : v # w => f[v] = h.index[v]
  BY <1>1
<1> HIDE DEF p, f
<1>5. g \in HeapOf(F) /\ g.pool = p /\ g.index = f
  BY <1>1, <1>3, <1>4 DEF HeapOf
<1> HIDE DEF g
<1>6. u \in HeapOf(F) /\ Shuffled(g, u, L + 1)
  <2>1. L \in 0..(Len(g.pool) - 1)
    BY <1>1, <1>3, <1>5
  <2> QED
    BY <1>5, <2>1, UpShuffles
<1> HIDE DEF u
<1>7. \A k \in 1..(L + 1) : k = L + 1 \/ k \in 1..L
  BY <1>1
<1>8. L + 1 \in 1..(L + 1) /\ 1..L \subseteq 1..(L + 1)
  BY <1>1
<1>9. \A v : Has(p, v) <=> v = w \/ Has(h.pool, v)
  BY <1>1, <1>3, <1>7, <1>8 DEF Has
<1>10. Distinct(h.pool) /\ ~Has(h.pool, w) => Distinct(p)
  BY <1>1, <1>3, <1>7 DEF Has, Distinct
<1>11. Len(u.pool) = L + 1
  BY <1>3, <1>5, <1>6 DEF Shuffled
<1>12. u.index[w] \in 0..L
  BY <1>1, <1>3, <1>4, <1>5, <1>6 DEF Shuffled
<1>13. \A v \in Worker : v # w => \/ u.index[v] = h.index[v]
                                  \/ Has(h.pool, v) /\ u.index[v] \in 0..L
  BY <1>1, <1>3, <1>4, <1>5, <1>6, <1>9 DEF Shuffled
<1>14. (\A v : Has(u.pool, v) <=> Has(p, v)) /\ (Distinct(p) => Distinct(u.pool))
  BY <1>5, <1>6 DEF Shuffled
<1> QED
  BY <1>2, <1>6, <1>9, <1>10, <1>11, <1>12, <1>13, <1>14 DEF Added, L
-----------------------------------------------------------------------------
\* What the assumptions give of the fleet.
LEMMA FleetFacts ==
  ASSUME HTypeOK
  PROVE  /\ fleet # {} /\ fleet \subseteq Worker /\ None \notin fleet
         /\ Cardinality(fleet) \in Nat \ {0}
         /\ Heap(pending) \in HeapOf(fleet)
<1>1. fleet # {} /\ fleet \subseteq Worker /\ IsFiniteSet(fleet)
  BY FleetsAssumption DEF HTypeOK
<1>2. Cardinality(fleet) \in Nat \ {0}
  BY <1>1, FS_CardinalityType, FS_EmptySet
<1>3. Heap(pending) \in HeapOf(fleet)
  BY DEF HTypeOK, HeapOf, Heap
<1> QED
  BY <1>1, <1>2, <1>3, NoneAssumption

\* The lost workers, by what the pool has.
LEMMA LostIs == Lost = {w \in fleet : w # target /\ ~Has(pool, w)}
BY DEF Lost, InPool, Has

LEMMA LostIsPrime == Lost' = {w \in fleet' : w # target' /\ ~Has(pool', w)}
BY DEF Lost, InPool, Has

\* startWorkers puts every worker in the pool, once.
LEMMA HInitInv == HInit => HInv
<1> SUFFICES ASSUME HInit PROVE HInv
  OBVIOUS
<1> DEFINE n == Cardinality(fleet)
<1>1. fleet \in Fleets /\ fleet # {} /\ fleet \subseteq Worker /\ IsFiniteSet(fleet) /\ None \notin fleet
  BY FleetsAssumption, NoneAssumption DEF HInit
<1>2. n \in Nat \ {0}
  BY <1>1, FS_CardinalityType, FS_EmptySet
<1>3. IsFiniteSet(1..n) /\ Cardinality(1..n) = n
  BY <1>2, FS_Interval
<1>4. pool \in [1..n -> fleet] /\ \A w \in fleet : \E i \in 1..n : pool[i] = w
  BY DEF HInit
<1> HIDE DEF n
<1>5. pool \in Seq(fleet) /\ Len(pool) = n /\ DOMAIN pool = 1..n
  BY <1>2, <1>4, FunIsSeq
<1>6. \A i, j \in 1..n : pool[i] = pool[j] => i = j
  <2>1. pool \in Surjection(1..n, fleet)
    BY <1>4 DEF Surjection
  <2>2. pool \in Injection(1..n, fleet)
    BY <1>3, <2>1, FS_SurjSameCardinalityImpliesInj DEF n
  <2> QED
    BY <1>5, <2>2 DEF Injection, IsInjective
<1>7. held = None /\ target = None /\ panicked = FALSE /\ pending \in [Worker -> Int]
      /\ index \in [Worker -> Int] /\ \A w \in Worker : index[w] = 0
  BY DEF HInit, Init
<1>8. HTypeOK
  BY <1>1, <1>5, <1>7 DEF HTypeOK
<1>9. PoolSize
  BY <1>1, <1>2, <1>5, <1>7 DEF PoolSize, Selecting, n
<1>10. Lost = {}
  BY <1>4, <1>5 DEF Lost, InPool
<1>11. LostHasNoIndex
  BY <1>10 DEF LostHasNoIndex
<1>12. RightUntilLoss
  <2>1. ~InPool(target)
    BY <1>1, <1>4, <1>5, <1>7 DEF InPool
  <2>2. \A w \in fleet \ {target} : index[w] \in 0..(n - 1)
    BY <1>1, <1>2, <1>7
  <2> QED
    BY <1>5, <1>6, <2>1, <2>2 DEF RightUntilLoss, n
<1> QED
  BY <1>7, <1>8, <1>9, <1>11, <1>12 DEF HInv, PanicMeansLost

\* dispatch pops the top of the pool, which becomes the target.
LEMMA HAcceptInv ==
  ASSUME HInv, ~panicked, NEW r \in Requester, HAccept(r)
  PROVE  HInv' /\ Lost \subseteq Lost' /\ HeapTop(Heap(pending)) \in Worker
<1> DEFINE h == Heap(pending)
           g == HeapPop(h)
           w == HeapTop(h)
           n == Cardinality(fleet)
<1>1. HTypeOK /\ PoolSize /\ LostHasNoIndex /\ RightUntilLoss
  BY DEF HInv
<1>2. fleet \subseteq Worker /\ None \notin fleet /\ n \in Nat \ {0} /\ h \in HeapOf(fleet)
  BY <1>1, FleetFacts
<1>3. h.pool = pool /\ h.index = index
  BY DEF Heap
<1>4. /\ held = None /\ target = None /\ held' = r /\ target' = w /\ held' # None
      /\ fleet' = fleet /\ panicked' = panicked /\ pending' = pending
      /\ pool' = g.pool /\ index' = g.index
  BY <1>1, NoneAssumption DEF HAccept, Accept, Selecting, Become, HTypeOK
<1>5. Len(pool) = n /\ \A v \in fleet : index[v] \in -1..(n - 1)
  BY <1>1, <1>2, <1>4 DEF PoolSize, Selecting
<1> HIDE DEF h, g, w, n
<1>6. w \in fleet /\ g \in HeapOf(fleet) /\ Removed(h, g, w)
  BY <1>2, <1>3, <1>5, HeapPopRemoves DEF g, w
<1>7. /\ Len(pool') = n - 1 /\ index'[w] = -1 /\ Has(pool, w)
      /\ \A v : Has(pool', v) => Has(pool, v)
      /\ \A v : Has(pool, v) => v = w \/ Has(pool', v)
      /\ Distinct(pool) => Distinct(pool') /\ ~Has(pool', w)
      /\ \A v \in Worker : v # w => index'[v] = index[v] \/ (Has(pool, v) /\ index'[v] \in 0..(n - 1))
  BY <1>3, <1>4, <1>5, <1>6 DEF Removed
<1>8. Lost' = Lost /\ \A v \in Lost : v \in fleet /\ v # w /\ ~Has(pool, v)
  BY <1>2, <1>4, <1>7, LostIs, LostIsPrime
<1>9. HTypeOK'
  <2>1. pool' \in Seq(fleet) /\ index' \in [Worker -> Int]
    BY <1>4, <1>6 DEF HeapOf
  <2> QED
    BY <1>1, <1>2, <1>4, <1>6, <2>1 DEF HTypeOK
<1>10. PoolSize'
  <2>1. \A v \in fleet : index'[v] \in -1..(n - 1)
    BY <1>2, <1>5, <1>7
  <2> QED
    BY <1>2, <1>4, <1>7, <2>1 DEF PoolSize, Selecting, n
<1>11. LostHasNoIndex'
  BY <1>1, <1>2, <1>7, <1>8 DEF LostHasNoIndex
<1>12. RightUntilLoss'
  <2> SUFFICES ASSUME Lost = {}
               PROVE  /\ Distinct(pool') /\ ~Has(pool', w)
                      /\ \A v \in fleet : v # w => index'[v] \in 0..(n - 1)
    BY <1>4, <1>8 DEF RightUntilLoss, Distinct, InPool, Has, n
  <2>1. Distinct(pool) /\ \A v \in fleet : index[v] \in 0..(n - 1)
    BY <1>1, <1>2, <1>4 DEF RightUntilLoss, Distinct, n
  <2> QED
    BY <1>2, <1>7, <2>1
<1>13. PanicMeansLost'
  BY <1>4 DEF PanicMeansLost
<1> QED
  BY <1>2, <1>6, <1>8, <1>9, <1>10, <1>11, <1>12, <1>13 DEF HInv, w, h

\* The rest of dispatch pushes the target back.
LEMMA HEnqueueInv ==
  ASSUME HInv, ~panicked, NEW w \in fleet, HEnqueue(w)
  PROVE  HInv' /\ Lost \subseteq Lost'
<1> DEFINE h == Heap(pending')
           g == HeapPush(h, w)
           n == Cardinality(fleet)
<1>1. HTypeOK /\ PoolSize /\ LostHasNoIndex /\ RightUntilLoss
  BY DEF HInv
<1>2. fleet \subseteq Worker /\ None \notin fleet /\ n \in Nat \ {0}
  BY <1>1, FleetFacts
<1>3. h.pool = pool /\ h.index = index
  BY DEF Heap
<1>4. /\ held # None /\ target = w /\ held' = None /\ target' = None
      /\ fleet' = fleet /\ panicked' = panicked
      /\ pool' = g.pool /\ index' = g.index
  BY <1>1, <1>2 DEF HEnqueue, Enqueue, Become, HTypeOK
<1>5. Len(pool) = n - 1 /\ \A v \in fleet : index[v] \in -1..(n - 1)
  BY <1>1, <1>2, <1>4 DEF PoolSize, Selecting
<1>6. pending' \in [Worker -> Int] /\ h \in HeapOf(fleet)
  <2>1. pending' = [pending EXCEPT ![w] = @ + 1] /\ w \in Worker /\ pending \in [Worker -> Int]
    BY <1>1, <1>2 DEF HEnqueue, Enqueue, HTypeOK
  <2>2. pending' \in [Worker -> Int]
    BY <2>1
  <2>3. pool \in Seq(fleet) /\ index \in [Worker -> Int]
    BY <1>1 DEF HTypeOK
  <2> QED
    BY <2>2, <2>3 DEF HeapOf, Heap
<1> HIDE DEF h, g, n
<1>7. g \in HeapOf(fleet) /\ Added(h, g, w)
  BY <1>2, <1>6, HeapPushAdds DEF g
<1>8. /\ Len(pool') = n /\ index'[w] \in 0..(n - 1)
      /\ \A v : Has(pool', v) <=> v = w \/ Has(pool, v)
      /\ Distinct(pool) /\ ~Has(pool, w) => Distinct(pool')
      /\ \A v \in Worker : v # w => index'[v] = index[v] \/ (Has(pool, v) /\ index'[v] \in 0..(n - 1))
  BY <1>2, <1>3, <1>4, <1>5, <1>7 DEF Added
<1>9. Lost' = Lost /\ \A v \in Lost : v \in fleet /\ v # w /\ ~Has(pool, v)
  BY <1>2, <1>4, <1>8, LostIs, LostIsPrime
<1>10. HTypeOK'
  <2>1. pool' \in Seq(fleet) /\ index' \in [Worker -> Int]
    BY <1>4, <1>7 DEF HeapOf
  <2> QED
    BY <1>1, <1>2, <1>4, <1>6, <2>1 DEF HTypeOK
<1>11. PoolSize'
  <2>1. \A v \in fleet : index'[v] \in -1..(n - 1)
    BY <1>2, <1>5, <1>8
  <2> QED
    BY <1>2, <1>4, <1>8, <2>1 DEF PoolSize, Selecting, n
<1>12. LostHasNoIndex'
  BY <1>1, <1>2, <1>8, <1>9 DEF LostHasNoIndex
<1>13. RightUntilLoss'
  <2>0. ~Has(pool', None)
    <3>1. \A v : Has(pool, v) => v \in fleet
      BY <1>1, ElementOfSeq, LenProperties DEF HTypeOK, Has
    <3> QED
      BY <1>2, <1>8, <3>1
  <2> SUFFICES ASSUME Lost = {}
               PROVE  Distinct(pool') /\ \A v \in fleet : index'[v] \in 0..(n - 1)
    BY <1>4, <1>9, <2>0 DEF RightUntilLoss, Distinct, InPool, Has, n
  <2>1. Distinct(pool) /\ ~Has(pool, w) /\ \A v \in fleet : v # w => index[v] \in 0..(n - 1)
    BY <1>1, <1>2, <1>4 DEF RightUntilLoss, Distinct, InPool, Has, n
  <2> QED
    BY <1>2, <1>8, <2>1
<1>14. PanicMeansLost'
  BY <1>4 DEF PanicMeansLost
<1> QED
  BY <1>9, <1>10, <1>11, <1>12, <1>13, <1>14 DEF HInv

\* completed(w) removes whoever is at w.index, and pushes w.
LEMMA HCompletedInv ==
  ASSUME HInv, ~panicked, NEW w \in fleet, HCompleted(w)
  PROVE  HInv' /\ Lost \subseteq Lost'
<1> DEFINE h == Heap(pending')
           g == HeapRemove(h, index[w])
           f == HeapPush(g, w)
           x == pool[index[w] + 1]
           n == Cardinality(fleet)
<1>1. HTypeOK /\ PoolSize /\ LostHasNoIndex /\ RightUntilLoss
  BY DEF HInv
<1>2. fleet \subseteq Worker /\ None \notin fleet /\ n \in Nat \ {0} /\ w \in Worker
  BY <1>1, FleetFacts
<1>3. h.pool = pool /\ h.index = index
  BY DEF Heap
<1>4. /\ held = None /\ target = None /\ held' = None /\ target' = None
      /\ fleet' = fleet /\ panicked' = panicked
      /\ pool' = f.pool /\ index' = f.index /\ index[w] \in 0..(Len(pool) - 1)
  BY <1>1, <1>2 DEF HCompleted, Completed, Become, HTypeOK, Selecting, InRange
<1>5. Len(pool) = n /\ \A v \in fleet : index[v] \in -1..(n - 1)
  BY <1>1, <1>2, <1>4 DEF PoolSize, Selecting
<1>6. pending' \in [Worker -> Int] /\ h \in HeapOf(fleet)
  <2>1. pending' = [pending EXCEPT ![w] = @ - 1] /\ w \in Worker /\ pending \in [Worker -> Int]
    BY <1>1, <1>2 DEF HCompleted, Completed, HTypeOK
  <2>2. pending' \in [Worker -> Int]
    BY <2>1
  <2>3. pool \in Seq(fleet) /\ index \in [Worker -> Int]
    BY <1>1 DEF HTypeOK
  <2> QED
    BY <2>2, <2>3 DEF HeapOf, Heap
<1> HIDE DEF h, g, f, n
<1>7. g \in HeapOf(fleet) /\ Removed(h, g, x)
  BY <1>2, <1>3, <1>4, <1>6, HeapRemoveRemoves DEF g
<1>8. f \in HeapOf(fleet) /\ Added(g, f, w)
  BY <1>2, <1>7, HeapPushAdds DEF f
<1> HIDE DEF x
<1>9. /\ Len(g.pool) = n - 1 /\ g.index[x] = -1 /\ Has(pool, x)
      /\ \A v : Has(g.pool, v) => Has(pool, v)
      /\ \A v : Has(pool, v) => v = x \/ Has(g.pool, v)
      /\ Distinct(pool) => Distinct(g.pool) /\ ~Has(g.pool, x)
      /\ \A v \in Worker : v # x => g.index[v] = index[v] \/ (Has(pool, v) /\ g.index[v] \in 0..(n - 1))
  BY <1>3, <1>5, <1>7 DEF Removed
<1>10. /\ Len(pool') = n /\ index'[w] \in 0..(n - 1)
       /\ \A v : Has(pool', v) <=> v = w \/ Has(g.pool, v)
       /\ Distinct(g.pool) /\ ~Has(g.pool, w) => Distinct(pool')
       /\ \A v \in Worker : v # w => index'[v] = g.index[v] \/ (Has(g.pool, v) /\ index'[v] \in 0..(n - 1))
  BY <1>2, <1>4, <1>8, <1>9 DEF Added
<1>11. x \in fleet /\ \A v : Has(pool, v) => v \in fleet
  BY <1>1, <1>9, ElementOfSeq, LenProperties DEF HTypeOK, Has
<1>12. \A v \in Lost : v # w /\ v # x /\ ~Has(pool, v) /\ v \in fleet /\ index[v] = -1
  BY <1>1, <1>4, <1>9, LostIs DEF LostHasNoIndex
<1>13. Lost \subseteq Lost'
  BY <1>2, <1>4, <1>9, <1>10, <1>12, LostIsPrime
<1>14. ASSUME NEW v \in Lost' PROVE v \in fleet /\ v # w /\ ~Has(g.pool, v) /\ (v \in Lost \/ v = x)
  BY <1>2, <1>4, <1>9, <1>10, LostIs, LostIsPrime
<1>15. HTypeOK'
  <2>1. pool' \in Seq(fleet) /\ index' \in [Worker -> Int]
    BY <1>4, <1>8 DEF HeapOf
  <2> QED
    BY <1>1, <1>2, <1>4, <1>6, <2>1 DEF HTypeOK
<1>16. PoolSize'
  <2>1. \A v \in fleet : g.index[v] \in -1..(n - 1)
    BY <1>2, <1>5, <1>9
  <2>2. \A v \in fleet : index'[v] \in -1..(n - 1)
    BY <1>2, <1>10, <2>1
  <2> QED
    BY <1>4, <1>10, <2>2 DEF PoolSize, Selecting, n
<1>17. LostHasNoIndex'
  <2> SUFFICES ASSUME NEW v \in Lost' PROVE index'[v] = -1
    BY DEF LostHasNoIndex
  <2>1. index'[v] = g.index[v]
    BY <1>2, <1>10, <1>14
  <2>2. CASE v = x
    BY <1>9, <2>1, <2>2
  <2>3. CASE v \in Lost
    BY <1>2, <1>9, <1>12, <2>1, <2>3
  <2> QED
    BY <1>14, <2>2, <2>3
<1>18. RightUntilLoss'
  <2>0. ~Has(pool', None)
    BY <1>2, <1>9, <1>10, <1>11
  <2> SUFFICES ASSUME Lost' = {}
               PROVE  Distinct(pool') /\ \A v \in fleet : index'[v] \in 0..(n - 1)
    BY <1>4, <2>0 DEF RightUntilLoss, Distinct, InPool, Has, n
  <2>1. Distinct(pool) /\ \A v \in fleet : index[v] \in 0..(n - 1)
    BY <1>1, <1>2, <1>4, <1>13 DEF RightUntilLoss, Distinct, n
  <2>2. Distinct(g.pool) /\ ~Has(g.pool, x)
    BY <1>9, <2>1
  <2>3. x = w
    BY <1>2, <1>4, <1>10, <1>11, <2>2, LostIsPrime
  <2>4. \A v \in fleet : v # w => g.index[v] \in 0..(n - 1)
    BY <1>2, <1>9, <2>1, <2>3
  <2> QED
    BY <1>2, <1>10, <2>2, <2>3, <2>4
<1>19. PanicMeansLost'
  BY <1>4 DEF PanicMeansLost
<1> QED
  BY <1>13, <1>15, <1>16, <1>17, <1>18, <1>19 DEF HInv

\* The other steps leave the heap alone.
LEMMA HeapIdle ==
  ASSUME HInv, UNCHANGED <<fleet, pool, index, held, target, pending>>, PanicMeansLost', panicked' \in BOOLEAN
  PROVE  HInv' /\ Lost' = Lost
<1>1. Lost' = Lost
  BY LostIs, LostIsPrime
<1> QED
  BY <1>1 DEF HInv, HTypeOK, PoolSize, Selecting, LostHasNoIndex, RightUntilLoss, InPool

LEMMA HNextInv == HInv /\ [HNext]_hvars => HInv' /\ Lost \subseteq Lost'
<1> SUFFICES ASSUME HInv, [HNext]_hvars PROVE HInv' /\ Lost \subseteq Lost'
  OBVIOUS
<1>1. ASSUME ~panicked, NEW r \in Requester, HAccept(r) PROVE HInv' /\ Lost \subseteq Lost'
  BY <1>1, HAcceptInv
<1>2. ASSUME ~panicked, NEW w \in fleet, HEnqueue(w) PROVE HInv' /\ Lost \subseteq Lost'
  BY <1>2, HEnqueueInv
<1>3. ASSUME ~panicked, NEW w \in fleet, HCompleted(w) PROVE HInv' /\ Lost \subseteq Lost'
  BY <1>3, HCompletedInv
<1>4. ASSUME ~panicked, NEW w \in fleet, HWorker(w) PROVE HInv' /\ Lost \subseteq Lost'
  <2>1. UNCHANGED <<fleet, pool, index, held, target, pending, panicked>>
    BY <1>4 DEF HWorker, Take, Reply
  <2>2. PanicMeansLost' /\ panicked' \in BOOLEAN
    BY <1>4, <2>1 DEF PanicMeansLost, HInv, HTypeOK
  <2> QED
    BY <2>1, <2>2, HeapIdle
<1>5. ASSUME ~panicked, NEW w \in fleet, HCompletedPanics(w) PROVE HInv' /\ Lost \subseteq Lost'
  <2>1. UNCHANGED <<fleet, pool, index, held, target, pending>> /\ panicked' = TRUE /\ held = None /\ index[w] \notin 0..(Len(pool) - 1)
    BY <1>5 DEF HCompletedPanics, vars, Selecting, InRange
  <2>2. Lost # {}
    <3>1. target = None /\ Len(pool) = Cardinality(fleet) /\ w # None
      BY <2>1, FleetFacts DEF HInv, HTypeOK, PoolSize, Selecting
    <3> QED
      BY <2>1, <3>1 DEF HInv, RightUntilLoss
  <2>3. Lost' # {} /\ held' = None
    BY <2>1, <2>2, LostIs, LostIsPrime
  <2>4. PanicMeansLost'
    BY <2>3 DEF PanicMeansLost, Selecting
  <2> QED
    BY <2>1, <2>4, HeapIdle
<1>6. CASE HStopped \/ UNCHANGED hvars
  <2>1. UNCHANGED <<fleet, pool, index, held, target, pending, panicked>>
    BY <1>6 DEF HStopped, hvars, vars
  <2>2. PanicMeansLost'
    BY <2>1, LostIs, LostIsPrime DEF PanicMeansLost, HInv, Selecting
  <2> QED
    BY <2>1, <2>2, HeapIdle DEF HInv, HTypeOK
<1> QED
  BY <1>1, <1>2, <1>3, <1>4, <1>5, <1>6 DEF HNext

\* What the heap does, and what the indices Swap leaves make of it, for every
\* fleet and any load: the pool is never short, and until a worker is lost
\* it is right; a lost worker has no index, and only its report panics.
THEOREM HeapInvHolds == HSpec => []HInv
BY HInitInv, HNextInv, PTL DEF HSpec

\* A worker the pool has lost is lost for good.
THEOREM LostForGood == HSpec => [][Lost \subseteq Lost']_hvars
BY HeapInvHolds, HNextInv, PTL DEF HSpec

\* With a single worker none of it happens.
LEMMA SoleWorkerSpared == HInv => SoleWorkerIndex
<1> SUFFICES ASSUME HInv, Cardinality(fleet) = 1 PROVE IndexInHeap /\ ~panicked
  BY DEF SoleWorkerIndex
<1>1. HTypeOK /\ PoolSize /\ RightUntilLoss /\ PanicMeansLost
  BY DEF HInv
<1>2. IsFiniteSet(fleet) /\ None \notin fleet
  BY <1>1, FleetsAssumption, NoneAssumption DEF HTypeOK
<1>3. PICK w : fleet = {w}
  BY <1>2, FS_Singleton
<1>4. CASE held = None
  <2>1. target = None /\ Len(pool) = 1 /\ pool[1] \in fleet /\ DOMAIN pool = 1..1
    <3>1. target = None /\ Len(pool) = 1 /\ pool \in Seq(fleet)
      BY <1>1, <1>4 DEF HTypeOK, PoolSize, Selecting
    <3> QED
      BY <3>1, ElementOfSeq, LenProperties
  <2>2. Lost = {}
    BY <1>3, <2>1 DEF Lost, InPool
  <2>3. index[w] = 0
    BY <1>1, <1>2, <1>3, <2>1, <2>2 DEF RightUntilLoss
  <2>4. IndexInHeap
    BY <1>3, <2>1, <2>3 DEF IndexInHeap, InRange
  <2> QED
    BY <1>1, <2>2, <2>4 DEF PanicMeansLost
<1>5. CASE held # None
  BY <1>1, <1>5 DEF IndexInHeap, Selecting, PanicMeansLost
<1> QED
  BY <1>4, <1>5

\* How far the damage of the wrong indices goes, for every fleet: the
\* property DamageBounded, which holds of every reachable state.
THEOREM DamageIsBounded == HSpec => []DamageBounded
BY HeapInvHolds, SoleWorkerSpared, PTL DEF DamageBounded

\* Whatever the heap does, a step of the balancer with its heap is one the
\* balancer without it allows.
LEMMA HeapStep == HInv /\ [HNext]_hvars => [Next]_vars
<1> SUFFICES ASSUME HInv, [HNext]_hvars PROVE [Next]_vars
  OBVIOUS
<1>1. fleet \subseteq Worker
  BY FleetFacts DEF HInv
<1>2. ASSUME ~panicked, NEW r \in Requester, HAccept(r) PROVE [Next]_vars
  <2>1. HeapTop(Heap(pending)) \in Worker /\ Accept(r, HeapTop(Heap(pending)))
    BY <1>2, HAcceptInv DEF HAccept
  <2> QED
    BY <2>1 DEF Next, Progress
<1>3. ASSUME NEW w \in fleet, HEnqueue(w) \/ HWorker(w) \/ HCompleted(w) PROVE [Next]_vars
  <2>1. w \in Worker /\ WorkerStep(w)
    BY <1>1, <1>3 DEF HEnqueue, HWorker, HCompleted, WorkerStep
  <2> QED
    BY <2>1 DEF Next, Progress
<1>4. ASSUME NEW w \in fleet, HCompletedPanics(w) PROVE [Next]_vars
  BY <1>4 DEF HCompletedPanics
<1>5. CASE HStopped \/ UNCHANGED hvars
  BY <1>5 DEF HStopped, hvars
<1> QED
  BY <1>2, <1>3, <1>4, <1>5 DEF HNext

\* The heap's program is one of LoadBalancer's, so no request is lost or
\* doubled, though workers are, and apart from a panic it is a wedge that
\* stops the program.
THEOREM HeapKeepsRequests ==
  HSpec => [](RequestOnce /\ WaitingIsServed /\ PendingCounts /\ StuckIsWedge)
<1>1. HInit => Init
  BY DEF HInit
<1>2. HSpec => Spec
  BY <1>1, HeapStep, HeapInvHolds, PTL DEF HSpec, Spec
<1> QED
  BY <1>2, RequestsKept, LoadExact, OnlyWedgeStops, PTL
-----------------------------------------------------------------------------
(* The order of the heap.                                                  *)

\* The load at each place, and the order on the first n of them.
Loads(h) == [k \in 1..Len(h.pool) |-> h.load[h.pool[k]]]
Order(v, n) == \A k \in 2..n : v[k \div 2] <= v[k]

\* Ordered but for place a, whose children are no less than its parent: a
\* load is moving up or down, and is at a.
OrderBut(v, n, a) ==
  /\ \A k \in 2..n : k # a /\ k \div 2 # a => v[k \div 2] <= v[k]
  /\ a >= 2 => \A k \in 2..n : k \div 2 = a => v[a \div 2] <= v[k]

\* What is left of that when the load has gone down as far as it can.
OrderUp(v, n, a) ==
  /\ \A k \in 2..n : k # a => v[k \div 2] <= v[k]
  /\ a >= 2 => \A k \in 2..n : k \div 2 = a => v[a \div 2] <= v[k]

\* The loads v with those of places a and b exchanged.
Exchanged(v, u, L, a, b) ==
  \A k \in 1..L : u[k] = IF k = a THEN v[b] ELSE IF k = b THEN v[a] ELSE v[k]

\* The load at a goes down to its smallest child c.
LEMMA DownOnce ==
  ASSUME NEW L \in Nat, NEW v \in [1..L -> Int], NEW u \in [1..L -> Int], NEW n \in 1..L,
         NEW a \in 1..n, NEW c \in 1..n, c = 2 * a \/ c = 2 * a + 1,
         Exchanged(v, u, L, a, c), v[c] < v[a], \A k \in 2..n : k \div 2 = a => v[c] <= v[k],
         OrderBut(v, n, a)
  PROVE  OrderBut(u, n, c) /\ u[c \div 2] <= u[c]
<1>1. c \div 2 = a /\ c # a /\ c >= 2 /\ a \in Nat /\ n \in Nat /\ n <= L
  OBVIOUS
<1>2. u[a] = v[c] /\ u[c] = v[a] /\ \A k \in 1..n : k # a /\ k # c => u[k] = v[k]
  BY <1>1 DEF Exchanged
<1>3. ASSUME NEW k \in 2..n, k # c, k \div 2 # c PROVE u[k \div 2] <= u[k]
  <2>1. k \in 1..n /\ k \div 2 \in 1..n /\ k # k \div 2
    OBVIOUS
  <2>2. CASE k = a
    <3>1. u[k \div 2] = v[a \div 2] /\ v[a \div 2] <= v[c]
      BY <1>1, <1>2, <1>3, <2>1, <2>2 DEF OrderBut
    <3> QED
      BY <1>2, <2>2, <3>1
  <2>3. CASE k # a /\ k \div 2 = a
    BY <1>2, <1>3, <2>1, <2>3
  <2>4. CASE k # a /\ k \div 2 # a
    BY <1>2, <1>3, <2>1, <2>4 DEF OrderBut
  <2> QED
    BY <2>2, <2>3, <2>4
<1>4. ASSUME NEW k \in 2..n, k \div 2 = c PROVE u[c \div 2] <= u[k]
  <2>1. k \in 1..n /\ k # a /\ k # c /\ k \div 2 # a
    BY <1>1, <1>4
  <2>2. v[k \div 2] <= v[k]
    BY <2>1 DEF OrderBut
  <2> QED
    BY <1>1, <1>2, <1>4, <2>1, <2>2
<1>5. u[c \div 2] <= u[c]
  <2>1. v[a] \in Int /\ v[c] \in Int
    BY <1>1
  <2> QED
    BY <1>1, <1>2, <2>1
<1> QED
  BY <1>3, <1>4, <1>5 DEF OrderBut

\* The load at a goes up to its parent.
LEMMA UpOnce ==
  ASSUME NEW L \in Nat, NEW v \in [1..L -> Int], NEW u \in [1..L -> Int], NEW n \in 1..L,
         NEW a \in 2..n, NEW p \in 1..n, p = a \div 2, Exchanged(v, u, L, p, a), v[a] < v[p],
         OrderUp(v, n, a)
  PROVE  OrderUp(u, n, p)
<1>1. p # a /\ p < a /\ a \in Nat /\ n \in Nat /\ n <= L /\ p \in Nat /\ a \in 1..L /\ p \in 1..L
      /\ \A k \in 1..n : k \in 1..L
  OBVIOUS
<1>2. u[p] = v[a] /\ u[a] = v[p] /\ \A k \in 1..n : k # p /\ k # a => u[k] = v[k]
  BY <1>1 DEF Exchanged
<1>3. \A k \in 1..n : v[k] \in Int
  BY <1>1
<1>4. ASSUME NEW k \in 2..n, k # p PROVE u[k \div 2] <= u[k]
  <2>1. k \in 1..n /\ k \div 2 \in 1..n /\ k # k \div 2
    OBVIOUS
  <2>2. CASE k = a
    BY <1>2, <1>3, <2>1, <2>2
  <2>3. CASE k # a /\ k \div 2 = a
    <3>1. v[p] <= v[k]
      BY <2>3 DEF OrderUp
    <3> QED
      BY <1>2, <1>4, <2>1, <2>3, <3>1
  <2>4. CASE k # a /\ k \div 2 # a
    <3>1. v[k \div 2] <= v[k]
      BY <2>4 DEF OrderUp
    <3>2. ASSUME k \div 2 = p PROVE v[a] <= v[k]
      <4>1. v[p] <= v[k] /\ v[p] \in Int /\ v[a] \in Int /\ v[k] \in Int
        BY <1>1, <1>3, <2>1, <3>1, <3>2
      <4> QED
        BY <4>1
    <3> QED
      BY <1>2, <1>4, <2>1, <2>4, <3>1, <3>2
  <2> QED
    BY <2>2, <2>3, <2>4
<1>5. ASSUME p >= 2, NEW k \in 2..n, k \div 2 = p PROVE u[p \div 2] <= u[k]
  <2>1. k \in 1..n /\ p \in 2..n /\ p \div 2 \in 1..n /\ p \div 2 # p /\ p \div 2 # a /\ k # p
    BY <1>1, <1>5
  <2>2. v[p \div 2] <= v[p]
    BY <1>1, <2>1 DEF OrderUp
  <2>3. CASE k = a
    BY <1>2, <2>1, <2>2, <2>3
  <2>4. CASE k # a
    <3>1. v[p] <= v[k]
      BY <1>5, <2>4 DEF OrderUp
    <3> QED
      BY <1>2, <1>3, <2>1, <2>2, <2>4, <3>1
  <2> QED
    BY <2>3, <2>4
<1> QED
  BY <1>4, <1>5 DEF OrderUp

\* Loads are numbers, and Less compares them.
LEMMA LoadsFacts ==
  ASSUME NEW F, F \subseteq Worker, NEW h \in HeapOf(F)
  PROVE  /\ Len(h.pool) \in Nat /\ Loads(h) \in [1..Len(h.pool) -> Int]
         /\ \A i, j \in 0..(Len(h.pool) - 1) : Less(h, i, j) <=> Loads(h)[i + 1] < Loads(h)[j + 1]
<1>1. Len(h.pool) \in Nat /\ h.load \in [Worker -> Int] /\ h.pool \in Seq(F)
  BY DEF HeapOf
<1>2. \A k \in 1..Len(h.pool) : h.pool[k] \in Worker
  BY <1>1, ElementOfSeq
<1>3. Loads(h) \in [1..Len(h.pool) -> Int]
  BY <1>1, <1>2 DEF Loads
<1>4. \A i \in 0..(Len(h.pool) - 1) : i + 1 \in 1..Len(h.pool)
  BY <1>1
<1> QED
  BY <1>1, <1>3, <1>4 DEF Less, Loads

\* Swap exchanges loads.
LEMMA SwapLoads ==
  ASSUME NEW F, F \subseteq Worker, NEW h \in HeapOf(F),
         NEW i \in 0..(Len(h.pool) - 1), NEW j \in 0..(Len(h.pool) - 1)
  PROVE  Exchanged(Loads(h), Loads(Swap(h, i, j)), Len(h.pool), i + 1, j + 1)
<1> DEFINE L == Len(h.pool)
           p == [h.pool EXCEPT ![i + 1] = h.pool[j + 1], ![j + 1] = h.pool[i + 1]]
<1>1. L \in Nat /\ h.pool \in Seq(F) /\ h.pool \in [1..L -> F] /\ i + 1 \in 1..L /\ j + 1 \in 1..L
  BY DEF HeapOf
<1>2. Swap(h, i, j).pool = p /\ Swap(h, i, j).load = h.load
  BY DEF Swap
<1>3. p \in [1..L -> F]
  BY <1>1
<1>4. Len(p) = L
  BY <1>1, <1>3, FunIsSeq
<1>5. \A k \in 1..L : p[k] = IF k = i + 1 THEN h.pool[j + 1]
                             ELSE IF k = j + 1 THEN h.pool[i + 1] ELSE h.pool[k]
  BY <1>1
<1> HIDE DEF p
<1>6. Loads(Swap(h, i, j)) = [k \in 1..L |-> h.load[p[k]]]
  BY <1>2, <1>4 DEF Loads
<1>7. Loads(h) = [k \in 1..L |-> h.load[h.pool[k]]]
  BY DEF Loads
<1> HIDE DEF L
<1>8. \A k \in 1..L : Loads(Swap(h, i, j))[k] = h.load[p[k]] /\ Loads(h)[k] = h.load[h.pool[k]]
  BY <1>6, <1>7
<1> QED
  BY <1>1, <1>5, <1>8 DEF Exchanged, L

\* The child Down compares with its parent at i is the least of them.
LEMMA LeastChild ==
  ASSUME NEW m \in Nat, NEW n \in 1..m, NEW i \in 0..(n - 1), NEW v \in [1..m -> Int],
         NEW c, c \in {2 * i + 1, 2 * i + 2}, c < n,
         2 * i + 2 < n => IF c = 2 * i + 2 THEN v[2 * i + 3] < v[2 * i + 2]
                                           ELSE ~(v[2 * i + 3] < v[2 * i + 2])
  PROVE  \A k \in 2..n : k \div 2 = i + 1 => v[c + 1] <= v[k]
<1> SUFFICES ASSUME NEW k \in 2..n, k \div 2 = i + 1 PROVE v[c + 1] <= v[k]
  OBVIOUS
<1>1. k = 2 * i + 2 \/ (k = 2 * i + 3 /\ 2 * i + 2 < n)
  OBVIOUS
<1>2. i \in Nat /\ n \in Nat /\ n <= m /\ 2 * i + 2 \in 1..m /\ (2 * i + 2 < n => 2 * i + 3 \in 1..m)
  OBVIOUS
<1>3. v[2 * i + 2] \in Int /\ (2 * i + 2 < n => v[2 * i + 3] \in Int)
  BY <1>2
<1>4. CASE c = 2 * i + 1
  <2>1. c + 1 = 2 * i + 2 /\ c # 2 * i + 2
    BY <1>2, <1>4
  <2> QED
    BY <1>1, <1>3, <2>1
<1>5. CASE c = 2 * i + 2
  <2>1. c + 1 = 2 * i + 3
    BY <1>2, <1>5
  <2> QED
    BY <1>1, <1>3, <1>5, <2>1
<1> QED
  BY <1>4, <1>5

\* A turn of Down either is the last, when no child is less, or takes the
\* load one place down.
LEMMA DownTurnOrders ==
  ASSUME NEW F, F \subseteq Worker, NEW m \in Nat, NEW n \in 1..m, NEW s \in LoopState(F, m, Nat),
         s.at < n, OrderBut(Loads(s.heap), n, s.at + 1),
         NEW r, r = DownTurn(s, n)
  PROVE  \/ r = s /\ \A k \in 2..n : k \div 2 = s.at + 1 =>
                       Loads(s.heap)[s.at + 1] <= Loads(s.heap)[k]
         \/ /\ r.at > s.at /\ r.at < n /\ OrderBut(Loads(r.heap), n, r.at + 1)
            /\ Loads(r.heap)[(r.at + 1) \div 2] <= Loads(r.heap)[r.at + 1]
<1>1. PICK h, i, v : h = s.heap /\ i = s.at /\ v = Loads(h)
  OBVIOUS
<1>2. h \in HeapOf(F) /\ i \in 0..(n - 1) /\ Len(h.pool) = m /\ i \in 0..(m - 1) /\ i + 1 \in 1..n
      /\ i + 1 \in 1..m
  BY <1>1 DEF LoopState
<1>3. v \in [1..m -> Int] /\ \A x, y \in 0..(m - 1) : Less(h, x, y) <=> v[x + 1] < v[y + 1]
  BY <1>1, <1>2, LoadsFacts
<1>4. PICK c : c = IF 2 * i + 2 < n /\ Less(h, 2 * i + 2, 2 * i + 1) THEN 2 * i + 2 ELSE 2 * i + 1
  OBVIOUS
<1>5. r = IF 2 * i + 1 < n /\ Less(h, c, i) THEN [heap |-> Swap(h, i, c), at |-> c] ELSE s
  <2>1. (2 * i + 1) + 1 = 2 * i + 2
    BY <1>2
  <2> QED
    BY <1>1, <1>4, <2>1 DEF DownTurn
<1>6. \A k \in 2..n : k \div 2 = i + 1 => 2 * i + 1 < n
  BY <1>2
<1>7. ASSUME 2 * i + 1 < n
      PROVE  /\ c \in 0..(n - 1) /\ c \in 0..(m - 1) /\ c + 1 \in 1..n /\ c + 1 \in 1..m /\ c > i
             /\ c + 1 = 2 * (i + 1) \/ c + 1 = 2 * (i + 1) + 1
             /\ \A k \in 2..n : k \div 2 = i + 1 => v[c + 1] <= v[k]
  <2>1. c \in {2 * i + 1, 2 * i + 2} /\ c < n
    BY <1>4, <1>7
  <2>2. 2 * i + 2 < n => (c = 2 * i + 2 <=> v[2 * i + 3] < v[2 * i + 2])
    <3>1. ASSUME 2 * i + 2 < n
          PROVE  /\ 2 * i + 1 \in 0..(m - 1) /\ 2 * i + 2 \in 0..(m - 1)
                 /\ (2 * i + 1) + 1 = 2 * i + 2 /\ (2 * i + 2) + 1 = 2 * i + 3
                 /\ 2 * i + 1 # 2 * i + 2
      BY <1>2, <3>1
    <3>2. ASSUME 2 * i + 2 < n
          PROVE  Less(h, 2 * i + 2, 2 * i + 1) <=> v[2 * i + 3] < v[2 * i + 2]
      BY <1>3, <3>1, <3>2
    <3> QED
      BY <1>4, <3>1, <3>2
  <2>3. \A k \in 2..n : k \div 2 = i + 1 => v[c + 1] <= v[k]
    BY <1>2, <1>3, <2>1, <2>2, LeastChild
  <2> QED
    BY <1>2, <2>1, <2>3
<1>8. CASE 2 * i + 1 < n /\ Less(h, c, i)
  <2>1. r.heap = Swap(h, i, c) /\ r.at = c
    BY <1>5, <1>8
  <2>2. v[c + 1] < v[i + 1]
    BY <1>2, <1>3, <1>7, <1>8
  <2>3. PICK u : u = Loads(Swap(h, i, c))
    OBVIOUS
  <2>4. Exchanged(v, u, m, i + 1, c + 1)
    BY <1>1, <1>2, <1>7, <1>8, <2>3, SwapLoads
  <2>5. u \in [1..m -> Int]
    <3>1. Swap(h, i, c) \in HeapOf(F) /\ Len(Swap(h, i, c).pool) = m
      BY <1>2, <1>7, <1>8, SwapShuffles DEF Shuffled
    <3> QED
      BY <2>3, <3>1, LoadsFacts
  <2>6. OrderBut(v, n, i + 1)
    BY <1>1
  <2>7. OrderBut(u, n, c + 1) /\ u[(c + 1) \div 2] <= u[c + 1]
    BY <1>2, <1>3, <1>7, <1>8, <2>2, <2>4, <2>5, <2>6, DownOnce
  <2>8. c > i /\ c < n
    BY <1>7, <1>8
  <2> QED
    BY <1>1, <2>1, <2>3, <2>7, <2>8
<1>9. CASE ~(2 * i + 1 < n /\ Less(h, c, i))
  <2>1. r = s
    BY <1>5, <1>9
  <2>2. ASSUME NEW k \in 2..n, k \div 2 = i + 1 PROVE v[i + 1] <= v[k]
    <3>1. 2 * i + 1 < n
      BY <1>6, <2>2
    <3>2. ~Less(h, c, i) /\ v[c + 1] <= v[k] /\ c \in 0..(m - 1) /\ c + 1 \in 1..m
      BY <1>7, <1>9, <2>2, <3>1
    <3>3. ~(v[c + 1] < v[i + 1])
      BY <1>2, <1>3, <3>2
    <3>4. v[c + 1] \in Int /\ v[i + 1] \in Int /\ v[k] \in Int
      BY <1>2, <1>3, <3>2
    <3> QED
      BY <3>2, <3>3, <3>4
  <2> QED
    BY <1>1, <2>1, <2>2
<1> QED
  BY <1>8, <1>9

\* A turn of Up takes the load one place up, or is the last.
LEMMA UpTurnOrders ==
  ASSUME NEW F, F \subseteq Worker, NEW m \in Nat, NEW n \in 1..m, NEW s \in LoopState(F, m, 0..(n - 1)),
         OrderUp(Loads(s.heap), n, s.at + 1),
         NEW r, r = UpTurn(s)
  PROVE  /\ OrderUp(Loads(r.heap), n, r.at + 1)
         /\ \/ r.at < s.at
            \/ /\ r = s
               /\ s.at # 0 => Loads(s.heap)[(s.at + 1) \div 2] <= Loads(s.heap)[s.at + 1]
<1>1. PICK h, i, v : h = s.heap /\ i = s.at /\ v = Loads(h)
  OBVIOUS
<1>2. h \in HeapOf(F) /\ i \in 0..(n - 1) /\ Len(h.pool) = m /\ i \in 0..(m - 1) /\ i + 1 \in 1..n
      /\ i + 1 \in 1..m /\ n \in Nat /\ n <= m
  BY <1>1 DEF LoopState
<1>3. v \in [1..m -> Int] /\ \A x, y \in 0..(m - 1) : Less(h, x, y) <=> v[x + 1] < v[y + 1]
  BY <1>1, <1>2, LoadsFacts
<1>4. PICK c : c = IF i = 0 THEN 0 ELSE (i - 1) \div 2
  OBVIOUS
<1>5. r = IF c # i /\ Less(h, i, c) THEN [heap |-> Swap(h, c, i), at |-> c] ELSE s
  BY <1>1, <1>4 DEF UpTurn
<1>6. ASSUME i # 0
      PROVE  /\ c \in 0..(n - 1) /\ c \in 0..(m - 1) /\ c < i /\ c + 1 \in 1..n /\ c + 1 \in 1..m
             /\ c + 1 = (i + 1) \div 2 /\ i + 1 \in 2..n
  <2>1. c = (i - 1) \div 2
    BY <1>4, <1>6
  <2> QED
    BY <1>2, <1>6, <2>1
<1>7. OrderUp(v, n, i + 1)
  BY <1>1
<1>8. CASE c # i /\ Less(h, i, c)
  <2>1. r.heap = Swap(h, c, i) /\ r.at = c /\ i # 0
    BY <1>4, <1>5, <1>8
  <2>2. v[i + 1] < v[c + 1]
    BY <1>2, <1>3, <1>6, <1>8, <2>1
  <2>3. PICK u : u = Loads(Swap(h, c, i))
    OBVIOUS
  <2>4. Exchanged(v, u, m, c + 1, i + 1)
    BY <1>1, <1>2, <1>6, <2>1, <2>3, SwapLoads
  <2>5. u \in [1..m -> Int]
    <3>1. m \in 0..Len(h.pool) /\ c \in 0..(m - 1) /\ i \in 0..(m - 1)
      BY <1>2, <1>6, <2>1
    <3>2. Swap(h, c, i) \in HeapOf(F) /\ Shuffled(h, Swap(h, c, i), m)
      BY <1>2, <3>1, SwapShuffles
    <3>3. Len(Swap(h, c, i).pool) = m
      BY <1>2, <3>2 DEF Shuffled
    <3> QED
      BY <2>3, <3>2, <3>3, LoadsFacts
  <2>6. OrderUp(u, n, c + 1)
    BY <1>3, <1>6, <1>7, <2>1, <2>2, <2>4, <2>5, UpOnce
  <2> QED
    BY <1>1, <1>6, <2>1, <2>3, <2>6
<1>9. CASE ~(c # i /\ Less(h, i, c))
  <2>1. r = s
    BY <1>5, <1>9
  <2>2. ASSUME i # 0 PROVE v[(i + 1) \div 2] <= v[i + 1]
    <3>1. ~(v[i + 1] < v[c + 1])
      BY <1>2, <1>3, <1>6, <1>9, <2>2
    <3>2. v[c + 1] \in Int /\ v[i + 1] \in Int
      BY <1>2, <1>3, <1>6, <2>2
    <3> QED
      BY <1>6, <2>2, <3>1, <3>2
  <2> QED
    BY <1>1, <1>7, <2>1, <2>2
<1> QED
  BY <1>8, <1>9

\* Down leaves the heap ordered but for the place it began at.
LEMMA DownOrders ==
  ASSUME NEW F, F \subseteq Worker, NEW h \in HeapOf(F), NEW n \in 1..Len(h.pool),
         NEW i \in 0..(n - 1), OrderBut(Loads(h), n, i + 1)
  PROVE  OrderUp(Loads(Down(h, i, n)), n, i + 1)
<1> DEFINE m == Len(h.pool)
           Sound(s) == /\ s.at < n /\ OrderBut(Loads(s.heap), n, s.at + 1)
                       /\ s.at # i => /\ s.at > i
                                      /\ Loads(s.heap)[(s.at + 1) \div 2] <= Loads(s.heap)[s.at + 1]
           Done(s) == \A k \in 2..n : k \div 2 = s.at + 1 => Loads(s.heap)[s.at + 1] <= Loads(s.heap)[k]
<1>1. m \in Nat /\ n \in Nat /\ i \in Nat /\ n \in 1..m /\ n \in 0..m /\ n # 0 /\ n <= m
  BY DEF HeapOf
<1> HIDE DEF m
<1>2. PICK t : DownTurns(F, h, i, n, t) /\ Down(h, i, n) = t[n].heap
  BY <1>1, DownRun DEF m
<1>3. /\ t[0] = [heap |-> h, at |-> i]
      /\ \A k \in Nat : t[k] \in LoopState(F, m, Nat) /\ t[k].at \in Nat /\ t[k + 1] = DownTurn(t[k], n)
  BY <1>2 DEF DownTurns, LoopState, m
<1>4. ASSUME NEW s \in LoopState(F, m, Nat), s.at \in Nat, Sound(s)
      PROVE  \/ DownTurn(s, n) = s /\ Done(s)
             \/ DownTurn(s, n).at > s.at /\ (DownTurn(s, n).at \in Nat => Sound(DownTurn(s, n)))
  <2>1. PICK r : r = DownTurn(s, n)
    OBVIOUS
  <2>2. \/ r = s /\ Done(s)
        \/ /\ r.at > s.at /\ r.at < n /\ OrderBut(Loads(r.heap), n, r.at + 1)
           /\ Loads(r.heap)[(r.at + 1) \div 2] <= Loads(r.heap)[r.at + 1]
    BY <1>1, <1>4, <2>1, DownTurnOrders
  <2>3. s.at >= i
    BY <1>1, <1>4
  <2>4. r.at \in Nat /\ r.at > s.at => r.at > i
    BY <1>1, <1>4, <2>3
  <2> QED
    BY <2>1, <2>2, <2>4
<1> HIDE DEF Sound, Done
<1> DEFINE P == {k \in Nat : Sound(t[k]) /\ (t[k].at >= i + k \/ t[k + 1] = t[k])}
<1>5. 0 \in P
  <2>1. t[0].heap = h /\ t[0].at = i
    BY <1>3
  <2>2. Sound(t[0])
    BY <1>1, <2>1 DEF Sound
  <2> QED
    BY <1>1, <2>1, <2>2
<1>6. ASSUME NEW k \in Nat, k \in P PROVE k + 1 \in P
  <2>1. t[k] \in LoopState(F, m, Nat) /\ t[k].at \in Nat /\ Sound(t[k]) /\ t[k + 1] = DownTurn(t[k], n)
        /\ k + 1 \in Nat /\ t[k + 1].at \in Nat /\ t[(k + 1) + 1] = DownTurn(t[k + 1], n)
    <3>1. k + 1 \in Nat /\ Sound(t[k])
      BY <1>6
    <3> QED
      BY <1>3, <3>1
  <2>2. CASE t[k + 1] = t[k]
    BY <2>1, <2>2
  <2>3. CASE t[k + 1] # t[k]
    <3>1. t[k + 1].at > t[k].at /\ Sound(t[k + 1])
      BY <1>4, <2>1, <2>3
    <3>2. t[k].at >= i + k
      BY <1>6, <2>3
    <3>3. t[k + 1].at >= i + (k + 1)
      BY <1>1, <2>1, <3>1, <3>2
    <3> QED
      BY <2>1, <3>1, <3>3
  <2> QED
    BY <2>2, <2>3
<1> HIDE DEF P
<1>7. Nat \subseteq P
  BY <1>5, <1>6, AllNat
<1>8. PICK s, v : s = t[n] /\ v = Loads(s.heap)
  OBVIOUS
<1>9. Sound(s) /\ (s.at >= i + n \/ t[n + 1] = s) /\ s \in LoopState(F, m, Nat) /\ s.at \in Nat
      /\ t[n + 1] = DownTurn(s, n)
  BY <1>1, <1>3, <1>7, <1>8 DEF P
<1>10. s.at < n
  BY <1>9 DEF Sound
<1>11. DownTurn(s, n) = s
  BY <1>1, <1>9, <1>10
<1>12. Done(s)
  <2>1. ~(DownTurn(s, n).at > s.at)
    BY <1>9, <1>11
  <2> QED
    BY <1>4, <1>9, <2>1
<1>13. v \in [1..m -> Int]
  BY <1>8, <1>9, LoadsFacts DEF LoopState
<1>14. /\ OrderBut(v, n, s.at + 1) /\ (\A k \in 2..n : k \div 2 = s.at + 1 => v[s.at + 1] <= v[k])
       /\ s.at # i => s.at > i /\ v[(s.at + 1) \div 2] <= v[s.at + 1]
  BY <1>8, <1>9, <1>12 DEF Sound, Done
<1>15. CASE s.at = i
  BY <1>1, <1>2, <1>8, <1>14, <1>15 DEF OrderBut, OrderUp
<1>16. CASE s.at # i
  <2>1. \A k \in 2..n : v[k \div 2] <= v[k]
    BY <1>14, <1>16 DEF OrderBut
  <2>2. ASSUME i + 1 >= 2, NEW k \in 2..n, k \div 2 = i + 1 PROVE v[(i + 1) \div 2] <= v[k]
    <3>1. i + 1 \in 2..n /\ i + 1 \in 1..m /\ (i + 1) \div 2 \in 1..m /\ k \in 1..m
      BY <1>1, <2>2
    <3>2. v[(i + 1) \div 2] <= v[i + 1] /\ v[i + 1] <= v[k]
      BY <2>1, <2>2, <3>1
    <3>3. v[(i + 1) \div 2] \in Int /\ v[i + 1] \in Int /\ v[k] \in Int
      BY <1>13, <3>1
    <3> QED
      BY <3>2, <3>3
  <2> QED
    BY <1>2, <1>8, <2>1, <2>2 DEF OrderUp
<1> QED
  BY <1>15, <1>16

\* Up puts that place in order too.
LEMMA UpOrders ==
  ASSUME NEW F, F \subseteq Worker, NEW h \in HeapOf(F), NEW n \in 1..Len(h.pool),
         NEW i \in 0..(n - 1), OrderUp(Loads(h), n, i + 1)
  PROVE  Order(Loads(Up(h, i)), n)
<1> DEFINE m == Len(h.pool)
           Sound(s) == OrderUp(Loads(s.heap), n, s.at + 1)
<1>1. m \in Nat /\ n \in Nat /\ i \in Nat /\ n \in 1..m /\ i \in 0..(m - 1) /\ n <= m /\ i < n
  BY DEF HeapOf
<1> HIDE DEF m
<1>2. PICK t : UpTurns(F, h, i, t) /\ Up(h, i) = t[i].heap
  BY <1>1, UpRun DEF m
<1>3. /\ t[0] = [heap |-> h, at |-> i]
      /\ \A k \in Nat : t[k] \in LoopState(F, m, 0..i) /\ t[k].at \in 0..i /\ t[k + 1] = UpTurn(t[k])
  BY <1>2 DEF UpTurns, LoopState, m
<1>4. ASSUME NEW s \in LoopState(F, m, 0..i), Sound(s)
      PROVE  /\ Sound(UpTurn(s))
             /\ \/ UpTurn(s).at < s.at
                \/ /\ UpTurn(s) = s
                   /\ s.at # 0 => Loads(s.heap)[(s.at + 1) \div 2] <= Loads(s.heap)[s.at + 1]
  <2>1. s \in LoopState(F, m, 0..(n - 1))
    BY <1>1 DEF LoopState
  <2> QED
    BY <1>1, <1>4, <2>1, UpTurnOrders
<1>s. ASSUME NEW s PROVE Sound(s) <=> OrderUp(Loads(s.heap), n, s.at + 1)
  OBVIOUS
<1> HIDE DEF Sound
<1> DEFINE P == {k \in Nat : Sound(t[k]) /\ (t[k].at + k <= i \/ t[k + 1] = t[k])}
<1>5. 0 \in P
  <2>1. t[0].heap = h /\ t[0].at = i
    BY <1>3
  <2>2. Sound(t[0])
    BY <2>1, <1>s
  <2> QED
    BY <1>1, <2>1, <2>2
<1>6. ASSUME NEW k \in Nat, k \in P PROVE k + 1 \in P
  <2>1. t[k] \in LoopState(F, m, 0..i) /\ t[k].at \in 0..i /\ Sound(t[k]) /\ t[k + 1] = UpTurn(t[k])
        /\ k + 1 \in Nat /\ t[k + 1].at \in 0..i /\ t[(k + 1) + 1] = UpTurn(t[k + 1])
    BY <1>3, <1>6
  <2>2. CASE t[k + 1] = t[k]
    BY <2>1, <2>2
  <2>3. CASE t[k + 1] # t[k]
    <3>1. t[k + 1].at < t[k].at /\ Sound(t[k + 1])
      BY <1>4, <2>1, <2>3
    <3>2. t[k].at + k <= i
      BY <1>6, <2>3
    <3>3. t[k + 1].at + (k + 1) <= i
      BY <1>1, <2>1, <3>1, <3>2
    <3> QED
      BY <2>1, <3>1, <3>3
  <2> QED
    BY <2>2, <2>3
<1> HIDE DEF P
<1>7. Nat \subseteq P
  BY <1>5, <1>6, AllNat
<1>8. PICK s, v : s = t[i] /\ v = Loads(s.heap)
  OBVIOUS
<1>9. Sound(s) /\ (s.at + i <= i \/ t[i + 1] = s) /\ s \in LoopState(F, m, 0..i) /\ s.at \in 0..i
      /\ t[i + 1] = UpTurn(s)
  BY <1>1, <1>3, <1>7, <1>8 DEF P
<1>10. OrderUp(v, n, s.at + 1)
  BY <1>8, <1>9, <1>s
<1>11. s.at # 0 => v[(s.at + 1) \div 2] <= v[s.at + 1]
  <2>1. ASSUME s.at # 0 PROVE UpTurn(s) = s
    BY <1>1, <1>9, <2>1
  <2>2. ASSUME UpTurn(s) = s PROVE ~(UpTurn(s).at < s.at)
    BY <1>1, <1>9, <2>2
  <2> QED
    BY <1>4, <1>8, <1>9, <2>1, <2>2
<1>12. ASSUME NEW k \in 2..n PROVE v[k \div 2] <= v[k]
  <2>1. CASE k = s.at + 1
    <3>1. s.at # 0
      BY <1>1, <1>9, <2>1
    <3> QED
      BY <1>11, <2>1, <3>1
  <2>2. CASE k # s.at + 1
    BY <1>10, <2>2 DEF OrderUp
  <2> QED
    BY <2>1, <2>2
<1> QED
  BY <1>2, <1>8, <1>12 DEF Order

\* Pop takes the last place away, and no load changes.
LEMMA PopOrders ==
  ASSUME NEW F, F \subseteq Worker, NEW h \in HeapOf(F), Len(h.pool) # 0,
         Order(Loads(h), Len(h.pool) - 1)
  PROVE  Order(Loads(Pop(h)), Len(Pop(h).pool)) /\ Pop(h).load = h.load
<1> DEFINE n == Len(h.pool) - 1
           p == SubSeq(h.pool, 1, n)
<1>1. n \in Nat /\ n + 1 = Len(h.pool) /\ h.pool \in Seq(F) /\ Order(Loads(h), n)
  BY DEF HeapOf
<1>2. \A k \in 1..(n + 1) : h.pool[k] \in F
  BY <1>1, ElementOfSeq
<1>3. Pop(h).pool = p /\ Pop(h).load = h.load
  BY DEF Pop
<1> HIDE DEF n
<1>4. Len(p) = n /\ \A k \in 1..n : p[k] = h.pool[k]
  <2>1. /\ Len(SubSeq(h.pool, 1, n)) = IF 1 <= n THEN n - 1 + 1 ELSE 0
        /\ \A k \in 1..(n - 1 + 1) : SubSeq(h.pool, 1, n)[k] = h.pool[1 + k - 1]
    <3>1. 1 \in Int /\ n \in Int /\ \A k \in 1..n : h.pool[k] \in F
      BY <1>1, <1>2
    <3> QED
      BY <1>1, <3>1, SubSeqProperties
  <2> QED
    BY <1>1, <2>1
<1> HIDE DEF p
<1>5. \A k \in 1..n : Loads(Pop(h))[k] = Loads(h)[k]
  <2>1. Loads(Pop(h)) = [k \in 1..n |-> h.load[p[k]]]
    BY <1>3, <1>4 DEF Loads
  <2>2. Loads(h) = [k \in 1..(n + 1) |-> h.load[h.pool[k]]]
    BY <1>1 DEF Loads
  <2>3. \A k \in 1..n : k \in 1..(n + 1)
    BY <1>1
  <2> QED
    BY <1>4, <2>1, <2>2, <2>3
<1>6. \A k \in 2..n : k \in 1..n /\ k \div 2 \in 1..n
  BY <1>1
<1>7. Order(Loads(Pop(h)), n)
  BY <1>1, <1>5, <1>6 DEF Order
<1> QED
  BY <1>3, <1>4, <1>7

\* heap.Pop leaves a heap.
LEMMA HeapPopOrders ==
  ASSUME NEW F, F \subseteq Worker, NEW h \in HeapOf(F), Len(h.pool) # 0,
         Order(Loads(h), Len(h.pool))
  PROVE  Order(Loads(HeapPop(h)), Len(HeapPop(h).pool)) /\ HeapPop(h).load = h.load
<1>1. PICK n, s, d, v, u : /\ n = Len(h.pool) - 1 /\ s = Swap(h, 0, n) /\ d = Down(s, 0, n)
                           /\ v = Loads(h) /\ u = Loads(s)
  OBVIOUS
<1>2. n \in Nat /\ n + 1 = Len(h.pool) /\ n + 1 \in 0..Len(h.pool) /\ 0 \in 0..((n + 1) - 1) /\ n \in 0..((n + 1) - 1)
      /\ 0 \in 0..(Len(h.pool) - 1) /\ n \in 0..(Len(h.pool) - 1) /\ n \in 0..(n + 1) /\ 0 + 1 = 1 /\ 0 \in Nat
  BY <1>1 DEF HeapOf
<1>3. HeapPop(h) = Pop(d)
  BY <1>1 DEF HeapPop
<1>4. s \in HeapOf(F) /\ Shuffled(h, s, n + 1)
  BY <1>1, <1>2, SwapShuffles
<1>5. Len(s.pool) = n + 1 /\ s.load = h.load
  BY <1>2, <1>4 DEF Shuffled
<1>6. d \in HeapOf(F) /\ Len(d.pool) = n + 1 /\ d.load = h.load
  BY <1>1, <1>2, <1>4, <1>5, DownShuffles DEF Shuffled
<1>7. Order(Loads(d), n)
  <2>1. CASE n = 0
    <3>1. 2..n = {}
      BY <2>1
    <3> QED
      BY <3>1 DEF Order
  <2>2. CASE n # 0
    <3>1. Exchanged(v, u, n + 1, 1, n + 1)
      BY <1>1, <1>2, SwapLoads
    <3>2. OrderBut(u, n, 1)
      <4> SUFFICES ASSUME NEW k \in 2..n, k # 1, k \div 2 # 1 PROVE u[k \div 2] <= u[k]
        BY DEF OrderBut
      <4>1. k \in 1..(n + 1) /\ k \div 2 \in 1..(n + 1) /\ k # n + 1 /\ k \div 2 # n + 1 /\ k \in 2..(n + 1)
        BY <1>2
      <4>2. u[k] = v[k] /\ u[k \div 2] = v[k \div 2]
        BY <3>1, <4>1 DEF Exchanged
      <4>3. v[k \div 2] <= v[k]
        BY <1>1, <1>2, <4>1 DEF Order
      <4> QED
        BY <4>2, <4>3
    <3>3. n \in 1..Len(s.pool) /\ 0 \in 0..(n - 1) /\ OrderBut(Loads(s), n, 0 + 1)
      <4>1. n \in 1..Len(s.pool) /\ 0 \in 0..(n - 1)
        BY <1>2, <1>5, <2>2
      <4>2. OrderBut(Loads(s), n, 0 + 1)
        BY <1>1, <1>2, <3>2
      <4> QED
        BY <4>1, <4>2
    <3>4. OrderUp(Loads(d), n, 0 + 1)
      BY <1>1, <1>4, <3>3, DownOrders
    <3>5. \A k \in 2..n : k # 0 + 1
      OBVIOUS
    <3> QED
      BY <3>4, <3>5 DEF OrderUp, Order
  <2> QED
    BY <2>1, <2>2
<1>8. Order(Loads(d), Len(d.pool) - 1) /\ Len(d.pool) # 0
  BY <1>2, <1>6, <1>7
<1> QED
  BY <1>3, <1>6, <1>8, PopOrders

\* heap.Remove leaves a heap, wherever the load at place i has moved to.
LEMMA HeapRemoveOrders ==
  ASSUME NEW F, F \subseteq Worker, NEW h \in HeapOf(F), NEW i \in 0..(Len(h.pool) - 1),
         OrderBut(Loads(h), Len(h.pool), i + 1)
  PROVE  Order(Loads(HeapRemove(h, i)), Len(HeapRemove(h, i).pool)) /\ HeapRemove(h, i).load = h.load
<1>1. PICK n, s, d, g, v, u : /\ n = Len(h.pool) - 1 /\ s = Swap(h, i, n) /\ d = Down(s, i, n)
                              /\ g = Up(d, i) /\ v = Loads(h) /\ u = Loads(s)
  OBVIOUS
<1>2. n \in Nat /\ n + 1 = Len(h.pool) /\ n + 1 \in 0..Len(h.pool) /\ i \in 0..((n + 1) - 1) /\ n \in 0..((n + 1) - 1)
      /\ n \in 0..(Len(h.pool) - 1) /\ i \in Nat /\ n \in 0..(n + 1) /\ Len(h.pool) # 0 /\ i <= n
  BY <1>1 DEF HeapOf
<1>3. HeapRemove(h, i) = IF i = n THEN Pop(h) ELSE Pop(g)
  BY <1>1 DEF HeapRemove
<1>4. OrderBut(v, n + 1, i + 1)
  BY <1>1, <1>2
<1>5. CASE i = n
  <2>1. ASSUME NEW k \in 2..n PROVE v[k \div 2] <= v[k]
    <3>1. k \in 2..(n + 1) /\ k # i + 1 /\ k \div 2 # i + 1
      BY <1>2, <1>5
    <3> QED
      BY <1>4, <3>1 DEF OrderBut
  <2>2. Order(Loads(h), Len(h.pool) - 1)
    BY <1>1, <2>1 DEF Order
  <2> QED
    BY <1>2, <1>3, <1>5, <2>2, PopOrders
<1>6. CASE i # n
  <2>1. s \in HeapOf(F) /\ Shuffled(h, s, n + 1)
    BY <1>1, <1>2, SwapShuffles
  <2>2. Len(s.pool) = n + 1 /\ s.load = h.load
    BY <1>2, <2>1 DEF Shuffled
  <2>3. d \in HeapOf(F) /\ Len(d.pool) = n + 1 /\ d.load = h.load
    BY <1>1, <1>2, <2>1, <2>2, DownShuffles DEF Shuffled
  <2>4. i \in 0..(Len(d.pool) - 1) /\ n \in 1..Len(s.pool) /\ n \in 1..Len(d.pool) /\ i \in 0..(n - 1)
    BY <1>2, <1>6, <2>2, <2>3
  <2>5. g \in HeapOf(F) /\ Len(g.pool) = n + 1 /\ g.load = h.load
    BY <1>1, <2>3, <2>4, UpShuffles DEF Shuffled
  <2>6. Exchanged(v, u, n + 1, i + 1, n + 1)
    BY <1>1, <1>2, SwapLoads
  <2>7. ASSUME NEW k \in 2..n, k # i + 1, k \div 2 # i + 1 PROVE u[k \div 2] <= u[k]
    <3>1. k \in 1..(n + 1) /\ k \div 2 \in 1..(n + 1) /\ k # n + 1 /\ k \div 2 # n + 1 /\ k \in 2..(n + 1)
      BY <1>2
    <3>2. u[k] = v[k] /\ u[k \div 2] = v[k \div 2]
      BY <2>6, <2>7, <3>1 DEF Exchanged
    <3> QED
      BY <1>4, <2>7, <3>1, <3>2 DEF OrderBut
  <2>8. ASSUME i + 1 >= 2, NEW k \in 2..n, k \div 2 = i + 1 PROVE u[(i + 1) \div 2] <= u[k]
    <3>1. k \in 1..(n + 1) /\ k # n + 1 /\ k # i + 1 /\ k \in 2..(n + 1)
          /\ (i + 1) \div 2 \in 1..(n + 1) /\ (i + 1) \div 2 # n + 1 /\ (i + 1) \div 2 # i + 1
      BY <1>2, <2>8
    <3>2. u[k] = v[k] /\ u[(i + 1) \div 2] = v[(i + 1) \div 2]
      BY <2>6, <3>1 DEF Exchanged
    <3> QED
      BY <1>4, <2>8, <3>1, <3>2 DEF OrderBut
  <2>9. OrderBut(Loads(s), n, i + 1)
    BY <1>1, <2>7, <2>8 DEF OrderBut
  <2>10. OrderUp(Loads(d), n, i + 1)
    BY <1>1, <2>1, <2>4, <2>9, DownOrders
  <2>11. Order(Loads(g), n)
    BY <1>1, <2>3, <2>4, <2>10, UpOrders
  <2>12. Order(Loads(g), Len(g.pool) - 1) /\ Len(g.pool) # 0
    BY <1>2, <2>5, <2>11
  <2> QED
    BY <1>3, <1>6, <2>5, <2>12, PopOrders
<1> QED
  BY <1>5, <1>6

\* heap.Push leaves a heap.
LEMMA HeapPushOrders ==
  ASSUME NEW F, F \subseteq Worker, NEW h \in HeapOf(F), NEW w \in F,
         Order(Loads(h), Len(h.pool))
  PROVE  Order(Loads(HeapPush(h, w)), Len(HeapPush(h, w).pool)) /\ HeapPush(h, w).load = h.load
<1>1. PICK L, g, v, u : L = Len(h.pool) /\ g = Push(h, w) /\ v = Loads(h) /\ u = Loads(g)
  OBVIOUS
<1>2. L \in Nat /\ h.pool \in Seq(F) /\ h.index \in [Worker -> Int] /\ h.load \in [Worker -> Int] /\ L + 1 \in Nat
  BY <1>1 DEF HeapOf
<1>3. g.pool = Append(h.pool, w) /\ g.load = h.load /\ g.index = [h.index EXCEPT ![w] = L]
      /\ g = [pool |-> g.pool, index |-> g.index, load |-> g.load]
  BY <1>1 DEF Push
<1>4. g.pool \in Seq(F) /\ Len(g.pool) = L + 1 /\ \A k \in 1..L : g.pool[k] = h.pool[k]
  BY <1>1, <1>2, <1>3, AppendProperties
<1>5. g \in HeapOf(F)
  <2>1. g.index \in [Worker -> Int]
    BY <1>2, <1>3
  <2> QED
    BY <1>2, <1>3, <1>4, <2>1 DEF HeapOf
<1>6. HeapPush(h, w) = Up(g, L)
  BY <1>1 DEF HeapPush
<1>7. \A k \in 1..L : u[k] = v[k]
  <2>1. u = [k \in 1..(L + 1) |-> h.load[g.pool[k]]] /\ v = [k \in 1..L |-> h.load[h.pool[k]]]
    BY <1>1, <1>3, <1>4 DEF Loads
  <2>2. \A k \in 1..L : k \in 1..(L + 1)
    BY <1>2
  <2> QED
    BY <1>4, <2>1, <2>2
<1>8. OrderUp(u, L + 1, L + 1)
  <2>1. ASSUME NEW k \in 2..(L + 1), k # L + 1 PROVE u[k \div 2] <= u[k]
    <3>1. k \in 2..L /\ k \in 1..L /\ k \div 2 \in 1..L
      BY <1>2, <2>1
    <3>2. v[k \div 2] <= v[k]
      BY <1>1, <3>1 DEF Order
    <3> QED
      BY <1>7, <3>1, <3>2
  <2>2. \A k \in 2..(L + 1) : k \div 2 # L + 1
    BY <1>2
  <2> QED
    BY <2>1, <2>2 DEF OrderUp
<1>9. L + 1 \in 1..Len(g.pool) /\ L \in 0..((L + 1) - 1) /\ L \in 0..(Len(g.pool) - 1)
  BY <1>2, <1>4
<1>10. Order(Loads(Up(g, L)), L + 1)
  BY <1>1, <1>5, <1>8, <1>9, UpOrders
<1>11. Len(Up(g, L).pool) = L + 1 /\ Up(g, L).load = h.load
  BY <1>3, <1>4, <1>5, <1>9, UpShuffles DEF Shuffled
<1> QED
  BY <1>6, <1>10, <1>11
-----------------------------------------------------------------------------
\* The loads of the workers in the pool, in terms of Loads.
LEMMA OrderedIs ==
  ASSUME HTypeOK
  PROVE  /\ Len(pool) \in Nat /\ DOMAIN pool = 1..Len(pool)
         /\ Loads(Heap(pending)) = [k \in 1..Len(pool) |-> pending[pool[k]]]
         /\ Ordered <=> Order(Loads(Heap(pending)), Len(pool))
<1>1. Len(pool) \in Nat /\ DOMAIN pool = 1..Len(pool)
  BY DEF HTypeOK
<1>2. PICK v : v = [k \in 1..Len(pool) |-> pending[pool[k]]]
  OBVIOUS
<1>3. Loads(Heap(pending)) = v
  BY <1>2 DEF Loads, Heap
<1>4. \A k \in 1..Len(pool) : k > 1 <=> k \in 2..Len(pool)
  BY <1>1
<1>5. \A k \in 2..Len(pool) : k \in 1..Len(pool) /\ k \div 2 \in 1..Len(pool)
  BY <1>1
<1>6. \A k \in 2..Len(pool) : v[k] = pending[pool[k]] /\ v[k \div 2] = pending[pool[k \div 2]]
  BY <1>2, <1>5
<1>7. Ordered <=> \A k \in 2..Len(pool) : pending[pool[k \div 2]] <= pending[pool[k]]
  BY <1>1, <1>4, <1>5 DEF Ordered
<1> QED
  BY <1>1, <1>2, <1>3, <1>6, <1>7 DEF Order

\* The same after a step that leaves a heap g in the pool.
LEMMA OrderedAfter ==
  ASSUME HTypeOK', NEW g, pool' = g.pool, g.load = pending', Order(Loads(g), Len(g.pool))
  PROVE  Ordered'
<1>1. Len(pool') \in Nat /\ DOMAIN pool' = 1..Len(pool')
  BY DEF HTypeOK
<1>2. ASSUME NEW k \in DOMAIN pool', k > 1
      PROVE  pending'[pool'[k \div 2]] <= pending'[pool'[k]]
  <2>1. k \in 2..Len(pool') /\ k \in 1..Len(pool') /\ k \div 2 \in 1..Len(pool')
    BY <1>1, <1>2
  <2>2. Loads(g) = [j \in 1..Len(pool') |-> pending'[pool'[j]]]
    BY DEF Loads
  <2>3. Loads(g)[k \div 2] <= Loads(g)[k]
    BY <2>1 DEF Order
  <2> QED
    BY <2>1, <2>2, <2>3
<1> QED
  BY <1>2 DEF Ordered

\* Until a worker is lost the pool is ordered by load.
HeapOrdered == HInv /\ (Lost = {} => Ordered)

\* main starts every worker with nothing to do.
LEMMA HInitOrdered == HInit => HeapOrdered
<1> SUFFICES ASSUME HInit PROVE HeapOrdered
  OBVIOUS
<1>1. HInv
  BY HInitInv
<1>2. pending = [w \in Worker |-> 0] /\ fleet \subseteq Worker
  BY <1>1, FleetFacts DEF HInit, Init, HInv
<1>3. \A k \in DOMAIN pool : pool[k] \in Worker
  BY <1>1, <1>2, ElementOfSeq, LenProperties DEF HInv, HTypeOK
<1>4. ASSUME NEW k \in DOMAIN pool, k > 1 PROVE pending[pool[k \div 2]] <= pending[pool[k]]
  <2>1. k \div 2 \in DOMAIN pool
    <3>1. DOMAIN pool = 1..Len(pool) /\ Len(pool) \in Nat
      BY <1>1 DEF HInv, HTypeOK
    <3> QED
      BY <1>4, <3>1
  <2>2. pending[pool[k \div 2]] = 0 /\ pending[pool[k]] = 0
    BY <1>2, <1>3, <2>1
  <2> QED
    BY <2>2
<1> QED
  BY <1>1, <1>4 DEF HeapOrdered, Ordered

\* dispatch pops the top.
LEMMA HAcceptOrdered ==
  ASSUME HeapOrdered, HInv', Lost \subseteq Lost', ~panicked, NEW r \in Requester, HAccept(r)
  PROVE  Lost' = {} => Ordered'
<1> SUFFICES ASSUME Lost' = {} PROVE Ordered'
  OBVIOUS
<1>1. HTypeOK /\ HTypeOK' /\ PoolSize /\ Lost = {} /\ Ordered
  BY DEF HeapOrdered, HInv
<1>2. PICK h : h = Heap(pending)
  OBVIOUS
<1>3. fleet \subseteq Worker /\ h \in HeapOf(fleet) /\ h.pool = pool /\ h.load = pending
      /\ Cardinality(fleet) \in Nat \ {0}
  BY <1>1, <1>2, FleetFacts DEF Heap
<1>4. pool' = HeapPop(h).pool /\ pending' = pending /\ held = None
  BY <1>2 DEF HAccept, Accept, Become, Selecting
<1>5. Len(h.pool) # 0
  BY <1>1, <1>3, <1>4 DEF PoolSize, Selecting
<1>6. Order(Loads(h), Len(h.pool))
  BY <1>1, <1>2, <1>3, OrderedIs
<1>7. Order(Loads(HeapPop(h)), Len(HeapPop(h).pool)) /\ HeapPop(h).load = pending
  BY <1>3, <1>5, <1>6, HeapPopOrders
<1> QED
  BY <1>1, <1>4, <1>7, OrderedAfter

\* Enqueue changes the load of a worker that is not in the pool.
LEMMA HEnqueueOrdered ==
  ASSUME HeapOrdered, HInv', Lost \subseteq Lost', ~panicked, NEW w \in fleet, HEnqueue(w)
  PROVE  Lost' = {} => Ordered'
<1> SUFFICES ASSUME Lost' = {} PROVE Ordered'
  OBVIOUS
<1>1. HTypeOK /\ HTypeOK' /\ RightUntilLoss /\ Lost = {} /\ Ordered /\ fleet \subseteq Worker
  BY FleetFacts DEF HeapOrdered, HInv
<1>2. PICK h : h = Heap(pending')
  OBVIOUS
<1>3. /\ target = w /\ pool' = HeapPush(h, w).pool /\ pending' = [pending EXCEPT ![w] = @ + 1]
      /\ h.pool = pool /\ h.load = pending' /\ pending' \in [Worker -> Int]
  BY <1>1, <1>2 DEF HEnqueue, Enqueue, Become, Heap, HTypeOK
<1>4. h \in HeapOf(fleet)
  BY <1>1, <1>2, <1>3 DEF HeapOf, Heap, HTypeOK
<1>5. Len(pool) \in Nat /\ DOMAIN pool = 1..Len(pool)
      /\ Loads(Heap(pending)) = [k \in 1..Len(pool) |-> pending[pool[k]]]
      /\ Order(Loads(Heap(pending)), Len(pool))
  BY <1>1, OrderedIs
<1>6. \A k \in 1..Len(pool) : pool[k] \in Worker /\ pool[k] # w
  <2>1. ~InPool(w)
    BY <1>1, <1>3 DEF RightUntilLoss
  <2>2. \A k \in 1..Len(pool) : pool[k] \in Worker
    BY <1>1, <1>5, ElementOfSeq DEF HTypeOK
  <2> QED
    BY <1>5, <2>1, <2>2 DEF InPool
<1>7. Loads(h) = Loads(Heap(pending))
  <2>1. Loads(h) = [k \in 1..Len(pool) |-> pending'[pool[k]]]
    BY <1>3 DEF Loads
  <2>2. \A k \in 1..Len(pool) : pending'[pool[k]] = pending[pool[k]]
    BY <1>1, <1>3, <1>6 DEF HTypeOK
  <2> QED
    BY <1>5, <2>1, <2>2
<1>8. Order(Loads(h), Len(h.pool))
  BY <1>3, <1>5, <1>7
<1>9. Order(Loads(HeapPush(h, w)), Len(HeapPush(h, w).pool)) /\ HeapPush(h, w).load = pending'
  BY <1>1, <1>3, <1>4, <1>8, HeapPushOrders
<1> QED
  BY <1>1, <1>3, <1>9, OrderedAfter

\* completed(w) changes the load of w, and removes and pushes it: when no
\* worker has been lost, w is who its index names.
LEMMA HCompletedOrdered ==
  ASSUME HeapOrdered, HInv', Lost \subseteq Lost', ~panicked, NEW w \in fleet, HCompleted(w)
  PROVE  Lost' = {} => Ordered'
<1> SUFFICES ASSUME Lost' = {} PROVE Ordered'
  OBVIOUS
<1>1. HTypeOK /\ HTypeOK' /\ RightUntilLoss /\ Lost = {} /\ Ordered /\ fleet \subseteq Worker /\ None \notin fleet
  BY FleetFacts DEF HeapOrdered, HInv
<1>2. PICK h, i, g, f, x : /\ h = Heap(pending') /\ i = index[w] /\ g = HeapRemove(h, i)
                           /\ f = HeapPush(g, w) /\ x = h.pool[i + 1]
  OBVIOUS
<1>3. /\ pool' = f.pool /\ pending' = [pending EXCEPT ![w] = @ - 1] /\ i \in 0..(Len(pool) - 1)
      /\ h.pool = pool /\ h.load = pending' /\ pending' \in [Worker -> Int] /\ w \in Worker
      /\ pending \in [Worker -> Int] /\ target' = None /\ fleet' = fleet
  BY <1>1, <1>2 DEF HCompleted, Completed, Become, Heap, HTypeOK, Selecting, InRange
<1>4. h \in HeapOf(fleet)
  BY <1>1, <1>2, <1>3 DEF HeapOf, Heap, HTypeOK
<1>5. PICK L, u, v : L = Len(pool) /\ u = Loads(Heap(pending)) /\ v = Loads(h)
  OBVIOUS
<1>6. L \in Nat /\ DOMAIN pool = 1..L /\ u = [k \in 1..L |-> pending[pool[k]]] /\ Order(u, L)
  BY <1>1, <1>5, OrderedIs
<1>7. g \in HeapOf(fleet) /\ Removed(h, g, x)
  BY <1>1, <1>2, <1>3, <1>4, HeapRemoveRemoves
<1>8. f \in HeapOf(fleet) /\ Added(g, f, w)
  BY <1>1, <1>2, <1>7, HeapPushAdds
<1>9. Distinct(pool)
  BY <1>1 DEF RightUntilLoss, Distinct
<1>10. x = w
  <2>1. ~Has(g.pool, x)
    BY <1>3, <1>7, <1>9 DEF Removed
  <2>2. x \in fleet
    <3>1. i + 1 \in 1..L
      BY <1>3, <1>5, <1>6
    <3> QED
      BY <1>1, <1>2, <1>3, <1>5, <3>1, ElementOfSeq DEF HTypeOK
  <2>3. Has(pool', x)
    BY <1>1, <1>3, <2>2, LostIsPrime
  <2> QED
    BY <1>3, <1>8, <2>1, <2>3 DEF Added
<1>11. OrderBut(v, L, i + 1)
  <2>1. i + 1 \in 1..L /\ pool[i + 1] = w
    BY <1>2, <1>3, <1>5, <1>6, <1>10
  <2>2. \A k \in 1..L : pool[k] \in Worker /\ (k # i + 1 => pool[k] # w)
    <3>1. \A k \in 1..L : pool[k] \in fleet
      BY <1>1, <1>5, ElementOfSeq DEF HTypeOK
    <3> QED
      BY <1>1, <1>6, <1>9, <2>1, <3>1 DEF Distinct
  <2>3. v = [k \in 1..L |-> pending'[pool[k]]]
    BY <1>3, <1>5 DEF Loads
  <2>4. \A k \in 1..L : k # i + 1 => v[k] = u[k]
    BY <1>3, <1>6, <2>2, <2>3
  <2>5. \A k \in 1..L : u[k] \in Int
    BY <1>3, <1>6, <2>2
  <2>6. ASSUME NEW k \in 2..L, k # i + 1, k \div 2 # i + 1 PROVE v[k \div 2] <= v[k]
    <3>1. k \in 1..L /\ k \div 2 \in 1..L
      BY <1>6
    <3>2. u[k \div 2] <= u[k]
      BY <1>6 DEF Order
    <3> QED
      BY <2>4, <2>6, <3>1, <3>2
  <2>7. ASSUME i + 1 >= 2, NEW k \in 2..L, k \div 2 = i + 1 PROVE v[(i + 1) \div 2] <= v[k]
    <3>1. k \in 1..L /\ k # i + 1 /\ i + 1 \in 2..L /\ (i + 1) \div 2 \in 1..L /\ (i + 1) \div 2 # i + 1
      BY <1>6, <2>1, <2>7
    <3>2. u[(i + 1) \div 2] <= u[i + 1] /\ u[i + 1] <= u[k]
      BY <1>6, <2>7, <3>1 DEF Order
    <3>3. u[(i + 1) \div 2] \in Int /\ u[i + 1] \in Int /\ u[k] \in Int
      BY <2>1, <2>5, <3>1
    <3>4. v[(i + 1) \div 2] = u[(i + 1) \div 2] /\ v[k] = u[k]
      BY <2>4, <3>1
    <3> QED
      BY <3>2, <3>3, <3>4
  <2> QED
    BY <2>6, <2>7 DEF OrderBut
<1>12. Order(Loads(g), Len(g.pool)) /\ g.load = pending'
  BY <1>1, <1>2, <1>3, <1>4, <1>5, <1>11, HeapRemoveOrders
<1>13. Order(Loads(f), Len(f.pool)) /\ f.load = pending'
  BY <1>1, <1>2, <1>7, <1>12, HeapPushOrders
<1> QED
  BY <1>1, <1>3, <1>13, OrderedAfter

\* The other steps change neither the pool nor a load.
LEMMA HNextOrdered == HeapOrdered /\ [HNext]_hvars => HeapOrdered'
<1> SUFFICES ASSUME HeapOrdered, [HNext]_hvars PROVE HeapOrdered'
  OBVIOUS
<1>1. HInv' /\ Lost \subseteq Lost'
  BY HNextInv DEF HeapOrdered
<1>2. ASSUME ~panicked, NEW r \in Requester, HAccept(r) PROVE Lost' = {} => Ordered'
  BY <1>1, <1>2, HAcceptOrdered
<1>3. ASSUME ~panicked, NEW w \in fleet, HEnqueue(w) PROVE Lost' = {} => Ordered'
  BY <1>1, <1>3, HEnqueueOrdered
<1>4. ASSUME ~panicked, NEW w \in fleet, HCompleted(w) PROVE Lost' = {} => Ordered'
  BY <1>1, <1>4, HCompletedOrdered
<1>5. ASSUME UNCHANGED <<pool, pending>> PROVE Lost' = {} => Ordered'
  BY <1>1, <1>5 DEF HeapOrdered, Ordered
<1>6. ASSUME NEW w \in fleet, HWorker(w) \/ HCompletedPanics(w) PROVE UNCHANGED <<pool, pending>>
  BY <1>6 DEF HWorker, Take, Reply, HCompletedPanics, vars
<1>7. ASSUME HStopped \/ UNCHANGED hvars PROVE UNCHANGED <<pool, pending>>
  BY <1>7 DEF HStopped, hvars, vars
<1> QED
  BY <1>1, <1>2, <1>3, <1>4, <1>5, <1>6, <1>7 DEF HNext, HeapOrdered

\* The top of a heap has the least load.
LEMMA TopIsLeast ==
  ASSUME NEW L \in Nat, NEW v \in [1..L -> Int], Order(v, L), NEW j \in 1..L
  PROVE  v[1] <= v[j]
<1> DEFINE T == {k \in 1..L : v[k] < v[1]}
<1>1. T = {}
  <2> SUFFICES ASSUME T # {} PROVE FALSE
    OBVIOUS
  <2>1. T \subseteq Nat
    OBVIOUS
  <2>2. PICK k \in T : \A m \in T : k <= m
    BY <2>1, LeastNat
  <2>3. k \in 1..L /\ v[k] < v[1] /\ 1 \in 1..L
    OBVIOUS
  <2>4. v[k] \in Int /\ v[1] \in Int /\ k # 1
    BY <2>3
  <2>5. k \in 2..L /\ k \div 2 \in 1..L /\ k \div 2 < k
    BY <2>3, <2>4
  <2>6. v[k \div 2] <= v[k] /\ v[k \div 2] \in Int
    BY <2>5 DEF Order
  <2>7. k \div 2 \in T
    BY <2>3, <2>4, <2>5, <2>6
  <2> QED
    BY <2>2, <2>5, <2>7
<1>2. 1 \in 1..L /\ v[1] \in Int /\ v[j] \in Int
  OBVIOUS
<1> QED
  BY <1>1, <1>2

\* For every fleet and any order of requests and answers: as long as no
\* worker is lost, the pool is a heap by the loads as they are now, and
\* dispatch takes a worker none has less to do than.
THEOREM DispatchLeastLoaded == HSpec => []LeastLoaded
<1>1. HSpec => []HeapOrdered
  BY HInitOrdered, HNextOrdered, PTL DEF HSpec
<1>2. HeapOrdered => LeastLoaded
  <2> SUFFICES ASSUME HeapOrdered, Lost = {}
               PROVE  Ordered /\ (Selecting => \A w \in fleet : pending[pool[1]] <= pending[w])
    BY DEF LeastLoaded
  <2>1. HTypeOK /\ Ordered /\ fleet \subseteq Worker /\ None \notin fleet
    BY FleetFacts DEF HeapOrdered, HInv
  <2>2. PICK L, v : L = Len(pool) /\ v = [k \in 1..L |-> pending[pool[k]]]
    OBVIOUS
  <2>3. L \in Nat /\ DOMAIN pool = 1..L /\ Order(v, L)
    BY <2>1, <2>2, OrderedIs
  <2>4. v \in [1..L -> Int]
    <3>1. \A k \in 1..L : pool[k] \in Worker
      BY <2>1, <2>2, ElementOfSeq DEF HTypeOK
    <3>2. pending \in [Worker -> Int]
      BY <2>1 DEF HTypeOK
    <3> QED
      BY <2>2, <3>1, <3>2
  <2>5. ASSUME Selecting, NEW w \in fleet PROVE pending[pool[1]] <= pending[w]
    <3>1. target = None
      BY <2>1, <2>5 DEF HTypeOK, Selecting
    <3>2. PICK j \in 1..L : pool[j] = w
      BY <2>1, <2>3, <3>1 DEF Lost, InPool
    <3>3. v[1] <= v[j] /\ 1 \in 1..L
      BY <2>3, <2>4, TopIsLeast
    <3> QED
      BY <2>2, <3>2, <3>3
  <2> QED
    BY <2>1, <2>5
<1> QED
  BY <1>1, <1>2, PTL
=============================================================================
