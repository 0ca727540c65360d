---------------------------- MODULE HeapBalancer ----------------------------
(***************************************************************************)
(* load-balancer.go with its pool: the balancer of module LoadBalancer     *)
(* takes the worker from a heap ordered by pending, and finds a worker     *)
(* that reports on `done` by the index the worker carries.                 *)
(*                                                                         *)
(* A heap h is the pool (a sequence; place i of the Go slice is position   *)
(* i + 1), the index field of every worker, and the load Less compares.    *)
(* Down, Up, HeapPop, HeapPush and HeapRemove are container/heap's, which  *)
(* changes the pool through Pool's methods Swap, Push and Pop.             *)
(***************************************************************************)
EXTENDS LoadBalancer

CONSTANT Fleets                  \* the sets of workers main may start; it
                                 \* starts one worker

ASSUME FleetsAssumption == \A F \in Fleets : F # {} /\ F \subseteq Worker /\ IsFiniteSet(F)

VARIABLES fleet,                 \* the workers started, constant in a run
          pool, index,           \* Balancer.pool and Worker.index
          panicked               \* a slice was indexed out of range

hvars == <<vars, fleet, pool, index, panicked>>

Less(h, i, j) == h.load[h.pool[i + 1]] < h.load[h.pool[j + 1]]

\* Pool.Swap, which leaves each of the two workers with the index of the
\* place it has just left.
Swap(h, i, j) ==
  LET p == [h.pool EXCEPT ![i + 1] = h.pool[j + 1], ![j + 1] = h.pool[i + 1]]
  IN  [pool  |-> p,
       index |-> [[h.index EXCEPT ![p[i + 1]] = j] EXCEPT ![p[j + 1]] = i],
       load  |-> h.load]

\* Faulty variant: Push leaves the index at the -1 Pop has set.
PushNoIndex(h, w) == [h EXCEPT !.pool = Append(@, w)]

\* Pool.Push and Pool.Pop, which work at the end of the slice.
Push(h, w) == [pool  |-> Append(h.pool, w),
               index |-> [h.index EXCEPT ![w] = Len(h.pool)],
               load  |-> h.load]
Pop(h) == [pool  |-> SubSeq(h.pool, 1, Len(h.pool) - 1),
           index |-> [h.index EXCEPT ![h.pool[Len(h.pool)]] = -1],
           load  |-> h.load]

\* A turn of the loops of Down, within the first n places, and of Up: the
\* heap, and the place the loop is at.
DownTurn(s, n) ==
  LET l == 2 * s.at + 1
      c == IF l + 1 < n /\ Less(s.heap, l + 1, l) THEN l + 1 ELSE l
  IN  IF l < n /\ Less(s.heap, c, s.at)
      THEN [heap |-> Swap(s.heap, s.at, c), at |-> c] ELSE s

UpTurn(s) ==
  LET i == IF s.at = 0 THEN 0 ELSE (s.at - 1) \div 2
  IN  IF i # s.at /\ Less(s.heap, s.at, i)
      THEN [heap |-> Swap(s.heap, i, s.at), at |-> i] ELSE s

\* A turn that does not end the loop moves it further from i, or nearer to
\* place 0: there are no more of them than places.
Down(h, i, n) ==
  LET turn[k \in Nat] == IF k = 0 THEN [heap |-> h, at |-> i]
                         ELSE DownTurn(turn[k - 1], n)
  IN  turn[n].heap

Up(h, j) ==
  LET turn[k \in Nat] == IF k = 0 THEN [heap |-> h, at |-> j]
                         ELSE UpTurn(turn[k - 1])
  IN  turn[j].heap

\* The last place before the call to Pop holds the worker HeapPop returns.
HeapTop(h)     == h.pool[1]
HeapPop(h)     == LET n == Len(h.pool) - 1 IN Pop(Down(Swap(h, 0, n), 0, n))
HeapPush(h, w) == Up(Push(h, w), Len(h.pool))
HeapRemove(h, i) ==
  LET n == Len(h.pool) - 1
  IN  IF i = n THEN Pop(h) ELSE Pop(Up(Down(Swap(h, i, n), i, n), i))

Heap(load) == [pool |-> pool, index |-> index, load |-> load]
Become(h) == pool' = h.pool /\ index' = h.index
-----------------------------------------------------------------------------
\* startWorkers leaves every index at 0.
HInit == /\ Init
         /\ fleet \in Fleets
         /\ pool \in {p \in [1..Cardinality(fleet) -> fleet] :
                        \A w \in fleet : \E i \in DOMAIN p : p[i] = w}
         /\ index = [w \in Worker |-> 0]
         /\ panicked = FALSE

\* dispatch: heap.Pop, and then the send that may block.
HAccept(r) == /\ Accept(r, HeapTop(Heap(pending)))
              /\ Become(HeapPop(Heap(pending)))
              /\ UNCHANGED <<fleet, panicked>>

\* The rest of dispatch: the send, pending++ and heap.Push.
HEnqueue(w) == /\ Enqueue(w)
               /\ Become(HeapPush(Heap(pending'), w))
               /\ UNCHANGED <<fleet, panicked>>

\* completed(w): pending--, heap.Remove at w.index and heap.Push.
InRange(w) == index[w] \in 0..(Len(pool) - 1)

\* Faulty variant: the worker removed is not pushed again.
HCompletedNoPush(w) ==
  /\ Completed(w) /\ InRange(w)
  /\ Become(HeapRemove(Heap(pending'), index[w]))
  /\ UNCHANGED <<fleet, panicked>>

\* Faulty variant: pending-- comes after the worker is back in the heap.
HCompletedLate(w) ==
  /\ Completed(w) /\ InRange(w)
  /\ Become(HeapPush(HeapRemove(Heap(pending), index[w]), w))
  /\ UNCHANGED <<fleet, panicked>>

HCompleted(w) ==
  /\ Completed(w) /\ InRange(w)
  /\ Become(HeapPush(HeapRemove(Heap(pending'), index[w]), w))
  /\ UNCHANGED <<fleet, panicked>>

\* The index is no place of the pool: Swap panics and the process ends.
HCompletedPanics(w) == /\ Selecting /\ wpc[w] = "notify" /\ ~InRange(w)
                       /\ panicked' = TRUE
                       /\ UNCHANGED <<vars, fleet, pool, index>>

HWorker(w) == (Take(w) \/ Reply(w)) /\ UNCHANGED <<fleet, pool, index, panicked>>

\* Nothing but a panic or a wedge ends the program: TLC reports any other
\* state without a step as a deadlock.
HStopped == (panicked \/ Wedged) /\ UNCHANGED hvars

HNext == \/ /\ ~panicked
            /\ \/ \E r \in Requester : HAccept(r)
               \/ \E w \in fleet : \/ HEnqueue(w) \/ HWorker(w)
                                   \/ HCompleted(w) \/ HCompletedPanics(w)
         \/ HStopped

\* No fairness: what follows is what the program may not do, or how it ends.
HSpec == HInit /\ [][HNext]_hvars
-----------------------------------------------------------------------------
HTypeOK == /\ fleet \in Fleets
           /\ held = None <=> target = None
           /\ target \in fleet \union {None}
           /\ pool \in Seq(fleet)
           /\ index \in [Worker -> Int] /\ pending \in [Worker -> Int]
           /\ panicked \in BOOLEAN

\* The pool keeps its size, and its members and the worker popped carry
\* indices the slice could have.
PoolSize == /\ Len(pool) = Cardinality(fleet) - (IF Selecting THEN 0 ELSE 1)
            /\ \A w \in fleet : index[w] \in -1..(Cardinality(fleet) - 1)

\* The workers the pool has lost: another one was removed in their place.
InPool(w) == \E i \in DOMAIN pool : pool[i] = w
Lost == {w \in fleet : w # target /\ ~InPool(w)}

\* A worker once lost keeps the index -1 of its removal: no request will
\* reach it again, and if it still has one to report the program panics.
LostHasNoIndex == \A w \in Lost : index[w] = -1

\* Up to the first loss the pool is right, and every index a place of it,
\* though seldom the worker's own.
RightUntilLoss ==
  Lost = {} => /\ \A i, j \in DOMAIN pool : pool[i] = pool[j] => i = j
               /\ ~InPool(target)
               /\ \A w \in fleet \ {target} : index[w] \in 0..(Cardinality(fleet) - 1)

\* A panic is the end of a run in which the wrong worker was removed: the
\* worker that reported is in the pool twice and another one not at all.
PanicMeansLost == panicked => Selecting /\ Lost # {}

\* Worker.index is the "index in the heap" when completed(w) relies on it.
IndexInHeap == \A w \in fleet : Selecting /\ wpc[w] = "notify" =>
                 InRange(w) /\ pool[index[w] + 1] = w

\* With a single worker, as main starts, the index is always right.
SoleWorkerIndex == Cardinality(fleet) = 1 => IndexInHeap /\ ~panicked

\* The inductive invariant of the heap's bookkeeping.
HInv == HTypeOK /\ PoolSize /\ LostHasNoIndex /\ RightUntilLoss /\ PanicMeansLost

\* No worker of the pool has less to do than its parent in the heap.
Ordered == \A i \in DOMAIN pool : i > 1 => pending[pool[i \div 2]] <= pending[pool[i]]

\* dispatch gives a request to a least loaded worker, although Up and Down
\* compare loads that Enqueue and completed have changed in the meantime:
\* until a worker is lost, through wrong indices that hit their worker only
\* by chance, the pool is a heap and no worker of the fleet has less to do
\* than the one dispatch takes.
LeastLoaded ==
  Lost = {} => /\ Ordered
               /\ Selecting => \A w \in fleet : pending[pool[1]] <= pending[w]

\* How far the damage of the wrong indices goes: the pool is never short, a
\* worker is lost for good, a panic follows the loss of a worker, and a
\* single worker is spared.
DamageBounded == HInv /\ SoleWorkerIndex
=============================================================================
