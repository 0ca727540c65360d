------------------------------- MODULE UvPool -------------------------------
(***************************************************************************)
(* libuv's thread pool as its file system requests use it: threadpool.c    *)
(* and the part of async.c that carries a completion back to the loop.     *)
(* `mutex` and wq_mutex make each critical section one step.  A worker     *)
(* appends to loop->wq and calls uv_async_send under wq_mutex, and         *)
(* uv__work_done takes that mutex before it looks, so the two are one step *)
(* as well.  Nothing here cancels a request: uvcat never calls uv_cancel.  *)
(***************************************************************************)
EXTENDS Naturals, Sequences, FiniteSets

CONSTANTS Workers,               \* the threads of init_once
          Reqs,                  \* the uv_fs_t of the program
          Exit                   \* exit_message

States == {"run",                \* about to lock mutex and look at wq
           "wait",               \* in uv_cond_wait
           "woken",              \* signalled, the mutex not taken again yet
           "gone"}               \* out of the for loop

ASSUME PoolAssumption == /\ Exit \notin Reqs
                         /\ (Reqs \union {Exit}) \intersect States = {}

VARIABLES wq,                    \* the requests no worker has taken
          worker,                \* a state, or the request being worked on
          lwq,                   \* loop->wq: the requests whose work is done
          pending,               \* wq_async.pending
          efd                    \* the eventfd is readable

poolVars == <<wq, worker, lwq, pending, efd>>

PoolType == /\ wq \in Seq(Reqs \union {Exit})
            /\ worker \in [Workers -> States \union Reqs]
            /\ lwq \in Seq(Reqs)
            /\ pending \in BOOLEAN /\ efd \in BOOLEAN

PoolInit == /\ wq = <<>> /\ lwq = <<>>
            /\ worker = [w \in Workers |-> "run"]
            /\ pending = FALSE /\ efd = FALSE
-----------------------------------------------------------------------------
\* idle_threads counts a signalled worker until it has the mutex again.
Idle == {w \in Workers : worker[w] \in {"wait", "woken"}}

\* uv_cond_signal: one of the waiting workers, when there is one.
Signalled(f) == LET W == {w \in Workers : f[w] = "wait"}
                IN  IF W = {} THEN {f}
                    ELSE {[f EXCEPT ![w] = "woken"] : w \in W}

\* post(&w->wq)
Post(r) == /\ wq' = Append(wq, r)
           /\ worker' \in IF Idle # {} THEN Signalled(worker) ELSE {worker}

Looking(w) == worker[w] \in {"run", "woken"}

WorkerWaits(w) == /\ Looking(w) /\ wq = <<>>
                  /\ worker' = [worker EXCEPT ![w] = "wait"]
                  /\ UNCHANGED <<wq, lwq, pending, efd>>

WorkerTakes(w) == /\ Looking(w) /\ wq # <<>> /\ Head(wq) # Exit
                  /\ worker' = [worker EXCEPT ![w] = Head(wq)]
                  /\ wq' = Tail(wq)
                  /\ UNCHANGED <<lwq, pending, efd>>

\* Faulty variant: the worker that leaves does not wake the next one.
WorkerExitsAlone(w) == /\ Looking(w) /\ wq # <<>> /\ Head(wq) = Exit
                       /\ worker' = [worker EXCEPT ![w] = "gone"]
                       /\ UNCHANGED <<wq, lwq, pending, efd>>

\* The exit message stays in wq, and the next worker is signalled.
WorkerExits(w) == /\ Looking(w) /\ wq # <<>> /\ Head(wq) = Exit
                  /\ worker' \in Signalled([worker EXCEPT ![w] = "gone"])
                  /\ UNCHANGED <<wq, lwq, pending, efd>>

\* After w->work(w): QUEUE_INSERT_TAIL(&loop->wq, ..); uv_async_send, which
\* writes to the eventfd only when it sets pending.
Finish(w) == /\ lwq' = Append(lwq, worker[w])
             /\ worker' = [worker EXCEPT ![w] = "run"]
             /\ efd' = (efd \/ ~pending) /\ pending' = TRUE
             /\ UNCHANGED wq

\* uv__async_io drains the eventfd, and uv__async_event clears pending.  A
\* request queued in between is silent, and uv__work_done follows at once.
AsyncEvent == /\ efd /\ efd' = FALSE
              /\ pending /\ pending' = FALSE
              /\ UNCHANGED <<wq, worker, lwq>>

PoolStep(w) == WorkerWaits(w) \/ WorkerTakes(w) \/ WorkerExits(w)
=============================================================================
