--------------------------- MODULE BoundedSerial ---------------------------
(***************************************************************************)
(* bounded-serial.go: MD5All with a fixed number of digesters.  A walker   *)
(* goroutine sends the paths of a tree over `paths`, the digesters read    *)
(* the files and send results over `c`, MD5All collects them, and a        *)
(* closer goroutine closes `c` once every digester has called wg.Done.     *)
(* The deferred close(done) of MD5All tells walker and digesters to quit.  *)
(*                                                                         *)
(* `paths` and `c` are unbuffered, so a send and its receive are one joint *)
(* step; a select with two ready cases picks either.                       *)
(***************************************************************************)
EXTENDS Naturals, FiniteSets

CONSTANTS N,                     \* the number of entries Walk would present
          Digester               \* numDigesters goroutines, 20 in the code

ASSUME NAssumption        == N \in Nat
ASSUME DigesterAssumption == IsFiniteSet(Digester)

VARIABLES kind,                  \* the tree, constant during a run
          wpc, next,             \* the walker and the entry it is at
          errc,                  \* contents of errc, capacity 1
          pathsClosed,
          dpc, item,             \* the digesters and the file each holds
          wg,                    \* the WaitGroup's counter
          cClosed,
          mpc, sums,             \* MD5All and its map m
          ret,                   \* what MD5All returned
          done                   \* done is closed

vars == <<kind, wpc, next, errc, pathsClosed, dpc, item, wg, cClosed, mpc,
          sums, ret, done>>

\* The promise of MD5All, shared by the three programs.
Promise == INSTANCE MD5All

Entry  == Promise!Entry
IsFile(i) == kind[i] \in {"regular", "unreadable"}

TypeOK ==
  /\ kind \in [Entry -> Promise!Kind]
  /\ wpc \in {"walk", "close", "end"}
  /\ next \in 1..(N + 1)
  /\ errc \in {"empty", "nil", "walk", "canceled"}
  /\ pathsClosed \in BOOLEAN
  /\ dpc \in [Digester -> {"recv", "send", "exit", "end"}]
  /\ item \in [Digester -> 0..N]
  /\ wg \in Nat
  /\ cClosed \in BOOLEAN
  /\ mpc \in {"range", "errc", "return", "end"}
  /\ sums \in SUBSET Entry
  /\ ret \in [sums : SUBSET Entry, err : {"pending", "nil", "read", "walk", "canceled"},
              file : 0..N]
  /\ done \in BOOLEAN

Init == /\ kind \in [Entry -> Promise!Kind]
        /\ wpc = "walk" /\ next = 1 /\ errc = "empty" /\ pathsClosed = FALSE
        /\ dpc = [d \in Digester |-> "recv"]
        /\ item = [d \in Digester |-> 0]
        /\ wg = Cardinality(Digester)
        /\ cClosed = FALSE
        /\ mpc = "range" /\ sums = {} /\ ret = Promise!Pending
        /\ done = FALSE
-----------------------------------------------------------------------------
(* The walker: filepath.Walk and its callback.                             *)

\* A directory or another irregular entry: the callback returns nil.
WalkSkip == /\ wpc = "walk" /\ next \in Entry /\ kind[next] = "other"
            /\ next' = next + 1
            /\ UNCHANGED <<kind, wpc, errc, pathsClosed, dpc, item, wg,
                           cClosed, mpc, sums, ret, done>>

\* paths <- path meets a digester at the head of its range loop, which then
\* reads the file.
WalkSend(d) == /\ wpc = "walk" /\ next \in Entry /\ IsFile(next)
               /\ dpc[d] = "recv"
               /\ item' = [item EXCEPT ![d] = next]
               /\ dpc' = [dpc EXCEPT ![d] = "send"]
               /\ next' = next + 1
               /\ UNCHANGED <<kind, wpc, errc, pathsClosed, wg, cClosed, mpc,
                              sums, ret, done>>

\* Walk returns e: its last callback failed or there is no further entry.
\* errc has room for the value, so the send does not block.
WalkReturns(e) == /\ wpc = "walk"
                  /\ wpc' = "close"
                  /\ errc' = e
                  /\ UNCHANGED <<kind, next, pathsClosed, dpc, item, wg,
                                 cClosed, mpc, sums, ret, done>>

WalkEnd      == next = N + 1 /\ WalkReturns("nil")
WalkBroken   == next \in Entry /\ kind[next] = "broken" /\ WalkReturns("walk")

\* Faulty variant: the select may take <-done before done is closed.
WalkGivesUp == next \in Entry /\ IsFile(next) /\ WalkReturns("canceled")

WalkCanceled == next \in Entry /\ IsFile(next) /\ done /\ WalkReturns("canceled")

\* The deferred close(paths).
ClosePaths == /\ wpc = "close"
              /\ wpc' = "end"
              /\ pathsClosed' = TRUE
              /\ UNCHANGED <<kind, next, errc, dpc, item, wg, cClosed, mpc,
                             sums, ret, done>>
-----------------------------------------------------------------------------
(* The digesters, the closer and MD5All.                                   *)

\* The range over paths ends.
DigesterDrained(d) == /\ dpc[d] = "recv" /\ pathsClosed
                      /\ dpc' = [dpc EXCEPT ![d] = "exit"]
                      /\ UNCHANGED <<kind, wpc, next, errc, pathsClosed, item,
                                     wg, cClosed, mpc, sums, ret, done>>

\* c <- result meets MD5All's range over c, which keeps the sum or returns
\* the error of ReadFile.
Deliver(d) == /\ dpc[d] = "send" /\ mpc = "range"
              /\ dpc' = [dpc EXCEPT ![d] = "recv"]
              /\ \/ /\ kind[item[d]] = "regular"
                    /\ sums' = sums \union {item[d]}
                    /\ UNCHANGED <<mpc, ret>>
                 \/ /\ kind[item[d]] = "unreadable"
                    /\ mpc' = "return"
                    /\ ret' = [sums |-> {}, err |-> "read", file |-> item[d]]
                    /\ UNCHANGED sums
              /\ UNCHANGED <<kind, wpc, next, errc, pathsClosed, item, wg,
                             cClosed, done>>

\* Faulty variant: the select lacks the case of done.
DigesterInsists(d) == FALSE

\* The select takes <-done.
DigesterCanceled(d) == /\ dpc[d] = "send" /\ done
                       /\ dpc' = [dpc EXCEPT ![d] = "exit"]
                       /\ UNCHANGED <<kind, wpc, next, errc, pathsClosed, item,
                                      wg, cClosed, mpc, sums, ret, done>>

WgDone(d) == /\ dpc[d] = "exit"
             /\ dpc' = [dpc EXCEPT ![d] = "end"]
             /\ wg' = wg - 1
             /\ UNCHANGED <<kind, wpc, next, errc, pathsClosed, item, cClosed,
                            mpc, sums, ret, done>>

\* wg.Wait(); close(c)
CloseC == /\ wg = 0 /\ ~cClosed
          /\ cClosed' = TRUE
          /\ UNCHANGED <<kind, wpc, next, errc, pathsClosed, dpc, item, wg,
                         mpc, sums, ret, done>>

\* Faulty variant: MD5All stops collecting when there is a verdict in errc.
RangeEndsEarly == /\ mpc = "range" /\ errc # "empty"
                  /\ mpc' = "errc"
                  /\ UNCHANGED <<kind, wpc, next, errc, pathsClosed, dpc, item,
                                 wg, cClosed, sums, ret, done>>

\* The range over c ends.
RangeEnds == /\ mpc = "range" /\ cClosed
             /\ mpc' = "errc"
             /\ UNCHANGED <<kind, wpc, next, errc, pathsClosed, dpc, item, wg,
                            cClosed, sums, ret, done>>

\* err := <-errc and the return statement it decides.
ReceiveErr == /\ mpc = "errc" /\ errc # "empty"
              /\ errc' = "empty"
              /\ ret' = IF errc = "nil" THEN [sums |-> sums, err |-> "nil", file |-> 0]
                                        ELSE [sums |-> {}, err |-> errc, file |-> 0]
              /\ mpc' = "return"
              /\ UNCHANGED <<kind, wpc, next, pathsClosed, dpc, item, wg,
                             cClosed, sums, done>>

\* The deferred close(done).
CloseDone == /\ mpc = "return"
             /\ mpc' = "end"
             /\ done' = TRUE
             /\ UNCHANGED <<kind, wpc, next, errc, pathsClosed, dpc, item, wg,
                            cClosed, sums, ret>>

Walker      == WalkSkip \/ WalkEnd \/ WalkBroken \/ WalkCanceled \/ ClosePaths
DigesterOf(d) == WalkSend(d) \/ DigesterDrained(d) \/ Deliver(d)
                   \/ DigesterCanceled(d) \/ WgDone(d)
Main        == RangeEnds \/ ReceiveErr \/ CloseDone

\* Every goroutine has returned.
Finished == /\ wpc = "end" /\ mpc = "end" /\ cClosed
            /\ \A d \in Digester : dpc[d] = "end"

Next == Walker \/ (\E d \in Digester : DigesterOf(d)) \/ CloseC \/ Main

\* The Go scheduler never leaves every goroutine that can run waiting.
Spec     == Init /\ [][Next]_vars
FairSpec == Spec /\ WF_vars(Next)
-----------------------------------------------------------------------------
(* Properties                                                              *)

\* No goroutine panics.  close(c) comes after the last digester that could
\* still send on c, close(paths) after the walker's last send, and wg never
\* counts fewer digesters than there are left, although digesters leave in
\* three ways (drained, canceled, and canceled while MD5All has returned).
NoPanic == /\ wg = Cardinality({d \in Digester : dpc[d] # "end"})
           /\ cClosed => \A d \in Digester : dpc[d] = "end"
           /\ pathsClosed => wpc = "end"

\* While MD5All is collecting, every file the walker has passed is in the
\* map or in the hands of exactly one digester that will still deliver it.
NothingLost ==
  /\ mpc \in {"range", "errc"} =>
       \A i \in 1..(next - 1) :
         IsFile(i) => i \in sums \/ \E d \in Digester : dpc[d] = "send" /\ item[d] = i
  /\ \A d \in Digester : dpc[d] = "send" =>
       /\ item[d] \notin sums
       /\ \A e \in Digester : dpc[e] = "send" /\ item[e] = item[d] => e = d

\* What the walker has established about the tree and left in errc.
WalkerInv ==
  /\ \A i \in 1..(next - 1) : kind[i] # "broken"
  /\ errc = "nil" => next = N + 1
  /\ errc = "walk" => next \in Entry /\ kind[next] = "broken"
  /\ wpc = "walk" => errc = "empty"
  /\ mpc \in {"range", "errc"} /\ wpc # "walk" => errc # "empty"
  /\ pathsClosed <=> wpc = "end"

\* What digesters and map hold comes from the part of the tree walked, and
\* a digester that has left saw the end of the paths or the cancellation.
DigesterInv ==
  /\ \A i \in sums : i < next /\ kind[i] = "regular"
  /\ \A d \in Digester : dpc[d] = "send" => item[d] \in 1..(next - 1) /\ IsFile(item[d])
  /\ \A d \in Digester : dpc[d] \in {"exit", "end"} => pathsClosed \/ done

\* done is closed after the return value is fixed, never before: nothing is
\* canceled, and nothing lost, while MD5All is still collecting.
DoneInv ==
  /\ done <=> mpc = "end"
  /\ errc = "canceled" => done
  /\ ret = Promise!Pending <=> mpc \in {"range", "errc"}
  /\ mpc = "errc" => cClosed

\* The inductive invariant of bounded-serial.go.
Inv == TypeOK /\ NoPanic /\ NothingLost /\ WalkerInv /\ DigesterInv /\ DoneInv

\* MD5All keeps its promise: whichever digester is faster, and whatever is
\* canceled, the tree alone decides the map and the kind of error of its one
\* return; of several unreadable files, the error names the one received first.
Implements == Promise!Spec

\* No goroutine is left blocked on a channel nobody reads: walker, digesters,
\* closer and MD5All all return, also after an early return with an error.
AllExit == <>Finished
=============================================================================
