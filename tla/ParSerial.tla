----------------------------- MODULE ParSerial ------------------------------
(***************************************************************************)
(* par-serial.go: MD5All with a goroutine per file.  The walker counts a   *)
(* goroutine in wg before it starts it and then polls `done`; only when    *)
(* Walk has returned does it start the closer, which waits for wg, and     *)
(* then hands Walk's error to errc.  c is unbuffered: a send and its       *)
(* receive are one joint step.                                             *)
(***************************************************************************)
EXTENDS Naturals, FiniteSets

CONSTANT N                       \* the number of entries Walk would present

ASSUME NAssumption == N \in Nat

VARIABLES kind,                  \* the tree, constant during a run
          wpc, next,             \* the walker and the entry it is at
          walkErr,               \* err, the walker's local variable
          errc,                  \* contents of errc, capacity 1
          fpc,                   \* the goroutine of each file
          wg,                    \* the WaitGroup's counter
          cClosed,
          mpc, sums,             \* MD5All and its map m
          ret,                   \* what MD5All returned
          done                   \* done is closed

vars == <<kind, wpc, next, walkErr, errc, fpc, wg, cClosed, mpc, sums, ret, done>>

\* The promise of MD5All, shared by the three programs.
Promise == INSTANCE MD5All

\* serial.go, to compare with.
Serial == INSTANCE SerialMD5

Entry     == Promise!Entry
IsFile(i) == kind[i] \in {"regular", "unreadable"}
Verdict   == {"empty", "nil", "walk", "canceled"}

TypeOK ==
  /\ kind \in [Entry -> Promise!Kind]
  /\ wpc \in {"walk", "poll", "errc", "end"}
  /\ next \in 1..(N + 1)
  /\ walkErr \in Verdict /\ errc \in Verdict
  /\ fpc \in [Entry -> {"none", "send", "exit", "end"}]
  /\ wg \in Nat
  /\ cClosed \in BOOLEAN
  /\ mpc \in {"range", "errc", "return", "end"}
  /\ sums \in SUBSET Entry
  /\ ret \in [sums : SUBSET Entry, err : {"pending", "nil", "read", "walk", "canceled"},
              file : 0..N]
  /\ done \in BOOLEAN

Init == /\ kind \in [Entry -> Promise!Kind]
        /\ wpc = "walk" /\ next = 1 /\ walkErr = "empty" /\ errc = "empty"
        /\ fpc = [i \in Entry |-> "none"] /\ wg = 0
        /\ cClosed = FALSE
        /\ mpc = "range" /\ sums = {} /\ ret = Promise!Pending
        /\ done = FALSE
-----------------------------------------------------------------------------
(* The walker.                                                             *)

WalkSkip == /\ wpc = "walk" /\ next \in Entry /\ kind[next] = "other"
            /\ next' = next + 1
            /\ UNCHANGED <<kind, wpc, walkErr, errc, fpc, wg, cClosed, mpc,
                           sums, ret, done>>

\* wg.Add(1); go func() { ... }()
WalkSpawn == /\ wpc = "walk" /\ next \in Entry /\ IsFile(next)
             /\ wg' = wg + 1
             /\ fpc' = [fpc EXCEPT ![next] = "send"]
             /\ wpc' = "poll"
             /\ UNCHANGED <<kind, next, walkErr, errc, cClosed, mpc, sums, ret,
                            done>>

\* Walk returns e, and the closer starts.
WalkReturns(e) == /\ walkErr' = e
                  /\ wpc' = "errc"
                  /\ UNCHANGED <<kind, next, errc, fpc, wg, cClosed, mpc, sums,
                                 ret, done>>

WalkEnd    == wpc = "walk" /\ next = N + 1 /\ WalkReturns("nil")
WalkBroken == wpc = "walk" /\ next \in Entry /\ kind[next] = "broken" /\ WalkReturns("walk")

\* Faulty variant: the select may take <-done before done is closed.
PollAnyway == /\ wpc = "poll"
              /\ \/ WalkReturns("canceled")
                 \/ /\ next' = next + 1
                    /\ wpc' = "walk"
                    /\ UNCHANGED <<kind, walkErr, errc, fpc, wg, cClosed, mpc,
                                   sums, ret, done>>

\* The select at the end of the callback.
Poll == /\ wpc = "poll"
        /\ \/ done /\ WalkReturns("canceled")
           \/ /\ ~done
              /\ next' = next + 1
              /\ wpc' = "walk"
              /\ UNCHANGED <<kind, walkErr, errc, fpc, wg, cClosed, mpc, sums,
                             ret, done>>

\* Faulty variant: errc has no buffer, so the send waits for MD5All.
SendErrUnbuffered == /\ wpc = "errc" /\ mpc = "errc"
                     /\ errc' = walkErr
                     /\ wpc' = "end"
                     /\ UNCHANGED <<kind, next, walkErr, fpc, wg, cClosed, mpc,
                                    sums, ret, done>>

\* errc <- err
SendErr == /\ wpc = "errc"
           /\ errc' = walkErr
           /\ wpc' = "end"
           /\ UNCHANGED <<kind, next, walkErr, fpc, wg, cClosed, mpc, sums,
                          ret, done>>

\* wg.Wait(); close(c), in the goroutine started when Walk returned.
CloseC == /\ wpc \in {"errc", "end"} /\ wg = 0 /\ ~cClosed
          /\ cClosed' = TRUE
          /\ UNCHANGED <<kind, wpc, next, walkErr, errc, fpc, wg, mpc, sums,
                         ret, done>>
-----------------------------------------------------------------------------
(* The goroutine of file i, and MD5All.                                    *)

Deliver(i) == /\ fpc[i] = "send" /\ mpc = "range"
              /\ fpc' = [fpc EXCEPT ![i] = "exit"]
              /\ \/ /\ kind[i] = "regular"
                    /\ sums' = sums \union {i}
                    /\ UNCHANGED <<mpc, ret>>
                 \/ /\ kind[i] = "unreadable"
                    /\ mpc' = "return"
                    /\ ret' = [sums |-> {}, err |-> "read", file |-> i]
                    /\ UNCHANGED sums
              /\ UNCHANGED <<kind, wpc, next, walkErr, errc, wg, cClosed, done>>

\* Faulty variant: the goroutine leaves without a cancellation.
Leave(i) == /\ fpc[i] = "send"
            /\ fpc' = [fpc EXCEPT ![i] = "exit"]
            /\ UNCHANGED <<kind, wpc, next, walkErr, errc, wg, cClosed, mpc,
                           sums, ret, done>>

\* The select takes <-done.
Cancel(i) == /\ fpc[i] = "send" /\ done
             /\ fpc' = [fpc EXCEPT ![i] = "exit"]
             /\ UNCHANGED <<kind, wpc, next, walkErr, errc, wg, cClosed, mpc,
                            sums, ret, done>>

WgDone(i) == /\ fpc[i] = "exit"
             /\ fpc' = [fpc EXCEPT ![i] = "end"]
             /\ wg' = wg - 1
             /\ UNCHANGED <<kind, wpc, next, walkErr, errc, cClosed, mpc, sums,
                            ret, done>>

RangeEnds == /\ mpc = "range" /\ cClosed
             /\ mpc' = "errc"
             /\ UNCHANGED <<kind, wpc, next, walkErr, errc, fpc, wg, cClosed,
                            sums, ret, done>>

ReceiveErr == /\ mpc = "errc" /\ errc # "empty"
              /\ errc' = "empty"
              /\ ret' = IF errc = "nil" THEN [sums |-> sums, err |-> "nil", file |-> 0]
                                        ELSE [sums |-> {}, err |-> errc, file |-> 0]
              /\ mpc' = "return"
              /\ UNCHANGED <<kind, wpc, next, walkErr, fpc, wg, cClosed, sums,
                             done>>

\* The deferred close(done).
CloseDone == /\ mpc = "return"
             /\ mpc' = "end"
             /\ done' = TRUE
             /\ UNCHANGED <<kind, wpc, next, walkErr, errc, fpc, wg, cClosed,
                            sums, ret>>

Walker    == WalkSkip \/ WalkSpawn \/ WalkEnd \/ WalkBroken \/ Poll \/ SendErr
FileOf(i) == Deliver(i) \/ Cancel(i) \/ WgDone(i)
Main      == RangeEnds \/ ReceiveErr \/ CloseDone

\* Every goroutine has returned.
Finished == /\ wpc = "end" /\ mpc = "end" /\ cClosed
            /\ \A i \in Entry : fpc[i] \in {"none", "end"}

Next == Walker \/ (\E i \in Entry : FileOf(i)) \/ CloseC \/ Main

\* The Go scheduler never leaves every goroutine that can run waiting.
Spec     == Init /\ [][Next]_vars
FairSpec == Spec /\ WF_vars(Next)
-----------------------------------------------------------------------------
(* Properties                                                              *)

\* No goroutine panics: c is closed after the last goroutine that could send
\* on it has called wg.Done, and no goroutine is started after that.
NoPanic == /\ wg = Cardinality({i \in Entry : fpc[i] \in {"send", "exit"}})
           /\ cClosed => wg = 0 /\ wpc \in {"errc", "end"}

\* While MD5All is collecting, every file handed out is in the map or still
\* with its goroutine, and none has been passed over.
NothingLost ==
  mpc \in {"range", "errc"} =>
    /\ \A i \in 1..(next - 1) : IsFile(i) => i \in sums \/ fpc[i] = "send"
    /\ wpc = "poll" => next \in sums \/ fpc[next] = "send"

\* What the walker has established about the tree, holds in err and leaves
\* in errc.
WalkerInv ==
  /\ \A i \in 1..(next - 1) : kind[i] # "broken"
  /\ wpc = "poll" => next \in Entry /\ IsFile(next)
  /\ wpc \in {"walk", "poll"} <=> walkErr = "empty"
  /\ walkErr = "nil" => next = N + 1
  /\ walkErr = "walk" => next \in Entry /\ kind[next] = "broken"
  /\ errc \in {"empty", walkErr}
  /\ wpc # "end" => errc = "empty"
  /\ mpc \in {"range", "errc"} /\ wpc = "end" => errc # "empty"

\* A goroutine was started for a file the walker has reached, one each, and
\* the map holds only what such a goroutine has delivered.
FileInv ==
  /\ \A i \in Entry : fpc[i] # "none" => /\ IsFile(i) /\ i <= next
                                         /\ i = next => wpc # "walk"
  /\ \A i \in sums : kind[i] = "regular" /\ fpc[i] \in {"exit", "end"}

\* Nothing is canceled while MD5All is still collecting.
DoneInv ==
  /\ done <=> mpc = "end"
  /\ walkErr = "canceled" => done
  /\ ret = Promise!Pending <=> mpc \in {"range", "errc"}
  /\ mpc = "errc" => cClosed

\* The inductive invariant of par-serial.go.
Inv == TypeOK /\ NoPanic /\ NothingLost /\ WalkerInv /\ FileInv /\ DoneInv

\* Whatever the goroutines do, MD5All returns the map and the kind of error
\* that serial.go returns for the same tree.  The two differ in one thing: when
\* several files Walk reaches cannot be read, the error received first may
\* name a later one of them than serial.go, never an earlier one.
SameAsSerial ==
  ret # Promise!Pending =>
    LET s == Serial!SerialMD5All(kind) IN
      /\ ret.sums = s.sums /\ ret.err = s.err
      /\ ret.file # s.file => /\ s.err = "read" /\ s.file < ret.file
                              /\ ret.file \in Promise!Unreadable

\* MD5All keeps its promise: the order in which the goroutines finish, the
\* poll of done and the late errc show in its return value only as the choice
\* of the unreadable file its error names.
Implements == Promise!Spec

\* Every goroutine returns, also after an early return with an error: none
\* stays blocked on c or on errc, whose buffer takes an error nobody reads.
AllExit == <>Finished
=============================================================================
