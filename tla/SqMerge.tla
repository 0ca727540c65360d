------------------------------ MODULE SqMerge -------------------------------
(***************************************************************************)
(* sq-merge.go: a pipeline that main leaves before it is drained.  gen     *)
(* offers numbers to several sq, each sq feeds an `output` goroutine of    *)
(* merge, and the outputs share one channel to main, which a closer shuts  *)
(* when all of them are done.  main receives a few squares and returns,    *)
(* closing `done`.                                                         *)
(*                                                                         *)
(* The channels are unbuffered: a send and its receive are one joint step. *)
(* The deferred close of a channel is the step in which its sender ends.   *)
(***************************************************************************)
EXTENDS Naturals, Sequences, FiniteSets

CONSTANTS N,                     \* gen sends the numbers 2..(N + 1); N is 9
          Branch,                \* the branches sq -> output; 2 of them
          MaxReceives            \* a bound on how many values main asks for

ASSUME NAssumption        == N \in Nat
ASSUME BranchAssumption   == IsFiniteSet(Branch) /\ Branch # {}
ASSUME ReceivesAssumption == MaxReceives \in Nat

VARIABLES receives,              \* how many values main receives: 2, or as
                                 \* many as there are in the commented loop
          next, gen,             \* the number gen offers; "loop" or "end"
          sq, sqval,             \* each sq: "range", "select" or "end"
          output, outval,        \* each output: likewise
          wg, outClosed,         \* merge's WaitGroup and its closed channel
          received, done         \* what main printed; done is closed

sqVars  == <<sq, sqval>>
outVars == <<output, outval>>
mergeVars == <<receives, next, gen, sqVars, outVars, wg, outClosed, received, done>>

Number == 2..(N + 1)
PC     == {"range", "select", "end"}
Size   == Cardinality(Branch)

MergeTypeOK == /\ receives \in 0..MaxReceives
               /\ next \in 2..(N + 2)
               /\ gen \in {"loop", "end"}
               /\ sq \in [Branch -> PC]     /\ sqval \in [Branch -> Nat]
               /\ output \in [Branch -> PC] /\ outval \in [Branch -> Nat]
               /\ wg \in 0..Size
               /\ outClosed \in BOOLEAN /\ done \in BOOLEAN
               /\ received \in Seq(Nat) /\ Len(received) <= receives

MergeInit == /\ receives \in 0..MaxReceives
             /\ next = 2 /\ gen = "loop"
             /\ sq = [b \in Branch |-> "range"]     /\ sqval = [b \in Branch |-> 0]
             /\ output = [b \in Branch |-> "range"] /\ outval = [b \in Branch |-> 0]
             /\ wg = Size /\ outClosed = FALSE
             /\ received = <<>> /\ done = FALSE
-----------------------------------------------------------------------------
(* gen                                                                     *)

\* out <- n meets the range of a sq.
GenSend(b) == /\ gen = "loop" /\ next \in Number /\ sq[b] = "range"
              /\ sqval' = [sqval EXCEPT ![b] = next]
              /\ sq' = [sq EXCEPT ![b] = "select"]
              /\ next' = next + 1
              /\ UNCHANGED <<receives, gen, outVars, wg, outClosed, received,
                             done>>

\* The numbers are out, or done is closed: gen closes its channel.
GenEnds == /\ gen = "loop" /\ (next \notin Number \/ done)
           /\ gen' = "end"
           /\ UNCHANGED <<receives, next, sqVars, outVars, wg, outClosed,
                          received, done>>
-----------------------------------------------------------------------------
(* sq                                                                      *)

\* out <- n * n meets the range of the branch's output.
SqSend(b) == /\ sq[b] = "select" /\ output[b] = "range"
             /\ outval' = [outval EXCEPT ![b] = sqval[b] * sqval[b]]
             /\ output' = [output EXCEPT ![b] = "select"]
             /\ sq' = [sq EXCEPT ![b] = "range"]
             /\ UNCHANGED <<receives, next, gen, sqval, wg, outClosed,
                            received, done>>

\* Faulty variant: the select has no case <-done.
SqInsists(b) == /\ sq[b] = "range" /\ gen = "end"
                /\ sq' = [sq EXCEPT ![b] = "end"]
                /\ UNCHANGED <<receives, next, gen, sqval, outVars, wg,
                               outClosed, received, done>>

\* gen's channel is closed and drained, or done is closed.
SqEnds(b) == /\ (sq[b] = "range" /\ gen = "end") \/ (sq[b] = "select" /\ done)
             /\ sq' = [sq EXCEPT ![b] = "end"]
             /\ UNCHANGED <<receives, next, gen, sqval, outVars, wg,
                            outClosed, received, done>>
-----------------------------------------------------------------------------
(* merge                                                                   *)

\* Faulty variant: the value is offered again.
OutputAgain(b) == /\ output[b] = "select" /\ Len(received) < receives
                  /\ received' = Append(received, outval[b])
                  /\ UNCHANGED <<receives, next, gen, sqVars, outVars, wg,
                                 outClosed, done>>

\* out <- n meets main's receive.
OutputSend(b) == /\ output[b] = "select" /\ Len(received) < receives
                 /\ received' = Append(received, outval[b])
                 /\ output' = [output EXCEPT ![b] = "range"]
                 /\ UNCHANGED <<receives, next, gen, sqVars, outval, wg,
                                outClosed, done>>

\* Faulty variant: the value is dropped and the next one taken.
OutputDrops(b) == /\ \/ /\ output[b] = "range" /\ sq[b] = "end"
                        /\ output' = [output EXCEPT ![b] = "end"]
                        /\ wg' = wg - 1
                     \/ /\ output[b] = "select"
                        /\ output' = [output EXCEPT ![b] = "range"]
                        /\ UNCHANGED wg
                  /\ UNCHANGED <<receives, next, gen, sqVars, outval,
                                 outClosed, received, done>>

\* Its sq has closed the channel, or done is closed: wg.Done().
OutputEnds(b) == /\ (output[b] = "range" /\ sq[b] = "end") \/ (output[b] = "select" /\ done)
                 /\ output' = [output EXCEPT ![b] = "end"]
                 /\ wg' = wg - 1
                 /\ UNCHANGED <<receives, next, gen, sqVars, outval,
                                outClosed, received, done>>

\* Faulty variant: the closer waits for one output only.
CloseEarly == /\ ~outClosed /\ wg < Size
              /\ outClosed' = TRUE
              /\ UNCHANGED <<receives, next, gen, sqVars, outVars, wg,
                             received, done>>

\* wg.Wait(); close(out)
Close == /\ ~outClosed /\ wg = 0
         /\ outClosed' = TRUE
         /\ UNCHANGED <<receives, next, gen, sqVars, outVars, wg, received,
                        done>>
-----------------------------------------------------------------------------
(* main                                                                    *)

\* A receive from the closed channel yields the zero value.
ReceiveZero == /\ outClosed /\ Len(received) < receives
               /\ received' = Append(received, 0)
               /\ UNCHANGED <<receives, next, gen, sqVars, outVars, wg,
                              outClosed, done>>

\* main returns: the deferred close(done).
MainEnds == /\ ~done /\ Len(received) = receives
            /\ done' = TRUE
            /\ UNCHANGED <<receives, next, gen, sqVars, outVars, wg,
                           outClosed, received>>

Finished == gen = "end" /\ outClosed /\ done /\ \A b \in Branch : sq[b] = "end"

Step(b) == GenSend(b) \/ SqSend(b) \/ SqEnds(b) \/ OutputSend(b) \/ OutputEnds(b)

Progress == GenEnds \/ Close \/ ReceiveZero \/ MainEnds \/ \E b \in Branch : Step(b)

\* The program rests when every goroutine has returned.
MergeNext == Progress \/ (Finished /\ UNCHANGED mergeVars)

MergeSpec     == MergeInit /\ [][MergeNext]_mergeVars
MergeFairSpec == MergeSpec /\ WF_mergeVars(Progress)
-----------------------------------------------------------------------------
(* Properties                                                              *)

\* Where the number n is between gen and main.
Sent(n) == n \in 2..(next - 1)
Places(n) == {<<"sq", b>> : b \in {c \in Branch : sq[c] = "select" /\ sqval[c] = n}}
             \union {<<"output", b>> :
                       b \in {c \in Branch : output[c] = "select" /\ outval[c] = n * n}}
             \union {<<"main", i>> : i \in {j \in DOMAIN received : received[j] = n * n}}

\* Until main leaves, every number gen has sent is in exactly one place: a
\* number two sq compete for goes to one of them, and no square is printed
\* twice or dropped on the way, whatever the order they arrive in.
OnePlace == ~done => \A n \in Number : Cardinality(Places(n)) = IF Sent(n) THEN 1 ELSE 0

\* Even afterwards main has only squares of distinct numbers, and a zero only
\* for receives beyond the last square.
Genuine ==
  /\ \A i, j \in DOMAIN received : i # j /\ received[i] = received[j] => received[i] = 0
  /\ \A i \in DOMAIN received :
       \/ received[i] = 0 /\ i > N
       \/ i <= N /\ \E n \in Number : received[i] = n * n

\* The shared channel is closed only when no output can send on it any more,
\* and the WaitGroup counts the outputs still running.
NoSendOnClosed == /\ outClosed => \A b \in Branch : output[b] = "end"
                  /\ wg = Cardinality({b \in Branch : output[b] # "end"})

\* What the pipeline keeps up besides.
MergeInv == MergeTypeOK /\ Genuine /\ NoSendOnClosed

\* The pipeline is lazy: gen is never further ahead of main than the branches
\* can hold, one number in a sq and one in an output.
MergeReadAhead == (next - 2) <= Len(received) + 2 * Size

\* main gets its values although it may ask for more than there are, and once
\* it has left no goroutine stays blocked on a send nobody receives.
AllExit == <>[]Finished
=============================================================================
