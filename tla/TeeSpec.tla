------------------------------ MODULE TeeSpec -------------------------------
(***************************************************************************)
(* What a tee promises, however it buffers: each destination is given the  *)
(* input in order and without repetition.  What has been read and not yet  *)
(* given to d is owed to d, and as long as d is fit, able to take data,    *)
(* nothing owed to it is dropped.                                          *)
(***************************************************************************)
EXTENDS Naturals, Sequences

CONSTANTS Dests, Input

VARIABLES took,                  \* how much of Input has been read
          copy, owed,            \* given to each destination, due to it
          fit                    \* the destinations that can take data

Init == /\ took = 0 /\ fit \in SUBSET Dests
        /\ copy = [d \in Dests |-> <<>>]
        /\ owed = [d \in Dests |-> <<>>]

\* d is given the first n of what is due, and the rest stays owed; when d
\* is not fit, more may go.
Give(d, due) == \E n \in 0 .. Len(due) :
  /\ copy'[d] = copy[d] \o SubSeq(due, 1, n)
  /\ \E k \in n .. Len(due) : /\ owed'[d] = SubSeq(due, k + 1, Len(due))
                              /\ d \in fit' => k = n

\* The input is read up to t, and the destinations are served.
Serve(t) == /\ took' = t /\ fit' \subseteq fit
            /\ copy' = [d \in Dests |-> copy'[d]]
            /\ owed' = [d \in Dests |-> owed'[d]]
            /\ \A d \in Dests : Give(d, owed[d] \o SubSeq(Input, took + 1, t))

Next == \E t \in took .. Len(Input) : Serve(t)

Spec == Init /\ [][Next]_<<took, copy, owed, fit>>
=============================================================================
