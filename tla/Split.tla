------------------------------- MODULE Split --------------------------------
(***************************************************************************)
(* split of power-series.go: two consumers read the same series, each at   *)
(* its own pace.  A doSplit goroutine takes one term f of F and offers it  *)
(* to whoever asks first.  The other consumer is still owed f, so the      *)
(* goroutine starts a new doSplit which takes the next terms and sends     *)
(* those for the other consumer to H; itself it sends f to the other       *)
(* consumer and then copies H to it for ever.                              *)
(*                                                                         *)
(* The goroutines that split has started are numbered in the order of      *)
(* their go statements; the channel H of goroutine p is named p, and the   *)
(* channels FF[0] and FF[1] are named F0 and F1.  The channels are         *)
(* unbuffered: a send and its receive are one joint step.                  *)
(***************************************************************************)
EXTENDS Naturals, Integers, Sequences, FiniteSets

CONSTANTS Terms,                 \* F yields the terms 1..Terms; F has no end
          Reader                 \* the consumers sure to read on, if any

F0 == -1
F1 == -2
Consumer == {F0, F1}

ASSUME TermsAssumption  == Terms \in Nat
ASSUME ReaderAssumption == Reader \subseteq Consumer

VARIABLES term,                  \* the term F offers
          proc,                  \* the goroutines
          got                    \* the terms each consumer has received

vars == <<term, proc, got>>

Proc    == DOMAIN proc
Channel == Consumer \union Proc

\* In select a doSplit offers val on left and on right; "owed" is the send of
\* val to right, and "copy" the loop of pscopy from H to right, val being
\* the term it has received and not yet sent, or 0.
State == [pc : {"take", "select", "owed", "copy"}, val : 0..Terms,
          left : Consumer \union Nat, right : Consumer \union Nat]

TypeOK == /\ term \in 1..(Terms + 1)
          /\ proc \in Seq(State)
          /\ \A p \in Proc : proc[p].left \in Channel /\ proc[p].right \in Channel
          /\ got \in [Consumer -> Seq(1..Terms)]

DoSplit(l, r) == [pc |-> "take", val |-> 0, left |-> l, right |-> r]

Init == /\ term = 1
        /\ proc = <<DoSplit(F0, F1)>>
        /\ got = [c \in Consumer |-> <<>>]
-----------------------------------------------------------------------------
\* f := <-F
Take(p) == /\ proc[p].pc = "take" /\ term <= Terms
           /\ proc' = [proc EXCEPT ![p].pc = "select", ![p].val = term]
           /\ term' = term + 1
           /\ UNCHANGED got

\* Faulty variant: the first consumer is served before the second.
OffersLeft(p) == CASE proc[p].pc = "select" -> {proc[p].left}
                   [] proc[p].pc = "owed" -> {proc[p].right}
                   [] proc[p].pc = "copy" /\ proc[p].val # 0 -> {proc[p].right}
                   [] OTHER -> {}

\* The channels p may send on now.
Offers(p) == CASE proc[p].pc = "select" -> {proc[p].left, proc[p].right}
               [] proc[p].pc = "owed" -> {proc[p].right}
               [] proc[p].pc = "copy" /\ proc[p].val # 0 -> {proc[p].right}
               [] OTHER -> {}

\* Faulty variants: the new doSplit keeps the channel that p still owes a
\* term to, or p forgets that debt and begins to copy.
AfterSendShares(p, c) ==
  IF proc[p].pc = "select" /\ c = proc[p].left
  THEN Append([proc EXCEPT ![p].pc = "owed"], DoSplit(proc[p].left, proc[p].right))
  ELSE IF proc[p].pc = "select"
  THEN Append([proc EXCEPT ![p].pc = "owed", ![p].right = proc[p].left],
              DoSplit(p, proc[p].right))
  ELSE [proc EXCEPT ![p].pc = "copy", ![p].val = 0]
AfterSendForgets(p, c) ==
  IF proc[p].pc = "select" /\ c = proc[p].left
  THEN Append([proc EXCEPT ![p].pc = "copy", ![p].val = 0], DoSplit(proc[p].left, p))
  ELSE IF proc[p].pc = "select"
  THEN Append([proc EXCEPT ![p].pc = "owed", ![p].right = proc[p].left],
              DoSplit(p, proc[p].right))
  ELSE [proc EXCEPT ![p].pc = "copy", ![p].val = 0]

\* The goroutines after p has sent on c.  The case of the select that was
\* taken decides who is owed the term and where the new doSplit sends.
AfterSend(p, c) ==
  IF proc[p].pc = "select" /\ c = proc[p].left
  THEN Append([proc EXCEPT ![p].pc = "owed"], DoSplit(proc[p].left, p))
  ELSE IF proc[p].pc = "select"
  THEN Append([proc EXCEPT ![p].pc = "owed", ![p].right = proc[p].left],
              DoSplit(p, proc[p].right))
  ELSE [proc EXCEPT ![p].pc = "copy", ![p].val = 0]

\* A send to a consumer.
Deliver(p, c) == /\ c \in Offers(p) \intersect Consumer
                 /\ got' = [got EXCEPT ![c] = Append(@, proc[p].val)]
                 /\ proc' = AfterSend(p, c)
                 /\ UNCHANGED term

\* Faulty variant: the copy takes a term before the last one is sent.
ForwardOver(p, q) == /\ q \in Offers(p) \intersect Proc
                     /\ proc[q].pc = "copy"
                     /\ proc' = [AfterSend(p, q) EXCEPT ![q].val = proc[p].val]
                     /\ UNCHANGED <<term, got>>

\* A send on the H of goroutine q, which is in pscopy and ready to receive.
Forward(p, q) == /\ q \in Offers(p) \intersect Proc
                 /\ proc[q].pc = "copy" /\ proc[q].val = 0
                 /\ proc' = [AfterSend(p, q) EXCEPT ![q].val = proc[p].val]
                 /\ UNCHANGED <<term, got>>

Next == \E p \in Proc : \/ Take(p)
                        \/ \E c \in Consumer : Deliver(p, c)
                        \/ \E q \in Proc : Forward(p, q)

Spec == Init /\ [][Next]_vars

\* Goroutines are scheduled fairly.  The consumers in Reader receive again
\* and again; of the others nothing is assumed.
Fairness == /\ WF_vars(\E p \in Proc : Take(p))
            /\ WF_vars(\E p, q \in Proc : Forward(p, q))
            /\ \A c \in Reader : WF_vars(\E p \in Proc : Deliver(p, c))

FairSpec == Spec /\ Fairness
-----------------------------------------------------------------------------
(* Properties                                                              *)

\* Each consumer has received the series from its first term on, in order,
\* none lost and none twice, whatever the pace of the other.
SameSeries == \A c \in Consumer : got[c] = [j \in 1..Len(got[c]) |-> j]

\* No two goroutines ever have the same channel to send on: the handing over
\* of a channel to the new doSplit is final.  Without this the order of the
\* terms would hang on the scheduler.
Ends(p) == IF proc[p].pc \in {"take", "select"} THEN {proc[p].left, proc[p].right}
           ELSE {proc[p].right}
OneSender == \A p, q \in Proc : p # q => Ends(p) \intersect Ends(q) = {}

\* Every term a consumer has yet to receive, of those taken from F, is with
\* some goroutine.
Owed == \A c \in Consumer :
          (Len(got[c]) + 1)..(term - 1) \subseteq {proc[p].val : p \in Proc}

\* What the goroutines keep up between them.
Inv == TypeOK /\ OneSender /\ Owed

\* The copying goroutines ask for terms no consumer has asked for, and there
\* is one more of them with every term: F is read ahead of both consumers,
\* but never by more than one term and as many as the faster one has had.
ReadAhead ==
  \E c \in Consumer : term - 1 <= 2 * Len(got[c]) + 1

\* A consumer that reads on gets the whole series, even if the other one
\* never reads.
Independent == \A c \in Reader : <>(Len(got[c]) = Terms)
=============================================================================
