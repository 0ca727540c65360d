------------------------ MODULE BoundedSerial_proof -------------------------
(* bounded-serial.go keeps the promise of MD5All for every tree and every  *)
(* number of digesters: Inv is inductive, and under it every step of the   *)
(* program is a step of the abstract specification or a stutter.           *)
EXTENDS BoundedSerial, TLAPS, FiniteSetTheorems

\* Facts about the promise's operators that the steps below rely on.
LEMMA PromiseFacts ==
  /\ Entry = 1..N
  /\ Promise!Pending = [sums |-> {}, err |-> "pending", file |-> 0]
BY DEF Entry, Promise!Entry, Promise!Pending

\* One digester leaving the set of live ones takes one from its size: the
\* counter of the WaitGroup stays equal to the number of live digesters.
LEMMA OneLess ==
  ASSUME NEW S \in SUBSET Digester, NEW d \in S
  PROVE  /\ Cardinality(S) \in Nat \ {0}
         /\ Cardinality(S \ {d}) = Cardinality(S) - 1
<1>1. IsFiniteSet(S)
  BY DigesterAssumption, FS_Subset
<1>2. Cardinality(S \ {d}) = Cardinality(S) - 1
  BY <1>1, FS_RemoveElement
<1>3. Cardinality(S) \in Nat /\ Cardinality(S \ {d}) \in Nat
  BY <1>1, FS_CardinalityType, FS_Subset
<1> QED
  BY <1>2, <1>3

\* No live digester is left exactly when their number is zero.
LEMMA NoneLeft ==
  ASSUME NEW S \in SUBSET Digester, Cardinality(S) = 0
  PROVE  S = {}
BY DigesterAssumption, FS_Subset, FS_EmptySet

\* The program starts in the invariant.
LEMMA InitInv == Init => Inv
<1> SUFFICES ASSUME Init PROVE Inv
  OBVIOUS
<1> USE NAssumption, PromiseFacts DEF Init
<1>1. TypeOK
  <2>1. Cardinality(Digester) \in Nat
    BY DigesterAssumption, FS_CardinalityType
  <2>2. ret \in [sums : SUBSET Entry, err : {"pending", "nil", "read", "walk", "canceled"},
              file : 0..N]
    OBVIOUS
  <2>3. next \in 1..(N + 1) /\ 0 \in 0..N
    OBVIOUS
  <2> QED
    BY <2>1, <2>2, <2>3 DEF TypeOK
<1>2. NoPanic
  <2>1. {d \in Digester : dpc[d] # "end"} = Digester
    OBVIOUS
  <2> QED
    BY <2>1 DEF NoPanic
<1>3. NothingLost
  BY DEF NothingLost
<1>4. WalkerInv /\ DigesterInv /\ DoneInv
  BY DEF WalkerInv, DigesterInv, DoneInv
<1> QED
  BY <1>1, <1>2, <1>3, <1>4 DEF Inv

\* Every step of the program keeps the invariant.
LEMMA NextInv == Inv /\ [Next]_vars => Inv'
<1> SUFFICES ASSUME Inv, [Next]_vars PROVE Inv'
  OBVIOUS
<1> USE NAssumption, PromiseFacts
<1>t. TypeOK /\ NoPanic /\ NothingLost /\ WalkerInv /\ DigesterInv /\ DoneInv
  BY DEF Inv
<1>1. CASE WalkSkip
  <2> USE <1>1, <1>t DEF WalkSkip
  <2>1. TypeOK'
    BY DEF TypeOK
  <2>2. NoPanic' /\ DoneInv'
    BY DEF NoPanic, DoneInv
  <2>3. NothingLost'
    BY DEF NothingLost, TypeOK, IsFile
  <2>4. WalkerInv' /\ DigesterInv'
    BY DEF WalkerInv, DigesterInv, TypeOK, IsFile
  <2> QED
    BY <2>1, <2>2, <2>3, <2>4 DEF Inv
<1>2. ASSUME NEW e \in {"nil", "walk", "canceled"}, WalkReturns(e),
             e = "nil" => next = N + 1,
             e = "walk" => next \in Entry /\ kind[next] = "broken",
             e = "canceled" => done
      PROVE  Inv'
  <2> USE <1>2, <1>t DEF WalkReturns
  <2>1. TypeOK'
    BY DEF TypeOK
  <2>2. NoPanic' /\ DoneInv'
    BY DEF NoPanic, DoneInv
  <2>3. NothingLost'
    BY DEF NothingLost, IsFile
  <2>4. WalkerInv' /\ DigesterInv'
    BY DEF WalkerInv, DigesterInv, IsFile
  <2> QED
    BY <2>1, <2>2, <2>3, <2>4 DEF Inv
<1>3. CASE ClosePaths
  <2> USE <1>3, <1>t DEF ClosePaths
  <2>1. TypeOK'
    BY DEF TypeOK
  <2>2. NoPanic' /\ DoneInv'
    BY DEF NoPanic, DoneInv
  <2>3. NothingLost'
    BY DEF NothingLost, IsFile
  <2>4. WalkerInv' /\ DigesterInv'
    BY DEF WalkerInv, DigesterInv, IsFile
  <2> QED
    BY <2>1, <2>2, <2>3, <2>4 DEF Inv
<1>4. ASSUME NEW d \in Digester, WalkSend(d) PROVE Inv'
  <2> USE <1>4, <1>t DEF WalkSend
  <2>1. TypeOK'
    BY DEF TypeOK
  <2>2. NoPanic'
    <3>1. {e \in Digester : dpc'[e] # "end"} = {e \in Digester : dpc[e] # "end"}
      BY DEF TypeOK
    <3>2. wg' = Cardinality({e \in Digester : dpc'[e] # "end"})
      BY <3>1 DEF NoPanic
    <3>3. ~cClosed'
      BY DEF NoPanic
    <3> QED
      BY <3>2, <3>3 DEF NoPanic
  <2>3. NothingLost'
    <3>1. \A i \in 1..(next' - 1) : i = next \/ i \in 1..(next - 1)
      BY DEF TypeOK
    <3>2. \A i \in sums : i < next
      BY DEF DigesterInv
    <3>3. \A e \in Digester : dpc[e] = "send" => item[e] \in 1..(next - 1)
      BY DEF DigesterInv
    <3>4. \A e \in Digester : e # d => dpc'[e] = dpc[e] /\ item'[e] = item[e]
      BY DEF TypeOK
    <3>5. dpc'[d] = "send" /\ item'[d] = next
      BY DEF TypeOK
    <3>6. mpc' \in {"range", "errc"} =>
            \A i \in 1..(next' - 1) :
              IsFile(i)' => i \in sums' \/ \E e \in Digester : dpc'[e] = "send" /\ item'[e] = i
      BY <3>1, <3>4, <3>5 DEF NothingLost, IsFile
    <3>7. ASSUME NEW e \in Digester, dpc'[e] = "send"
          PROVE  /\ item'[e] \notin sums'
                 /\ \A f \in Digester : dpc'[f] = "send" /\ item'[f] = item'[e] => f = e
      <4>1. next \notin sums /\ \A f \in Digester : dpc[f] = "send" => item[f] # next
        BY <3>2, <3>3 DEF TypeOK
      <4> QED
        BY <3>4, <3>5, <3>7, <4>1 DEF NothingLost
    <3> QED
      BY <3>6, <3>7 DEF NothingLost
  <2>4. WalkerInv'
    BY DEF WalkerInv, TypeOK, IsFile
  <2>5. DigesterInv'
    BY DEF DigesterInv, TypeOK, IsFile
  <2>6. DoneInv'
    BY DEF DoneInv, NoPanic
  <2> QED
    BY <2>1, <2>2, <2>3, <2>4, <2>5, <2>6 DEF Inv
<1>5. ASSUME NEW d \in Digester, DigesterDrained(d) \/ DigesterCanceled(d) PROVE Inv'
  <2> /\ dpc[d] \in {"recv", "send"} /\ (dpc[d] = "send" => done)
      /\ (pathsClosed \/ done) /\ dpc' = [dpc EXCEPT ![d] = "exit"]
      /\ UNCHANGED <<kind, wpc, next, errc, pathsClosed, item, wg, cClosed, mpc,
                     sums, ret, done>>
    BY <1>5 DEF DigesterDrained, DigesterCanceled
  <2> USE <1>t
  <2>1. TypeOK'
    BY DEF TypeOK
  <2>2. NoPanic'
    <3>1. {e \in Digester : dpc'[e] # "end"} = {e \in Digester : dpc[e] # "end"}
      BY DEF TypeOK
    <3>2. wg' = Cardinality({e \in Digester : dpc'[e] # "end"})
      BY <3>1 DEF NoPanic
    <3>3. ~cClosed'
      BY DEF NoPanic
    <3> QED
      BY <3>2, <3>3 DEF NoPanic
  <2>3. NothingLost'
    BY DEF NothingLost, IsFile, TypeOK, DoneInv
  <2>4. WalkerInv' /\ DoneInv'
    BY DEF WalkerInv, DoneInv
  <2>5. DigesterInv'
    BY DEF DigesterInv, TypeOK, IsFile
  <2> QED
    BY <2>1, <2>2, <2>3, <2>4, <2>5 DEF Inv
<1>6. ASSUME NEW d \in Digester, Deliver(d) PROVE Inv'
  <2> USE <1>6, <1>t DEF Deliver
  <2>1. TypeOK'
    <3>1. sums' \in SUBSET Entry
      <4>1. item[d] \in 1..(next - 1) /\ next \in 1..(N + 1)
        BY DEF DigesterInv, TypeOK
      <4>2. item[d] \in Entry
        BY <4>1
      <4> QED
        BY <4>2 DEF TypeOK
    <3>2. ret' \in [sums : SUBSET Entry, err : {"pending", "nil", "read", "walk", "canceled"},
              file : 0..N]
      BY DEF TypeOK
    <3>3. mpc' \in {"range", "errc", "return", "end"}
      BY DEF TypeOK
    <3>4. dpc' \in [Digester -> {"recv", "send", "exit", "end"}]
      BY DEF TypeOK
    <3> QED
      BY <3>1, <3>2, <3>3, <3>4 DEF TypeOK
  <2>2. NoPanic'
    <3>1. {e \in Digester : dpc'[e] # "end"} = {e \in Digester : dpc[e] # "end"}
      BY DEF TypeOK
    <3>2. wg' = Cardinality({e \in Digester : dpc'[e] # "end"})
      BY <3>1 DEF NoPanic
    <3>3. ~cClosed'
      BY DEF NoPanic
    <3> QED
      BY <3>2, <3>3 DEF NoPanic
  <2>3. NothingLost'
    <3>1. dpc' = [dpc EXCEPT ![d] = "recv"]
      OBVIOUS
    <3>2. \A e \in Digester : dpc'[e] = "send" => e # d /\ dpc[e] = "send"
      BY <3>1 DEF TypeOK
    <3>3. \A e \in Digester : e # d => dpc'[e] = dpc[e]
      BY <3>1 DEF TypeOK
    <3>4. \A e \in Digester : dpc'[e] = "send" => item[e] # item[d]
      BY <3>2 DEF NothingLost
    <3>5. sums' \subseteq sums \union {item[d]} /\ sums \subseteq sums'
      OBVIOUS
    <3>6. mpc' = "range" => item[d] \in sums'
      OBVIOUS
    <3>7. mpc' \in {"range", "errc"} =>
            \A i \in 1..(next - 1) :
              IsFile(i)' => i \in sums' \/ \E e \in Digester : dpc'[e] = "send" /\ item[e] = i
      <4> SUFFICES ASSUME mpc' \in {"range", "errc"}, NEW i \in 1..(next - 1), IsFile(i)',
                          i \notin sums'
                   PROVE  \E e \in Digester : dpc'[e] = "send" /\ item[e] = i
        OBVIOUS
      <4>1. mpc' = "range"
        OBVIOUS
      <4>2. PICK e \in Digester : dpc[e] = "send" /\ item[e] = i
        BY <3>5 DEF NothingLost, IsFile
      <4>3. e # d
        BY <3>6, <4>1, <4>2
      <4> QED
        BY <3>3, <4>2, <4>3
    <3>8. \A e \in Digester : dpc'[e] = "send" =>
            /\ item[e] \notin sums'
            /\ \A f \in Digester : dpc'[f] = "send" /\ item[f] = item[e] => f = e
      BY <3>2, <3>4, <3>5 DEF NothingLost
    <3> QED
      BY <3>7, <3>8 DEF NothingLost
  <2>4. WalkerInv'
    BY DEF WalkerInv
  <2>5. DigesterInv'
    <3>1. \A i \in sums' : i < next /\ kind[i] = "regular"
      <4>1. item[d] < next
        BY DEF DigesterInv, TypeOK
      <4> QED
        BY <4>1 DEF DigesterInv
    <3>2. \A e \in Digester : dpc'[e] # "recv" => dpc'[e] = dpc[e]
      BY DEF TypeOK
    <3>3. dpc'[d] = "recv"
      BY DEF TypeOK
    <3> QED
      BY <3>1, <3>2, <3>3 DEF DigesterInv, IsFile
  <2>6. DoneInv'
    BY DEF DoneInv
  <2> QED
    BY <2>1, <2>2, <2>3, <2>4, <2>5, <2>6 DEF Inv
<1>7. ASSUME NEW d \in Digester, WgDone(d) PROVE Inv'
  <2> USE <1>7, <1>t DEF WgDone
  <2> DEFINE Live == {e \in Digester : dpc[e] # "end"}
  <2>0. d \in Live /\ {e \in Digester : dpc'[e] # "end"} = Live \ {d}
    BY DEF TypeOK
  <2>1. wg \in Nat \ {0} /\ wg' = Cardinality({e \in Digester : dpc'[e] # "end"})
    BY <2>0, OneLess DEF NoPanic
  <2>2. TypeOK'
    BY <2>1 DEF TypeOK
  <2>3. NoPanic'
    BY <2>1 DEF NoPanic, TypeOK
  <2>4. NothingLost'
    BY DEF NothingLost, IsFile, TypeOK
  <2>5. WalkerInv' /\ DoneInv'
    BY DEF WalkerInv, DoneInv
  <2>6. DigesterInv'
    <3>1. \A e \in Digester : e # d => dpc'[e] = dpc[e]
      BY DEF TypeOK
    <3>2. dpc[d] = "exit" /\ dpc'[d] = "end"
      BY DEF TypeOK
    <3> QED
      BY <3>1, <3>2 DEF DigesterInv, IsFile
  <2> QED
    BY <2>2, <2>3, <2>4, <2>5, <2>6 DEF Inv
<1>8. CASE CloseC
  <2> USE <1>8, <1>t DEF CloseC
  <2>1. \A d \in Digester : dpc[d] = "end"
    <3>1. {e \in Digester : dpc[e] # "end"} = {}
      BY NoneLeft DEF NoPanic
    <3> QED
      BY <3>1
  <2>2. NoPanic'
    BY <2>1 DEF NoPanic
  <2>3. TypeOK' /\ NothingLost' /\ WalkerInv' /\ DigesterInv' /\ DoneInv'
    BY DEF TypeOK, NothingLost, WalkerInv, DigesterInv, DoneInv, IsFile
  <2> QED
    BY <2>2, <2>3 DEF Inv
<1>9. CASE RangeEnds
  <2> USE <1>9, <1>t DEF RangeEnds
  <2> QED
    BY DEF Inv, TypeOK, NoPanic, NothingLost, WalkerInv, DigesterInv, DoneInv, IsFile
<1>10. CASE ReceiveErr
  <2> USE <1>10, <1>t DEF ReceiveErr
  <2>1. TypeOK' /\ NoPanic' /\ NothingLost' /\ WalkerInv' /\ DigesterInv'
    BY DEF TypeOK, NoPanic, NothingLost, WalkerInv, DigesterInv, IsFile
  <2>2. DoneInv'
    BY DEF DoneInv, TypeOK
  <2> QED
    BY <2>1, <2>2 DEF Inv
<1>11. CASE CloseDone
  <2> USE <1>11, <1>t DEF CloseDone
  <2> QED
    BY DEF Inv, TypeOK, NoPanic, NothingLost, WalkerInv, DigesterInv, DoneInv, IsFile
<1>12. CASE UNCHANGED vars
  <2> USE <1>12, <1>t DEF vars
  <2>1. TypeOK'
    BY DEF TypeOK
  <2>2. NoPanic' /\ DoneInv'
    BY DEF NoPanic, DoneInv
  <2>3. NothingLost' /\ WalkerInv' /\ DigesterInv'
    BY DEF NothingLost, WalkerInv, DigesterInv, IsFile
  <2> QED
    BY <2>1, <2>2, <2>3 DEF Inv
<1>13. CASE WalkEnd \/ WalkBroken \/ WalkCanceled
  BY <1>2, <1>13 DEF WalkEnd, WalkBroken, WalkCanceled
<1> QED
  BY <1>1, <1>3, <1>4, <1>5, <1>6, <1>7, <1>8, <1>9, <1>10, <1>11, <1>12, <1>13
  DEF Next, Walker, DigesterOf, Main

\* Every reachable state of bounded-serial.go satisfies the invariant, for
\* every tree and every number of digesters.
THEOREM InvHolds == Spec => []Inv
BY InitInv, NextInv, PTL DEF Spec

\* In particular no send on a closed channel and no negative WaitGroup
\* counter, however many digesters run (the code starts 20).
THEOREM NeverPanics == Spec => []NoPanic
<1>1. Inv => NoPanic
  BY DEF Inv
<1> QED
  BY <1>1, InvHolds, PTL
-----------------------------------------------------------------------------
(* The promise.                                                            *)

\* The walker's position delimits what Walk visits.
LEMMA VisitedPrefix ==
  ASSUME Inv
  PROVE  /\ \A i \in 1..(next - 1) : i \in Promise!Visited
         /\ next \in Entry /\ kind[next] = "broken" => Promise!Visited = 1..(next - 1)
<1> USE NAssumption, PromiseFacts DEF Promise!Entry
<1>1. next \in 1..(N + 1) /\ \A i \in 1..(next - 1) : kind[i] # "broken"
  BY DEF Inv, TypeOK, WalkerInv
<1>2. \A i \in 1..(next - 1) : i \in Promise!Visited
  BY <1>1 DEF Promise!Visited
<1>3. ASSUME next \in Entry, kind[next] = "broken"
      PROVE  Promise!Visited \subseteq 1..(next - 1)
  BY <1>1, <1>3 DEF Promise!Visited
<1> QED
  BY <1>2, <1>3

\* The value ReceiveErr returns is an outcome the tree allows.
LEMMA ReceiveErrStep ==
  ASSUME Inv, ReceiveErr
  PROVE  ret' \in Promise!Outcomes
<1> USE NAssumption, PromiseFacts
<1>1. /\ cClosed /\ ~done /\ mpc = "errc" /\ errc # "empty"
      /\ \A d \in Digester : dpc[d] = "end"
  BY DEF ReceiveErr, Inv, DoneInv, NoPanic
<1>2. errc \in {"nil", "walk"}
  BY <1>1 DEF Inv, TypeOK, DoneInv
<1>3. next \in 1..(N + 1) /\ sums \subseteq Entry
  BY DEF Inv, TypeOK
<1>4. \A i \in 1..(next - 1) : IsFile(i) => i \in sums
  BY <1>1 DEF Inv, NothingLost
<1>5. \A i \in sums : i < next /\ kind[i] = "regular"
  BY DEF Inv, DigesterInv
<1>6. \A i \in 1..(next - 1) : kind[i] # "unreadable" /\ kind[i] # "broken"
  BY <1>4, <1>5 DEF IsFile, Inv, WalkerInv
<1>7. CASE errc = "nil"
  <2>1. next = N + 1
    BY <1>7 DEF Inv, WalkerInv
  <2>2. \A i \in Entry : kind[i] # "unreadable" /\ kind[i] # "broken"
    BY <1>6, <2>1
  <2>3. sums = {i \in Entry : kind[i] = "regular"}
    <3>1. \A i \in Entry : kind[i] = "regular" => i \in sums
      BY <1>4, <2>1 DEF IsFile
    <3>2. \A i \in sums : i \in Entry /\ kind[i] = "regular"
      BY <1>3, <1>5
    <3> QED
      BY <3>1, <3>2
  <2>4. ret' = [sums |-> sums, err |-> "nil", file |-> 0]
    BY <1>7 DEF ReceiveErr
  <2> QED
    BY <2>2, <2>3, <2>4 DEF Promise!Outcomes, Promise!Unreadable, Promise!Visited, Promise!Entry
<1>8. CASE errc = "walk"
  <2>1. next \in Entry /\ kind[next] = "broken"
    BY <1>8 DEF Inv, WalkerInv
  <2>2. Promise!Visited = 1..(next - 1)
    BY <2>1, VisitedPrefix
  <2>3. ret' = [sums |-> {}, err |-> "walk", file |-> 0]
    BY <1>8 DEF ReceiveErr
  <2>4. Promise!Unreadable = {}
    BY <1>6, <2>2 DEF Promise!Unreadable
  <2>5. \E i \in Promise!Entry : kind[i] = "broken"
    BY <2>1 DEF Promise!Entry
  <2> QED
    BY <2>3, <2>4, <2>5 DEF Promise!Outcomes
<1> QED
  BY <1>2, <1>7, <1>8

\* The value a failed read returns is an outcome the tree allows.
LEMMA FailedReadStep ==
  ASSUME Inv, NEW d \in Digester, Deliver(d), ret' # ret
  PROVE  ret' \in Promise!Outcomes
<1> USE NAssumption, PromiseFacts
<1>1. kind[item[d]] = "unreadable" /\ ret' = [sums |-> {}, err |-> "read", file |-> item[d]]
  BY DEF Deliver
<1>2. item[d] \in 1..(next - 1)
  BY DEF Deliver, Inv, DigesterInv
<1>3. item[d] \in Promise!Visited
  BY <1>2, VisitedPrefix
<1> QED
  BY <1>1, <1>3 DEF Promise!Outcomes, Promise!Unreadable

\* bounded-serial.go implements the promise of MD5All: its only visible step
\* is one return, of an outcome the tree allows, for every tree and every
\* number of digesters.
THEOREM ImplementsPromise == Spec => Implements
<1>1. Init => Promise!Init
  BY PromiseFacts DEF Init, Promise!Init, Entry, Promise!Entry
<1>2. Inv /\ [Next]_vars => [Promise!Return]_<<kind, ret>>
  <2> SUFFICES ASSUME Inv, [Next]_vars, ret' # ret \/ kind' # kind
               PROVE  Promise!Return
    BY DEF Promise!Return
  <2>1. CASE ReceiveErr
    <3>1. ret = Promise!Pending /\ kind' = kind
      BY <2>1 DEF ReceiveErr, Inv, DoneInv
    <3> QED
      BY <2>1, <3>1, ReceiveErrStep DEF Promise!Return
  <2>2. ASSUME NEW d \in Digester, Deliver(d) PROVE Promise!Return
    <3>1. ret = Promise!Pending /\ kind' = kind /\ ret' # ret
      BY <2>2 DEF Deliver, Inv, DoneInv
    <3> QED
      BY <2>2, <3>1, FailedReadStep DEF Promise!Return
  <2>3. CASE Walker \/ CloseC \/ RangeEnds \/ CloseDone \/ UNCHANGED vars
    BY <2>3 DEF Walker, WalkSkip, WalkEnd, WalkBroken, WalkCanceled, WalkReturns,
       ClosePaths, CloseC, RangeEnds, CloseDone, vars
  <2>4. ASSUME NEW d \in Digester,
               WalkSend(d) \/ DigesterDrained(d) \/ DigesterCanceled(d) \/ WgDone(d)
        PROVE  Promise!Return
    BY <2>4 DEF WalkSend, DigesterDrained, DigesterCanceled, WgDone
  <2> QED
    BY <2>1, <2>2, <2>3, <2>4 DEF Next, DigesterOf, Main
<1> QED
  BY <1>1, <1>2, InvHolds, PTL DEF Implements, Spec, Promise!Spec
=============================================================================
