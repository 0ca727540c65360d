-------------------------- MODULE ParSerial_proof ---------------------------
(* par-serial.go keeps the promise of MD5All for every tree: Inv is        *)
(* inductive, and under it the one visible step of the program is the      *)
(* return of the outcome that the tree alone decides.                      *)
EXTENDS ParSerial, TLAPS, FiniteSetTheorems, WellFoundedInduction

\* Facts about the promise's operators that the steps below rely on.
LEMMA PromiseFacts ==
  /\ Entry = 1..N
  /\ Promise!Pending = [sums |-> {}, err |-> "pending", file |-> 0]
  /\ Promise!Kind = {"regular", "unreadable", "other", "broken"}
BY DEF Entry, Promise!Entry, Promise!Pending, Promise!Kind

\* What the WaitGroup counts changes by one when a goroutine is started or
\* has called wg.Done, and is zero only when none is running.
LEMMA Counting ==
  ASSUME NEW S \in SUBSET Entry
  PROVE  /\ Cardinality(S) \in Nat
         /\ Cardinality(S) = 0 => S = {}
         /\ \A i \in Entry \ S : Cardinality(S \union {i}) = Cardinality(S) + 1
         /\ \A i \in S : /\ Cardinality(S) \in Nat \ {0}
                         /\ Cardinality(S \ {i}) = Cardinality(S) - 1
<1>1. IsFiniteSet(Entry)
  BY PromiseFacts, NAssumption, FS_Interval
<1>2. IsFiniteSet(S)
  BY <1>1, FS_Subset
<1>3. Cardinality(S) \in Nat /\ (Cardinality(S) = 0 => S = {})
  BY <1>2, FS_CardinalityType, FS_EmptySet
<1>4. \A i \in Entry \ S : Cardinality(S \union {i}) = Cardinality(S) + 1
  BY <1>2, FS_AddElement
<1>5. ASSUME NEW i \in S
      PROVE  Cardinality(S) \in Nat \ {0} /\ Cardinality(S \ {i}) = Cardinality(S) - 1
  BY <1>2, <1>3, FS_RemoveElement
<1> QED
  BY <1>3, <1>4, <1>5

\* The program starts in the invariant.
LEMMA InitInv == Init => Inv
<1> SUFFICES ASSUME Init PROVE Inv
  OBVIOUS
<1> USE NAssumption, PromiseFacts DEF Init
<1>1. TypeOK
  <2>1. ret \in [sums : SUBSET Entry, err : {"pending", "nil", "read", "walk", "canceled"},
              file : 0..N]
    OBVIOUS
  <2>2. next \in 1..(N + 1) /\ wg \in Nat
    OBVIOUS
  <2> QED
    BY <2>1, <2>2 DEF TypeOK, Verdict
<1>2. NoPanic
  <2>1. {i \in Entry : fpc[i] \in {"send", "exit"}} = {}
    OBVIOUS
  <2> QED
    BY <2>1, FS_EmptySet DEF NoPanic
<1>3. NothingLost /\ WalkerInv /\ FileInv /\ DoneInv
  BY DEF NothingLost, WalkerInv, FileInv, DoneInv
<1> QED
  BY <1>1, <1>2, <1>3 DEF Inv

\* The goroutines the WaitGroup counts.
Running == {i \in Entry : fpc[i] \in {"send", "exit"}}

\* Every step of the program keeps the invariant.
LEMMA NextInv == Inv /\ [Next]_vars => Inv'
<1> SUFFICES ASSUME Inv, [Next]_vars PROVE Inv'
  OBVIOUS
<1> USE NAssumption, PromiseFacts
<1>t. TypeOK /\ NoPanic /\ NothingLost /\ WalkerInv /\ FileInv /\ DoneInv
  BY DEF Inv
<1>r. Running \in SUBSET Entry /\ wg = Cardinality(Running)
  BY <1>t DEF Running, NoPanic
<1>1. CASE WalkSkip
  <2> USE <1>1, <1>t DEF WalkSkip
  <2>1. TypeOK'
    BY DEF TypeOK
  <2>2. NoPanic' /\ DoneInv'
    BY DEF NoPanic, DoneInv
  <2>3. NothingLost' /\ WalkerInv' /\ FileInv'
    BY DEF NothingLost, WalkerInv, FileInv, TypeOK, IsFile
  <2> QED
    BY <2>1, <2>2, <2>3 DEF Inv
<1>2. CASE WalkSpawn
  <2> USE <1>2, <1>t DEF WalkSpawn
  <2>1. fpc[next] = "none"
    BY DEF FileInv, TypeOK
  <2>2. Running' = Running \union {next} /\ next \notin Running
    BY <2>1 DEF Running, TypeOK
  <2>3. wg' = Cardinality(Running')
    BY <1>r, <2>2, Counting
  <2>4. NoPanic'
    BY <2>3 DEF NoPanic, Running
  <2>5. TypeOK'
    BY DEF TypeOK
  <2>6. NothingLost'
    BY DEF NothingLost, TypeOK, IsFile, WalkerInv
  <2>7. WalkerInv' /\ DoneInv'
    BY DEF WalkerInv, DoneInv, IsFile
  <2>8. FileInv'
    BY <2>1 DEF FileInv, TypeOK, IsFile
  <2> QED
    BY <2>4, <2>5, <2>6, <2>7, <2>8 DEF Inv
<1>3. ASSUME NEW e \in {"nil", "walk", "canceled"}, WalkReturns(e),
             wpc \in {"walk", "poll"},
             e = "nil" => wpc = "walk" /\ next = N + 1,
             e = "walk" => wpc = "walk" /\ next \in Entry /\ kind[next] = "broken",
             e = "canceled" => done
      PROVE  Inv'
  <2> USE <1>3, <1>t DEF WalkReturns
  <2>1. TypeOK'
    BY DEF TypeOK, Verdict
  <2>2. NoPanic' /\ DoneInv'
    BY DEF NoPanic, DoneInv
  <2>3. NothingLost' /\ WalkerInv' /\ FileInv'
    BY DEF NothingLost, WalkerInv, FileInv, IsFile
  <2> QED
    BY <2>1, <2>2, <2>3 DEF Inv
<1>4. ASSUME wpc = "poll", ~done, next' = next + 1, wpc' = "walk",
             UNCHANGED <<kind, walkErr, errc, fpc, wg, cClosed, mpc, sums, ret, done>>
      PROVE  Inv'
  <2> USE <1>4, <1>t
  <2>1. TypeOK'
    BY DEF TypeOK, WalkerInv
  <2>2. NoPanic' /\ DoneInv'
    BY DEF NoPanic, DoneInv
  <2>3. mpc # "end" /\ mpc # "return" => next \in sums \/ fpc[next] = "send"
    BY DEF NothingLost, TypeOK
  <2>4. \A i \in 1..(next' - 1) : i = next \/ i \in 1..(next - 1)
    BY DEF TypeOK
  <2>5. NothingLost'
    BY <2>3, <2>4 DEF NothingLost, IsFile, TypeOK
  <2>6. kind[next] # "broken"
    BY DEF WalkerInv, IsFile
  <2>7. WalkerInv' /\ FileInv'
    BY <2>4, <2>6 DEF WalkerInv, FileInv, IsFile, TypeOK
  <2> QED
    BY <2>1, <2>2, <2>5, <2>7 DEF Inv
<1>5. CASE SendErr
  <2> USE <1>5, <1>t DEF SendErr
  <2>1. TypeOK' /\ NoPanic' /\ NothingLost'
    BY DEF TypeOK, NoPanic, NothingLost, IsFile
  <2>2. WalkerInv' /\ FileInv' /\ DoneInv'
    BY DEF WalkerInv, FileInv, DoneInv, IsFile
  <2> QED
    BY <2>1, <2>2 DEF Inv
<1>6. CASE CloseC
  <2> USE <1>6, <1>t DEF CloseC
  <2>1. TypeOK' /\ NoPanic' /\ NothingLost'
    BY DEF TypeOK, NoPanic, NothingLost, IsFile
  <2>2. WalkerInv' /\ FileInv' /\ DoneInv'
    BY DEF WalkerInv, FileInv, DoneInv, IsFile
  <2> QED
    BY <2>1, <2>2 DEF Inv
<1>7. ASSUME NEW i \in Entry, Deliver(i) PROVE Inv'
  <2> USE <1>7, <1>t DEF Deliver
  <2>1. \A j \in Entry : fpc'[j] = IF j = i THEN "exit" ELSE fpc[j]
    BY DEF TypeOK
  <2>2. Running' = Running
    BY <2>1 DEF Running
  <2>3. NoPanic'
    BY <1>r, <2>2 DEF NoPanic, Running
  <2>4. sums' \subseteq sums \union {i} /\ sums \subseteq sums'
    OBVIOUS
  <2>5. TypeOK'
    <3>1. sums' \in SUBSET Entry
      BY <2>4 DEF TypeOK
    <3>2. ret' \in [sums : SUBSET Entry, err : {"pending", "nil", "read", "walk", "canceled"},
              file : 0..N]
      BY DEF TypeOK
    <3> QED
      BY <3>1, <3>2 DEF TypeOK
  <2>6. mpc' \in {"range", "errc"} => mpc' = "range" /\ i \in sums'
    OBVIOUS
  <2>7. NothingLost'
    <3>1. mpc' \in {"range", "errc"} =>
            \A j \in 1..(next - 1) : IsFile(j)' => j \in sums' \/ fpc'[j] = "send"
      BY <2>1, <2>4, <2>6 DEF NothingLost, IsFile, TypeOK
    <3>2. mpc' \in {"range", "errc"} /\ wpc = "poll" => next \in sums' \/ fpc'[next] = "send"
      BY <2>1, <2>4, <2>6 DEF NothingLost, WalkerInv
    <3> QED
      BY <3>1, <3>2 DEF NothingLost
  <2>8. WalkerInv' /\ DoneInv'
    BY DEF WalkerInv, DoneInv, IsFile
  <2>9. FileInv'
    <3>1. \A j \in sums' : kind[j] = "regular" /\ fpc'[j] \in {"exit", "end"}
      BY <2>1, <2>4 DEF FileInv, TypeOK
    <3> QED
      BY <2>1, <3>1 DEF FileInv, IsFile
  <2> QED
    BY <2>3, <2>5, <2>7, <2>8, <2>9 DEF Inv
<1>8. ASSUME NEW i \in Entry, Cancel(i) PROVE Inv'
  <2> USE <1>8, <1>t DEF Cancel
  <2>1. \A j \in Entry : fpc'[j] = IF j = i THEN "exit" ELSE fpc[j]
    BY DEF TypeOK
  <2>2. Running' = Running
    BY <2>1 DEF Running
  <2>3. NoPanic'
    BY <1>r, <2>2 DEF NoPanic, Running
  <2>4. TypeOK' /\ NothingLost'
    BY DEF TypeOK, NothingLost, DoneInv
  <2>5. WalkerInv' /\ DoneInv'
    BY DEF WalkerInv, DoneInv, IsFile
  <2>6. FileInv'
    BY <2>1 DEF FileInv, IsFile, TypeOK
  <2> QED
    BY <2>3, <2>4, <2>5, <2>6 DEF Inv
<1>9. ASSUME NEW i \in Entry, WgDone(i) PROVE Inv'
  <2> USE <1>9, <1>t DEF WgDone
  <2>1. \A j \in Entry : fpc'[j] = IF j = i THEN "end" ELSE fpc[j]
    BY DEF TypeOK
  <2>2. i \in Running /\ Running' = Running \ {i}
    BY <2>1 DEF Running
  <2>3. wg \in Nat \ {0} /\ wg' = Cardinality(Running')
    BY <1>r, <2>2, Counting
  <2>4. NoPanic'
    BY <2>3 DEF NoPanic, Running
  <2>5. TypeOK'
    BY <2>3 DEF TypeOK
  <2>6. NothingLost'
    BY <2>1 DEF NothingLost, IsFile, TypeOK, WalkerInv
  <2>7. WalkerInv' /\ DoneInv'
    BY DEF WalkerInv, DoneInv, IsFile
  <2>8. FileInv'
    BY <2>1 DEF FileInv, IsFile, TypeOK
  <2> QED
    BY <2>4, <2>5, <2>6, <2>7, <2>8 DEF Inv
<1>10. CASE RangeEnds
  <2> USE <1>10, <1>t DEF RangeEnds
  <2>1. TypeOK' /\ NoPanic' /\ NothingLost'
    BY DEF TypeOK, NoPanic, NothingLost, IsFile
  <2>2. WalkerInv' /\ FileInv' /\ DoneInv'
    BY DEF WalkerInv, FileInv, DoneInv, IsFile
  <2> QED
    BY <2>1, <2>2 DEF Inv
<1>11. CASE ReceiveErr
  <2> USE <1>11, <1>t DEF ReceiveErr
  <2>1. TypeOK' /\ NoPanic' /\ NothingLost'
    BY DEF TypeOK, NoPanic, NothingLost, IsFile, Verdict
  <2>2. WalkerInv' /\ FileInv'
    BY DEF WalkerInv, FileInv, IsFile
  <2>3. DoneInv'
    BY DEF DoneInv, TypeOK, Verdict
  <2> QED
    BY <2>1, <2>2, <2>3 DEF Inv
<1>12. CASE CloseDone
  <2> USE <1>12, <1>t DEF CloseDone
  <2>1. TypeOK' /\ NoPanic' /\ NothingLost'
    BY DEF TypeOK, NoPanic, NothingLost, IsFile
  <2>2. WalkerInv' /\ FileInv' /\ DoneInv'
    BY DEF WalkerInv, FileInv, DoneInv, IsFile
  <2> QED
    BY <2>1, <2>2 DEF Inv
<1>13. CASE UNCHANGED vars
  <2> USE <1>13, <1>t DEF vars
  <2>1. TypeOK' /\ NoPanic' /\ NothingLost'
    BY DEF TypeOK, NoPanic, NothingLost, IsFile
  <2>2. WalkerInv' /\ FileInv' /\ DoneInv'
    BY DEF WalkerInv, FileInv, DoneInv, IsFile
  <2> QED
    BY <2>1, <2>2 DEF Inv
<1>14. CASE WalkEnd \/ WalkBroken \/ Poll
  BY <1>3, <1>4, <1>14 DEF WalkEnd, WalkBroken, Poll
<1> QED
  BY <1>1, <1>2, <1>5, <1>6, <1>7, <1>8, <1>9, <1>10, <1>11, <1>12, <1>13, <1>14
  DEF Next, Walker, FileOf, Main

\* Every reachable state of par-serial.go satisfies the invariant, for every
\* tree: no goroutine sends on a closed channel, none is started after the
\* closer has waited, and no file is passed over.
THEOREM InvHolds == Spec => []Inv
BY InitInv, NextInv, PTL DEF Spec
-----------------------------------------------------------------------------
(* The promise.                                                            *)

\* The value ReceiveErr returns is an outcome the tree allows.
LEMMA ReceiveErrStep ==
  ASSUME Inv, ReceiveErr
  PROVE  ret' \in Promise!Outcomes
<1> USE NAssumption, PromiseFacts
<1>t. TypeOK /\ NoPanic /\ NothingLost /\ WalkerInv /\ FileInv /\ DoneInv
  BY DEF Inv
<1>1. cClosed /\ ~done /\ mpc = "errc" /\ errc # "empty" /\ wpc = "end"
  BY <1>t DEF ReceiveErr, DoneInv, WalkerInv
<1>2. errc = walkErr /\ errc \in {"nil", "walk"}
  BY <1>1, <1>t DEF TypeOK, DoneInv, WalkerInv, Verdict
<1>3. \A i \in Entry : fpc[i] \notin {"send", "exit"}
  <2>1. Running \in SUBSET Entry /\ Cardinality(Running) = 0
    BY <1>1, <1>t DEF NoPanic, Running
  <2> QED
    BY <2>1, Counting DEF Running
<1>4. next \in 1..(N + 1) /\ sums \subseteq Entry
  BY <1>t DEF TypeOK
<1>5. \A i \in 1..(next - 1) : IsFile(i) => i \in sums
  BY <1>1, <1>3, <1>4, <1>t DEF NothingLost
<1>6. \A i \in 1..(next - 1) : kind[i] # "unreadable" /\ kind[i] # "broken"
  BY <1>4, <1>5, <1>t DEF FileInv, WalkerInv, IsFile
<1>7. CASE errc = "nil"
  <2>1. next = N + 1
    BY <1>2, <1>7, <1>t DEF WalkerInv
  <2>2. sums = {i \in Entry : kind[i] = "regular"}
    <3>1. \A i \in sums : i \in Entry /\ kind[i] = "regular"
      BY <1>4, <1>t DEF FileInv
    <3>2. 1..(next - 1) = Entry
      BY <2>1
    <3>3. \A i \in Entry : kind[i] = "regular" => i \in sums
      BY <1>5, <3>2 DEF IsFile
    <3> QED
      BY <3>1, <3>3
  <2>3. ret' = [sums |-> sums, err |-> "nil", file |-> 0]
    BY <1>7 DEF ReceiveErr
  <2>4. \A i \in Promise!Entry : kind[i] # "unreadable" /\ kind[i] # "broken"
    BY <1>6, <2>1 DEF Promise!Entry
  <2>5. Promise!Unreadable = {}
    BY <2>4 DEF Promise!Visited, Promise!Unreadable
  <2> QED
    BY <2>2, <2>3, <2>4, <2>5 DEF Promise!Outcomes, Entry, Promise!Visited, Promise!Entry
<1>8. CASE errc = "walk"
  <2>1. next \in Entry /\ kind[next] = "broken"
    BY <1>2, <1>8, <1>t DEF WalkerInv
  <2>2. Promise!Visited \subseteq 1..(next - 1)
    BY <2>1 DEF Promise!Visited, Promise!Entry
  <2>3. Promise!Unreadable = {}
    BY <1>6, <2>2 DEF Promise!Unreadable
  <2>4. ret' = [sums |-> {}, err |-> "walk", file |-> 0]
    BY <1>8 DEF ReceiveErr
  <2> QED
    BY <2>1, <2>3, <2>4 DEF Promise!Outcomes, Promise!Entry
<1> QED
  BY <1>2, <1>7, <1>8

\* The value a failed read returns is an outcome the tree allows.
LEMMA FailedReadStep ==
  ASSUME Inv, NEW i \in Entry, Deliver(i), ret' # ret
  PROVE  ret' \in Promise!Outcomes
<1> USE NAssumption, PromiseFacts
<1>1. kind[i] = "unreadable" /\ ret' = [sums |-> {}, err |-> "read", file |-> i] /\ fpc[i] = "send"
  BY DEF Deliver
<1>2. i <= next /\ next \in 1..(N + 1) /\ \A j \in 1..(next - 1) : kind[j] # "broken"
  BY <1>1 DEF Inv, FileInv, WalkerInv, TypeOK
<1>3. \A j \in 1..i : j = i \/ j \in 1..(next - 1)
  BY <1>2
<1>4. i \in Promise!Visited
  BY <1>1, <1>2, <1>3 DEF Promise!Visited, Promise!Entry
<1> QED
  BY <1>1, <1>4 DEF Promise!Outcomes, Promise!Unreadable

\* par-serial.go implements the promise of MD5All: its only visible step is
\* one return, of an outcome the tree allows, for every tree.
THEOREM ImplementsPromise == Spec => Implements
<1>1. Init => Promise!Init
  BY PromiseFacts DEF Init, Promise!Init, Entry, Promise!Entry
<1>2. Inv /\ [Next]_vars => [Promise!Return]_<<kind, ret>>
  <2> SUFFICES ASSUME Inv, [Next]_vars, ret' # ret \/ kind' # kind
               PROVE  Promise!Return
    BY DEF Promise!Return
  <2>1. CASE ReceiveErr
    <3>1. ret = Promise!Pending /\ kind' = kind
      BY <2>1 DEF ReceiveErr, Inv, DoneInv
    <3> QED
      BY <2>1, <3>1, ReceiveErrStep DEF Promise!Return
  <2>2. ASSUME NEW i \in Entry, Deliver(i) PROVE Promise!Return
    <3>1. ret = Promise!Pending /\ kind' = kind /\ ret' # ret
      BY <2>2 DEF Deliver, Inv, DoneInv
    <3> QED
      BY <2>2, <3>1, FailedReadStep DEF Promise!Return
  <2>3. CASE Walker \/ CloseC \/ RangeEnds \/ CloseDone \/ UNCHANGED vars
    BY <2>3 DEF Walker, WalkSkip, WalkSpawn, WalkEnd, WalkBroken, Poll, WalkReturns,
       SendErr, CloseC, RangeEnds, CloseDone, vars
  <2>4. ASSUME NEW i \in Entry, Cancel(i) \/ WgDone(i) PROVE Promise!Return
    BY <2>4 DEF Cancel, WgDone
  <2> QED
    BY <2>1, <2>2, <2>3, <2>4 DEF Next, FileOf, Main
<1> QED
  BY <1>1, <1>2, InvHolds, PTL DEF Implements, Spec, Promise!Spec
-----------------------------------------------------------------------------
(* serial.go, which computes the same outcome one entry at a time.         *)

\* A set of numbers that is not empty has a least one.
LEMMA LeastNat ==
  ASSUME NEW T, T \subseteq Nat, T # {}
  PROVE  \E n \in T : \A m \in T : n <= m
<1> DEFINE R == {p \in Nat \X Nat : p[1] < p[2]}
<1>1. IsWellFoundedOn(R, Nat)
  BY NatLessThanWellFounded DEF OpToRel
<1>2. PICK n \in T : \A m \in T : ~(<<m, n>> \in R)
  BY <1>1, WFMin
<1>3. ASSUME NEW m \in T PROVE n <= m
  <2>1. n \in Nat /\ m \in Nat /\ <<m, n>> \in Nat \X Nat /\ <<m, n>>[1] = m /\ <<m, n>>[2] = n
    OBVIOUS
  <2>2. ~(m < n)
    BY <1>2, <2>1
  <2> QED
    BY <2>1, <2>2
<1> QED
  BY <1>3

\* No entry up to i ends the walk.
Good(i) == \A j \in 1..i : kind[j] \notin {"broken", "unreadable"}

\* The first unreadable file, when it lies up to i and Walk reaches it.
First(i) == {j \in 1..i : kind[j] = "unreadable" /\ Good(j - 1)}

\* The map, the error and the file it names after entry i, without recursion.
SumsTo(i) == {j \in 1..i : kind[j] = "regular" /\ Good(j)}
ErrAt(i)  == IF Good(i) THEN "nil" ELSE IF First(i) = {} THEN "walk" ELSE "read"
FileAt(i) == IF First(i) = {} THEN 0 ELSE CHOOSE j \in First(i) : TRUE
After     == [i \in 0..N |-> [sums |-> SumsTo(i), err |-> ErrAt(i), file |-> FileAt(i)]]

\* What the recursion in SerialMD5All asks of a function.
IsWalk(w) == w = [i \in 0..N |-> IF i = 0 THEN [sums |-> {}, err |-> "nil", file |-> 0]
                                 ELSE Serial!Visit(kind, i, w[i - 1])]

\* What an entry adds to the map and the error.
LEMMA VisitCases ==
  ASSUME NEW i, NEW m
  PROVE  /\ m.err # "nil" => Serial!Visit(kind, i, m) = m
         /\ m.err = "nil" =>
              /\ kind[i] = "broken"     =>
                   Serial!Visit(kind, i, m) = [sums |-> m.sums, err |-> "walk", file |-> 0]
              /\ kind[i] = "unreadable" =>
                   Serial!Visit(kind, i, m) = [sums |-> m.sums, err |-> "read", file |-> i]
              /\ kind[i] = "other"      => Serial!Visit(kind, i, m) = m
              /\ kind[i] = "regular"    =>
                   Serial!Visit(kind, i, m)
                     = [sums |-> m.sums \union {i}, err |-> "nil", file |-> 0]
BY DEF Serial!Visit

\* One entry further.
LEMMA VisitAfter ==
  ASSUME kind \in [Entry -> Promise!Kind], NEW i \in 1..N
  PROVE  After[i] = Serial!Visit(kind, i, After[i - 1])
<1> USE NAssumption, PromiseFacts
<1>1. i \in Nat /\ i - 1 \in 0..N /\ i \in 0..N /\ i \in Entry /\ 1..i = 1..(i - 1) \union {i}
  OBVIOUS
<1>2. /\ After[i] = [sums |-> SumsTo(i), err |-> ErrAt(i), file |-> FileAt(i)]
      /\ After[i - 1] = [sums |-> SumsTo(i - 1), err |-> ErrAt(i - 1), file |-> FileAt(i - 1)]
  BY <1>1 DEF After
<1>3. Good(i) <=> Good(i - 1) /\ kind[i] \notin {"broken", "unreadable"}
  BY <1>1 DEF Good
<1>4. /\ SumsTo(i) = SumsTo(i - 1) \union {j \in {i} : kind[j] = "regular" /\ Good(i)}
      /\ First(i) = First(i - 1) \union {j \in {i} : kind[j] = "unreadable" /\ Good(i - 1)}
  BY <1>1 DEF SumsTo, First
<1>5. ErrAt(i - 1) = "nil" <=> Good(i - 1)
  BY DEF ErrAt
<1>6. Good(i - 1) => First(i - 1) = {}
  BY DEF Good, First
<1>7. kind[i] \in Promise!Kind
  BY <1>1
<1>8. CASE ~Good(i - 1)
  <2>1. SumsTo(i) = SumsTo(i - 1) /\ First(i) = First(i - 1) /\ ~Good(i)
    BY <1>3, <1>4, <1>8
  <2>2. ErrAt(i) = ErrAt(i - 1) /\ FileAt(i) = FileAt(i - 1)
    BY <2>1, <1>8 DEF ErrAt, FileAt
  <2>3. After[i] = After[i - 1] /\ After[i - 1].err # "nil"
    BY <1>2, <1>5, <1>8, <2>1, <2>2
  <2> QED
    BY <2>3, VisitCases
<1>9. CASE Good(i - 1)
  <2>1. First(i) = IF kind[i] = "unreadable" THEN {i} ELSE {}
    BY <1>4, <1>6, <1>9
  <2>2. ErrAt(i) = CASE kind[i] = "broken" -> "walk"
                     [] kind[i] = "unreadable" -> "read"
                     [] OTHER -> "nil"
    BY <1>3, <1>9, <2>1 DEF ErrAt
  <2>3. FileAt(i) = IF kind[i] = "unreadable" THEN i ELSE 0
    BY <2>1 DEF FileAt
  <2>4. SumsTo(i) = IF kind[i] = "regular" THEN SumsTo(i - 1) \union {i} ELSE SumsTo(i - 1)
    BY <1>3, <1>4, <1>9
  <2>5. ErrAt(i - 1) = "nil" /\ FileAt(i - 1) = 0
    BY <1>5, <1>6, <1>9 DEF FileAt
  <2>6. PICK m, t : m = After[i - 1] /\ t = SumsTo(i - 1)
    OBVIOUS
  <2>7. m = [sums |-> t, err |-> "nil", file |-> 0] /\ m.err = "nil" /\ m.sums = t
    BY <1>2, <2>5, <2>6
  <2>8. After[i] = [sums |-> IF kind[i] = "regular" THEN t \union {i} ELSE t,
                    err |-> ErrAt(i), file |-> FileAt(i)]
    BY <1>2, <2>4, <2>6
  <2>9. After[i] = Serial!Visit(kind, i, m)
    <3>1. CASE kind[i] = "broken"
      <4>1. Serial!Visit(kind, i, m) = [sums |-> t, err |-> "walk", file |-> 0]
        BY <2>7, <3>1, VisitCases
      <4> QED
        BY <2>2, <2>3, <2>8, <3>1, <4>1
    <3>2. CASE kind[i] = "unreadable"
      <4>1. Serial!Visit(kind, i, m) = [sums |-> t, err |-> "read", file |-> i]
        BY <2>7, <3>2, VisitCases
      <4> QED
        BY <2>2, <2>3, <2>8, <3>2, <4>1
    <3>3. CASE kind[i] = "other"
      <4>1. Serial!Visit(kind, i, m) = [sums |-> t, err |-> "nil", file |-> 0]
        BY <2>7, <3>3, VisitCases
      <4> QED
        BY <2>2, <2>3, <2>8, <3>3, <4>1
    <3>4. CASE kind[i] = "regular"
      <4>1. Serial!Visit(kind, i, m) = [sums |-> t \union {i}, err |-> "nil", file |-> 0]
        BY <2>7, <3>4, VisitCases
      <4> QED
        BY <2>2, <2>3, <2>8, <3>4, <4>1
    <3> QED
      BY <1>7, <3>1, <3>2, <3>3, <3>4
  <2> QED
    BY <2>6, <2>9
<1> QED
  BY <1>8, <1>9

\* The recursion defines that function and no other.
LEMMA WalkIsAfter ==
  ASSUME kind \in [Entry -> Promise!Kind]
  PROVE  IsWalk(After) /\ \A w : IsWalk(w) => w = After
<1> USE NAssumption, PromiseFacts
<1>1. After[0] = [sums |-> {}, err |-> "nil", file |-> 0]
  <2>1. 0 \in 0..N /\ 1..0 = {} /\ Good(0)
    BY DEF Good
  <2>2. First(0) = {} /\ SumsTo(0) = {}
    BY <2>1 DEF First, SumsTo
  <2>3. ErrAt(0) = "nil" /\ FileAt(0) = 0
    BY <2>1, <2>2 DEF ErrAt, FileAt
  <2> QED
    BY <2>1, <2>2, <2>3 DEF After
<1>2. \A i \in 0..N : i = 0 \/ i \in 1..N
  OBVIOUS
<1>3. IsWalk(After)
  <2> DEFINE G == [i \in 0..N |-> IF i = 0 THEN [sums |-> {}, err |-> "nil", file |-> 0]
                                  ELSE Serial!Visit(kind, i, After[i - 1])]
  <2>1. \A i \in 0..N : After[i] = G[i]
    BY <1>1, <1>2, VisitAfter
  <2>2. After = [i \in 0..N |-> After[i]]
    BY DEF After
  <2> QED
    BY <2>1, <2>2 DEF IsWalk
<1>4. ASSUME NEW w, IsWalk(w) PROVE w = After
  <2>1. /\ w = [i \in 0..N |-> w[i]]
        /\ \A i \in 0..N : w[i] = IF i = 0 THEN [sums |-> {}, err |-> "nil", file |-> 0]
                                  ELSE Serial!Visit(kind, i, w[i - 1])
    BY <1>4 DEF IsWalk
  <2> DEFINE T == {i \in 0..N : w[i] # After[i]}
  <2>2. ASSUME T # {} PROVE FALSE
    <3>0. T \subseteq Nat
      OBVIOUS
    <3>1. PICK n \in T : \A m \in T : n <= m
      BY <2>2, <3>0, LeastNat
    <3>2. n \in 1..N
      BY <1>1, <1>2, <2>1
    <3>3. n - 1 \in 0..N /\ n - 1 \notin T
      BY <3>1, <3>2
    <3>4. w[n - 1] = After[n - 1] /\ w[n] = Serial!Visit(kind, n, w[n - 1])
      <4>1. n \in 0..N /\ n # 0 /\ n - 1 \in 0..N
        BY <3>2
      <4>2. w[n] = Serial!Visit(kind, n, w[n - 1])
        BY <2>1, <4>1
      <4> QED
        BY <3>3, <4>2
    <3>5. After[n] = Serial!Visit(kind, n, After[n - 1])
      BY <3>2, VisitAfter
    <3>6. w[n] = After[n]
      BY <3>4, <3>5
    <3> QED
      BY <3>6
  <2>3. After = [i \in 0..N |-> After[i]]
    BY DEF After
  <2> QED
    BY <2>1, <2>2, <2>3
<1> QED
  BY <1>3, <1>4

\* What serial.go returns is an outcome of the promise, and no unreadable file
\* Walk reaches comes before the one its error names, for every tree: by
\* induction over the entries.
THEOREM SerialKeepsPromise ==
  kind \in [Entry -> Promise!Kind] =>
    /\ Serial!SerialMD5All(kind) \in Promise!Outcomes
    /\ \A j \in Promise!Unreadable : Serial!SerialMD5All(kind).file <= j
<1> DEFINE s == Serial!SerialMD5All(kind)
<1> SUFFICES ASSUME kind \in [Entry -> Promise!Kind]
             PROVE  s \in Promise!Outcomes /\ \A j \in Promise!Unreadable : s.file <= j
  OBVIOUS
<1> USE NAssumption, PromiseFacts
<1>1. s = Serial!Return(After[N].sums, After[N].err, After[N].file)
  <2>1. s = LET w == CHOOSE w : IsWalk(w) IN Serial!Return(w[N].sums, w[N].err, w[N].file)
    BY DEF Serial!SerialMD5All, IsWalk
  <2>2. (CHOOSE w : IsWalk(w)) = After
    BY WalkIsAfter
  <2> QED
    BY <2>1, <2>2
<1> HIDE DEF s
<1>2. After[N].sums = SumsTo(N) /\ After[N].err = ErrAt(N) /\ After[N].file = FileAt(N)
  BY DEF After
<1>3. CASE Good(N)
  <2>1. \A j \in 1..N : Good(j)
    BY <1>3 DEF Good
  <2>2. First(N) = {} /\ SumsTo(N) = {j \in Entry : kind[j] = "regular"}
    BY <1>3, <2>1 DEF First, Good, SumsTo
  <2>3. \A j \in Entry : kind[j] # "broken" /\ kind[j] # "unreadable"
    BY <1>3 DEF Good
  <2>4. s = [sums |-> {j \in Entry : kind[j] = "regular"}, err |-> "nil", file |-> 0]
    BY <1>1, <1>2, <1>3, <2>2 DEF Serial!Return, ErrAt, FileAt
  <2>5. Promise!Unreadable = {}
    BY <2>3 DEF Promise!Unreadable, Promise!Visited, Promise!Entry
  <2> QED
    BY <2>3, <2>4, <2>5 DEF Promise!Outcomes, Promise!Entry
<1>4. CASE ~Good(N)
  <2> DEFINE T == {j \in 1..N : kind[j] \in {"broken", "unreadable"}}
  <2>1. T # {} /\ T \subseteq Nat
    BY <1>4 DEF Good
  <2>2. PICK n \in T : \A m \in T : n <= m
    BY <2>1, LeastNat
  <2>3. n \in 1..N /\ \A j \in 1..N : j < n => j \notin T
    BY <2>2
  <2>4. Good(n - 1) /\ \A j \in 1..N : n < j => ~Good(j - 1)
    BY <2>2, <2>3 DEF Good
  <2>5. CASE kind[n] = "broken"
    <3>1. First(N) = {}
      BY <2>3, <2>4, <2>5 DEF First
    <3>2. s = [sums |-> {}, err |-> "walk", file |-> 0]
      BY <1>1, <1>2, <1>4, <3>1 DEF Serial!Return, ErrAt, FileAt
    <3>3. \A i \in Promise!Visited : i < n
      BY <2>3, <2>5 DEF Promise!Visited, Promise!Entry
    <3>4. Promise!Unreadable = {}
      BY <2>3, <3>3 DEF Promise!Unreadable, Promise!Visited, Promise!Entry
    <3> QED
      BY <2>3, <2>5, <3>2, <3>4 DEF Promise!Outcomes, Promise!Entry
  <2>6. CASE kind[n] = "unreadable"
    <3>1. First(N) = {n}
      BY <2>3, <2>4, <2>6 DEF First
    <3>2. s = [sums |-> {}, err |-> "read", file |-> n]
      BY <1>1, <1>2, <1>4, <3>1 DEF Serial!Return, ErrAt, FileAt
    <3>3. \A j \in 1..n : kind[j] # "broken"
      BY <2>3, <2>6
    <3>4. n \in Promise!Unreadable
      BY <2>3, <2>6, <3>3 DEF Promise!Unreadable, Promise!Visited, Promise!Entry
    <3>5. \A j \in Promise!Unreadable : n <= j
      BY <2>2, <2>3 DEF Promise!Unreadable, Promise!Visited, Promise!Entry
    <3> QED
      BY <3>2, <3>4, <3>5 DEF Promise!Outcomes
  <2> QED
    BY <2>2, <2>5, <2>6
<1> QED
  BY <1>3, <1>4 DEF s

\* Whatever the goroutines of par-serial.go do, MD5All returns the map and the
\* kind of error serial.go returns for the same tree; the file its error names
\* is the same one or an unreadable file further on that Walk reaches.
THEOREM ReturnsAsSerial == Spec => []SameAsSerial
<1> DEFINE Returned == ret # Promise!Pending => ret \in Promise!Outcomes
<1>1. Init => Returned
  BY DEF Init
<1>2. Returned /\ [Promise!Return]_<<kind, ret>> => Returned'
  BY DEF Promise!Return, Promise!Outcomes, Promise!Unreadable, Promise!Visited, Promise!Entry
<1>3. Inv /\ Returned => SameAsSerial
  <2> SUFFICES ASSUME Inv, ret \in Promise!Outcomes
               PROVE  SameAsSerial
    BY DEF SameAsSerial
  <2>1. PICK s : s = Serial!SerialMD5All(kind)
    OBVIOUS
  <2>2. s \in Promise!Outcomes /\ \A j \in Promise!Unreadable : s.file <= j
    BY <2>1, SerialKeepsPromise DEF Inv, TypeOK
  <2>3. /\ ret.sums = s.sums /\ ret.err = s.err
        /\ ret.file # s.file => /\ s.err = "read" /\ s.file < ret.file
                                /\ ret.file \in Promise!Unreadable
    <3>1. CASE Promise!Unreadable = {}
      BY <2>2, <3>1 DEF Promise!Outcomes
    <3>2. CASE Promise!Unreadable # {}
      <4>1. PICK i \in Promise!Unreadable : ret = [sums |-> {}, err |-> "read", file |-> i]
        BY <3>2 DEF Promise!Outcomes
      <4>2. PICK k \in Promise!Unreadable : s = [sums |-> {}, err |-> "read", file |-> k]
        BY <2>2, <3>2 DEF Promise!Outcomes
      <4>3. k <= i /\ i \in Nat /\ k \in Nat
        BY <2>2, <4>2, NAssumption DEF Promise!Unreadable, Promise!Visited, Promise!Entry
      <4> QED
        BY <4>1, <4>2, <4>3
    <3> QED
      BY <3>1, <3>2
  <2> QED
    BY <2>1, <2>3 DEF SameAsSerial
<1>4. Spec => [][Promise!Return]_<<kind, ret>>
  BY ImplementsPromise, PTL DEF Implements, Promise!Spec
<1> QED
  BY <1>1, <1>2, <1>3, <1>4, InvHolds, PTL DEF Spec
=============================================================================
