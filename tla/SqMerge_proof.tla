--------------------------- MODULE SqMerge_proof ----------------------------
(* sq-merge.go loses, doubles and invents no number, for any number of     *)
(* branches and of receives: every number on its way is in one place, main *)
(* has exactly as many as are missing from the rest of the pipeline, and   *)
(* gen is never far ahead.                                                 *)
EXTENDS SqMerge, TLAPS, FiniteSetTheorems, SequenceTheorems

Square(n) == n * n

\* Distinct numbers have distinct squares, none of them zero.
LEMMA Squares ==
  ASSUME NEW m \in Nat, NEW n \in Nat
  PROVE  /\ Square(m) \in Nat
         /\ Square(m) = Square(n) => m = n
         /\ m # 0 => Square(m) # 0
<1>1. ASSUME NEW a \in Nat, NEW b \in Nat, a < b PROVE a * a < b * b
  <2>1. a * a <= a * b
    BY <1>1
  <2>2. a * b < b * b
    BY <1>1
  <2> QED
    BY <2>1, <2>2
<1>2. m * m \in Nat
  OBVIOUS
<1>3. m # 0 => m * m # 0
  OBVIOUS
<1> QED
  BY <1>1, <1>2, <1>3 DEF Square

\* The three places a number can be in.
InSq(b, n)   == sq[b] = "select" /\ sqval[b] = n
InOut(b, n)  == output[b] = "select" /\ outval[b] = Square(n)
InMain(i, n) == received[i] = Square(n)

\* Every number gen has sent is somewhere, and no other one is.
Somewhere == \A n \in Number :
  /\ Sent(n) => \/ \E b \in Branch : InSq(b, n) \/ InOut(b, n)
                \/ \E i \in DOMAIN received : InMain(i, n)
  /\ \A b \in Branch : InSq(b, n) \/ InOut(b, n) => Sent(n)
  /\ \A i \in DOMAIN received : InMain(i, n) => Sent(n)

\* No number is in two places.
Once == \A n \in Number :
  /\ \A b, c \in Branch : InSq(b, n) /\ InSq(c, n) => b = c
  /\ \A b, c \in Branch : InOut(b, n) /\ InOut(c, n) => b = c
  /\ \A i, j \in DOMAIN received : InMain(i, n) /\ InMain(j, n) => i = j
  /\ \A b, c \in Branch : ~(InSq(b, n) /\ InOut(c, n))
  /\ \A b \in Branch, i \in DOMAIN received : InMain(i, n) => ~InSq(b, n) /\ ~InOut(b, n)

\* What is on the way is a number, or the square of one.
Backed ==
  /\ \A b \in Branch : sq[b] = "select" => sqval[b] \in Number
  /\ \A b \in Branch : output[b] = "select" => \E n \in Number : outval[b] = Square(n)

\* The ends come in the order of the pipeline.
InOrder ==
  /\ gen = "end" => next = N + 2
  /\ \A b \in Branch : (sq[b] = "end" => gen = "end") /\ (output[b] = "end" => sq[b] = "end")

\* The branches by what they are doing, and their numbers.
SqBusy   == {b \in Branch : sq[b] = "select"}
OutBusy  == {b \in Branch : output[b] = "select"}
SqTaken  == {b \in Branch : sq[b] # "range"}
OutTaken == {b \in Branch : output[b] # "range"}
Live     == {b \in Branch : output[b] # "end"}

\* As long as main listens, the numbers add up.
AddUp ==
  /\ outClosed => N <= Len(received)
  /\ ~outClosed => Len(received) + Cardinality(SqBusy) + Cardinality(OutBusy) = next - 2

\* The inductive invariant.  Once main has left, what it has is settled.
Pipeline ==
  /\ MergeInv
  /\ ~done => Somewhere /\ Once /\ Backed /\ InOrder /\ AddUp
  /\ done => Len(received) = receives
  /\ ~outClosed => \A i \in DOMAIN received : received[i] # 0
  /\ next - 2 <= Len(received) + Cardinality(SqTaken) + Cardinality(OutTaken)

\* A branch that starts or stops doing something counts for one.
LEMMA Counting ==
  ASSUME NEW S \in SUBSET Branch
  PROVE  /\ Cardinality(S) \in Nat /\ Cardinality(S) <= Size /\ Size \in Nat
         /\ Cardinality(S) = 0 <=> S = {}
         /\ \A b \in Branch : Cardinality(S \union {b}) = IF b \in S THEN Cardinality(S)
                                                          ELSE Cardinality(S) + 1
         /\ \A b \in Branch : Cardinality(S \ {b}) = IF b \in S THEN Cardinality(S) - 1
                                                     ELSE Cardinality(S)
<1>1. IsFiniteSet(S) /\ IsFiniteSet(Branch)
  BY BranchAssumption, FS_Subset
<1>2. Cardinality(S) \in Nat /\ (Cardinality(S) = 0 <=> S = {}) /\ Size \in Nat
  BY <1>1, FS_CardinalityType, FS_EmptySet DEF Size
<1>3. Cardinality(S) <= Size
  BY <1>1, FS_Subset DEF Size
<1>4. ASSUME NEW b \in Branch
      PROVE  Cardinality(S \union {b}) = IF b \in S THEN Cardinality(S) ELSE Cardinality(S) + 1
  <2>1. b \in S => S \union {b} = S
    OBVIOUS
  <2> QED
    BY <1>1, <2>1, FS_AddElement
<1>5. ASSUME NEW b \in Branch
      PROVE  Cardinality(S \ {b}) = IF b \in S THEN Cardinality(S) - 1 ELSE Cardinality(S)
  <2>1. b \notin S => S \ {b} = S
    OBVIOUS
  <2> QED
    BY <1>1, <2>1, FS_RemoveElement
<1> QED
  BY <1>2, <1>3, <1>4, <1>5

\* The program starts in the invariant.
LEMMA InitPipeline == MergeInit => Pipeline
<1> SUFFICES ASSUME MergeInit PROVE Pipeline
  OBVIOUS
<1> USE NAssumption, ReceivesAssumption DEF MergeInit
<1>1. Size \in Nat /\ Cardinality(Branch) = Size
  BY Counting DEF Size
<1>2. MergeTypeOK
  <2>1. next \in 2..(N + 2) /\ wg \in 0..Size
    BY <1>1
  <2>2. received \in Seq(Nat) /\ Len(received) = 0
    OBVIOUS
  <2>3. receives \in 0..MaxReceives /\ Len(received) <= receives
    BY <2>2
  <2>4. /\ sq \in [Branch -> PC] /\ sqval \in [Branch -> Nat]
        /\ output \in [Branch -> PC] /\ outval \in [Branch -> Nat]
    BY DEF PC
  <2> QED
    BY <2>1, <2>2, <2>3, <2>4 DEF MergeTypeOK
<1>3. SqBusy = {} /\ OutBusy = {} /\ SqTaken = {} /\ OutTaken = {} /\ Live = Branch
  BY DEF SqBusy, OutBusy, SqTaken, OutTaken, Live
<1>4. Cardinality({}) = 0
  BY Counting
<1>5. Genuine /\ NoSendOnClosed
  <2>1. wg = Cardinality(Live) /\ ~outClosed
    BY <1>1, <1>3
  <2>2. DOMAIN received = {}
    OBVIOUS
  <2> QED
    BY <2>1, <2>2 DEF Genuine, NoSendOnClosed, Live
<1>6. Somewhere /\ Once /\ Backed /\ InOrder
  BY DEF Somewhere, Once, Backed, InOrder, InSq, InOut, Sent
<1>7. AddUp /\ next - 2 <= Len(received) + Cardinality(SqTaken) + Cardinality(OutTaken)
  BY <1>3, <1>4 DEF AddUp
<1> QED
  BY <1>2, <1>5, <1>6, <1>7 DEF Pipeline, MergeInv
-----------------------------------------------------------------------------
(* The steps.  Each lemma has the facts about the places first.            *)

\* gen hands the next number to a sq.
LEMMA GenSendStep ==
  ASSUME Pipeline, NEW b \in Branch, GenSend(b)
  PROVE  Pipeline'
<1> USE NAssumption, ReceivesAssumption DEF GenSend, sqVars, outVars
<1>t. MergeTypeOK /\ Genuine /\ NoSendOnClosed
  BY DEF Pipeline, MergeInv
<1>1. /\ next \in Number /\ next \in Nat /\ sq[b] = "range" /\ gen = "loop"
      /\ next' = next + 1 /\ sqval'[b] = next /\ sq'[b] = "select"
      /\ \A c \in Branch : c # b => sq'[c] = sq[c] /\ sqval'[c] = sqval[c]
  BY <1>t DEF MergeTypeOK, Number
<1>2. MergeTypeOK'
  <2>1. next' \in 2..(N + 2)
    BY <1>1 DEF Number
  <2> QED
    BY <1>1, <1>t, <2>1 DEF MergeTypeOK, PC
<1>3. Genuine' /\ NoSendOnClosed'
  BY <1>t DEF Genuine, NoSendOnClosed
<1>4. \A n \in Number : /\ Sent(n)' <=> Sent(n) \/ n = next
                        /\ ~Sent(next)
  BY <1>1, <1>t DEF Sent, MergeTypeOK, Number
<1>5. ASSUME NEW n \in Number, NEW c \in Branch
      PROVE  /\ InSq(c, n)' <=> InSq(c, n) \/ (c = b /\ n = next)
             /\ InOut(c, n)' <=> InOut(c, n)
  BY <1>1 DEF InSq, InOut
<1>6. \A n \in Number, i \in DOMAIN received : InMain(i, n)' <=> InMain(i, n)
  BY DEF InMain
<1>7. ~done => Somewhere' /\ Once'
  <2> SUFFICES ASSUME ~done PROVE Somewhere' /\ Once'
    OBVIOUS
  <2>1. Somewhere /\ Once
    BY DEF Pipeline
  <2>2. \A c \in Branch : ~InSq(c, next) /\ ~InOut(c, next)
    BY <1>1, <1>4, <2>1 DEF Somewhere
  <2>3. \A i \in DOMAIN received : ~InMain(i, next)
    BY <1>1, <1>4, <2>1 DEF Somewhere
  <2>4. Somewhere'
    BY <1>4, <1>5, <1>6, <2>1 DEF Somewhere
  <2>5. Once'
    BY <1>5, <1>6, <2>1, <2>2, <2>3 DEF Once
  <2> QED
    BY <2>4, <2>5
<1>8. ~done => Backed' /\ InOrder'
  BY <1>1 DEF Pipeline, Backed, InOrder
<1>9. /\ Cardinality(SqBusy') = Cardinality(SqBusy) + 1 /\ OutBusy' = OutBusy
      /\ Cardinality(SqTaken') = Cardinality(SqTaken) + 1 /\ OutTaken' = OutTaken
  <2>1. SqBusy' = SqBusy \union {b} /\ b \notin SqBusy /\ SqBusy \subseteq Branch
    BY <1>1 DEF SqBusy
  <2>2. SqTaken' = SqTaken \union {b} /\ b \notin SqTaken /\ SqTaken \subseteq Branch
    BY <1>1 DEF SqTaken
  <2>3. OutBusy' = OutBusy /\ OutTaken' = OutTaken
    BY DEF OutBusy, OutTaken
  <2> QED
    BY <2>1, <2>2, <2>3, Counting
<1>10. /\ ~done => AddUp'
       /\ next' - 2 <= Len(received) + Cardinality(SqTaken') + Cardinality(OutTaken')
  <2>1. /\ Cardinality(SqBusy) \in Nat /\ Cardinality(OutBusy) \in Nat
        /\ Cardinality(SqTaken) \in Nat /\ Cardinality(OutTaken) \in Nat
        /\ Len(received) \in Nat
    BY <1>t, Counting DEF SqBusy, OutBusy, SqTaken, OutTaken, MergeTypeOK
  <2>2. /\ ~done => AddUp
        /\ next - 2 <= Len(received) + Cardinality(SqTaken) + Cardinality(OutTaken)
    BY DEF Pipeline
  <2>3. next - 2 \in Int /\ next' - 2 = (next - 2) + 1
    BY <1>1
  <2>4. outClosed' = outClosed /\ received' = received
    OBVIOUS
  <2>5. next' - 2 <= Len(received) + Cardinality(SqTaken') + Cardinality(OutTaken')
    BY <1>9, <2>1, <2>2, <2>3
  <2>6. ASSUME ~done, ~outClosed
        PROVE  Len(received) + Cardinality(SqBusy') + Cardinality(OutBusy') = next' - 2
    BY <1>9, <2>1, <2>2, <2>3, <2>6 DEF AddUp
  <2> QED
    BY <2>2, <2>4, <2>5, <2>6 DEF AddUp
<1> QED
  BY <1>2, <1>3, <1>7, <1>8, <1>10 DEF Pipeline, MergeInv
\* The numbers of branches are numbers.
LEMMA Counts ==
  ASSUME MergeTypeOK
  PROVE  /\ Cardinality(SqBusy) \in Nat /\ Cardinality(OutBusy) \in Nat
         /\ Cardinality(SqTaken) \in Nat /\ Cardinality(OutTaken) \in Nat
         /\ Len(received) \in Nat /\ next \in Nat /\ receives \in Nat
         /\ DOMAIN received = 1..Len(received)
<1>1. received \in Seq(Nat) /\ next \in 2..(N + 2) /\ receives \in 0..MaxReceives
  BY DEF MergeTypeOK
<1>2. next \in Nat /\ receives \in Nat
  BY <1>1, NAssumption, ReceivesAssumption
<1> QED
  BY <1>1, <1>2, Counting, LenProperties DEF SqBusy, OutBusy, SqTaken, OutTaken

\* A sq hands its square to the output.
LEMMA SqSendStep ==
  ASSUME Pipeline, NEW b \in Branch, SqSend(b)
  PROVE  Pipeline'
<1> USE NAssumption, ReceivesAssumption DEF SqSend, sqVars, outVars
<1>t. MergeTypeOK /\ Genuine /\ NoSendOnClosed
  BY DEF Pipeline, MergeInv
<1> DEFINE m == sqval[b]
<1>1. /\ m \in Nat /\ sq[b] = "select" /\ output[b] = "range"
      /\ outval'[b] = Square(m) /\ output'[b] = "select" /\ sq'[b] = "range"
      /\ \A c \in Branch : c # b => /\ sq'[c] = sq[c]
                                    /\ output'[c] = output[c] /\ outval'[c] = outval[c]
      /\ sqval' = sqval
  BY <1>t DEF MergeTypeOK, Square
<1>2. MergeTypeOK'
  <2>1. outval' \in [Branch -> Nat]
    BY <1>1, <1>t, Squares DEF MergeTypeOK, Square
  <2> QED
    BY <1>t, <2>1 DEF MergeTypeOK, PC
<1>3. Genuine' /\ NoSendOnClosed'
  <2>1. Live' = Live
    BY <1>1 DEF Live
  <2> QED
    BY <1>1, <1>t, <2>1 DEF Genuine, NoSendOnClosed, Live
<1>4. ASSUME ~done PROVE m \in Number /\ Sent(m)
  BY <1>1, <1>4 DEF Pipeline, Backed, Somewhere, InSq
<1>5. ASSUME NEW n \in Number, NEW c \in Branch
      PROVE  /\ InSq(c, n)' <=> InSq(c, n) /\ ~(c = b)
             /\ InOut(c, n)' <=> InOut(c, n) \/ (c = b /\ n = m)
             /\ ~InOut(b, n) /\ (InSq(b, n) <=> n = m)
  <2>1. n \in Nat
    BY DEF Number
  <2>2. Square(m) = Square(n) <=> n = m
    BY <1>1, <2>1, Squares
  <2> QED
    BY <1>1, <2>2 DEF InSq, InOut
<1>6. \A n \in Number, i \in DOMAIN received : InMain(i, n)' <=> InMain(i, n)
  BY DEF InMain
<1>7. ~done => Somewhere' /\ Once'
  <2> SUFFICES ASSUME ~done PROVE Somewhere' /\ Once'
    OBVIOUS
  <2>1. Somewhere /\ Once
    BY DEF Pipeline
  <2>2. \A n \in Number : Sent(n)' <=> Sent(n)
    BY DEF Sent
  <2>3. Somewhere'
    BY <1>4, <1>5, <1>6, <2>1, <2>2 DEF Somewhere
  <2>4. Once'
    BY <1>4, <1>5, <1>6, <2>1 DEF Once
  <2> QED
    BY <2>3, <2>4
<1>8. ~done => Backed' /\ InOrder'
  BY <1>1, <1>4 DEF Pipeline, Backed, InOrder
<1>9. /\ Cardinality(SqBusy') = Cardinality(SqBusy) - 1
      /\ Cardinality(OutBusy') = Cardinality(OutBusy) + 1
      /\ Cardinality(SqTaken') = Cardinality(SqTaken) - 1
      /\ Cardinality(OutTaken') = Cardinality(OutTaken) + 1
  <2>1. SqBusy' = SqBusy \ {b} /\ b \in SqBusy /\ SqBusy \subseteq Branch
    BY <1>1 DEF SqBusy
  <2>2. SqTaken' = SqTaken \ {b} /\ b \in SqTaken /\ SqTaken \subseteq Branch
    BY <1>1 DEF SqTaken
  <2>3. OutBusy' = OutBusy \union {b} /\ b \notin OutBusy /\ OutBusy \subseteq Branch
    BY <1>1 DEF OutBusy
  <2>4. OutTaken' = OutTaken \union {b} /\ b \notin OutTaken /\ OutTaken \subseteq Branch
    BY <1>1 DEF OutTaken
  <2> QED
    BY <2>1, <2>2, <2>3, <2>4, Counting
<1>10. /\ ~done => AddUp'
       /\ next' - 2 <= Len(received') + Cardinality(SqTaken') + Cardinality(OutTaken')
  <2>1. /\ ~done => AddUp
        /\ next - 2 <= Len(received) + Cardinality(SqTaken) + Cardinality(OutTaken)
    BY DEF Pipeline
  <2>2. UNCHANGED <<next, outClosed, received>>
    OBVIOUS
  <2>3. next' - 2 <= Len(received') + Cardinality(SqTaken') + Cardinality(OutTaken')
    BY <1>9, <1>t, <2>1, <2>2, Counts
  <2>4. ASSUME ~done, ~outClosed
        PROVE  Len(received) + Cardinality(SqBusy') + Cardinality(OutBusy') = next - 2
    BY <1>9, <1>t, <2>1, <2>4, Counts DEF AddUp
  <2> QED
    BY <2>1, <2>2, <2>3, <2>4 DEF AddUp
<1> QED
  BY <1>2, <1>3, <1>7, <1>8, <1>10 DEF Pipeline, MergeInv

\* main receives a square.
LEMMA OutputSendStep ==
  ASSUME Pipeline, NEW b \in Branch, OutputSend(b)
  PROVE  Pipeline'
<1> USE NAssumption, ReceivesAssumption DEF OutputSend, sqVars, outVars
<1>t. MergeTypeOK /\ Genuine /\ NoSendOnClosed
  BY DEF Pipeline, MergeInv
<1>0. ~done /\ ~outClosed
  BY <1>t, Counts DEF Pipeline, NoSendOnClosed
<1>m. PICK m \in Number : outval[b] = Square(m) /\ Sent(m)
  <2>1. PICK m \in Number : outval[b] = Square(m)
    BY <1>0 DEF Pipeline, Backed
  <2> QED
    BY <1>0, <2>1 DEF Pipeline, Somewhere, InOut
<1>k. PICK k : k = Len(received) + 1
  OBVIOUS
<1>1. /\ outval[b] \in Nat /\ received \in Seq(Nat)
      /\ output[b] = "select" /\ output'[b] = "range"
      /\ \A c \in Branch : c # b => output'[c] = output[c]
  BY <1>t DEF MergeTypeOK
<1>2. /\ received' \in Seq(Nat) /\ Len(received') = k /\ k \in Nat
      /\ DOMAIN received = 1..Len(received) /\ DOMAIN received' = 1..k
      /\ \A i \in DOMAIN received : received'[i] = received[i]
      /\ received'[k] = Square(m) /\ k \notin DOMAIN received
      /\ DOMAIN received' = DOMAIN received \union {k}
  BY <1>1, <1>k, <1>m, AppendProperties, LenProperties
<1>3. MergeTypeOK'
  <2>1. Len(received') <= receives
    BY <1>2, <1>t, Counts
  <2> QED
    BY <1>2, <1>t, <2>1 DEF MergeTypeOK, PC
<1>4. NoSendOnClosed'
  <2>1. Live' = Live
    BY <1>1 DEF Live
  <2> QED
    BY <1>0, <1>t, <2>1 DEF NoSendOnClosed, Live
<1>5. ASSUME NEW n \in Number, NEW c \in Branch
      PROVE  /\ InSq(c, n)' <=> InSq(c, n)
             /\ InOut(c, n)' <=> InOut(c, n) /\ ~(c = b)
             /\ InOut(b, n) <=> n = m
  <2>1. Square(m) = Square(n) <=> n = m
    BY Squares DEF Number
  <2> QED
    BY <1>1, <1>m, <2>1 DEF InSq, InOut
<1>6. ASSUME NEW n \in Number
      PROVE  /\ \A i \in DOMAIN received : InMain(i, n)' <=> InMain(i, n)
             /\ InMain(k, n)' <=> n = m
  <2>1. Square(m) = Square(n) <=> n = m
    BY Squares DEF Number
  <2> QED
    BY <1>2, <2>1 DEF InMain
<1>7. Somewhere' /\ Once'
  <2>1. Somewhere /\ Once
    BY <1>0 DEF Pipeline
  <2>2. \A n \in Number : Sent(n)' <=> Sent(n)
    BY DEF Sent
  <2>3. Somewhere'
    BY <1>2, <1>5, <1>6, <1>m, <2>1, <2>2 DEF Somewhere
  <2>4. Once'
    BY <1>2, <1>5, <1>6, <2>1 DEF Once
  <2> QED
    BY <2>3, <2>4
<1>8. Backed' /\ InOrder'
  BY <1>0, <1>1 DEF Pipeline, Backed, InOrder
<1>9. /\ SqBusy' = SqBusy /\ SqTaken' = SqTaken
      /\ Cardinality(OutBusy') = Cardinality(OutBusy) - 1
      /\ Cardinality(OutBusy) \in Nat \ {0}
      /\ Cardinality(OutTaken') = Cardinality(OutTaken) - 1
  <2>1. SqBusy' = SqBusy /\ SqTaken' = SqTaken
    BY DEF SqBusy, SqTaken
  <2>2. OutBusy' = OutBusy \ {b} /\ b \in OutBusy /\ OutBusy \subseteq Branch
    BY <1>1 DEF OutBusy
  <2>3. OutTaken' = OutTaken \ {b} /\ b \in OutTaken /\ OutTaken \subseteq Branch
    BY <1>1 DEF OutTaken
  <2> QED
    BY <2>1, <2>2, <2>3, Counting
<1>10. /\ AddUp' /\ k <= next - 2
       /\ next' - 2 <= Len(received') + Cardinality(SqTaken') + Cardinality(OutTaken')
  <2>1. /\ AddUp
        /\ next - 2 <= Len(received) + Cardinality(SqTaken) + Cardinality(OutTaken)
    BY <1>0 DEF Pipeline
  <2>2. UNCHANGED <<next, outClosed>> /\ Len(received') = Len(received) + 1
    BY <1>k, <1>2
  <2>3. next' - 2 <= Len(received') + Cardinality(SqTaken') + Cardinality(OutTaken')
    BY <1>9, <1>t, <2>1, <2>2, Counts
  <2>4. Len(received) + Cardinality(SqBusy) + Cardinality(OutBusy) = next - 2
    BY <1>0, <2>1 DEF AddUp
  <2>5. Len(received') + Cardinality(SqBusy') + Cardinality(OutBusy') = next' - 2
    BY <1>9, <1>t, <2>2, <2>4, Counts
  <2>6. k <= next - 2
    BY <1>9, <1>k, <1>t, <2>4, Counts
  <2> QED
    BY <1>0, <2>2, <2>3, <2>5, <2>6 DEF AddUp
<1>11. Square(m) # 0 /\ \A i \in DOMAIN received : received[i] # 0
  BY <1>0, Squares DEF Pipeline, Number
<1>12. Genuine'
  <2>1. ASSUME NEW i \in DOMAIN received', NEW j \in DOMAIN received', i # j,
               received'[i] = received'[j]
        PROVE  FALSE
    <3>1. PICK n \in Number : received'[i] = Square(n)
      <4>1. CASE i = k
        BY <1>2, <4>1
      <4>2. CASE i # k
        BY <1>2, <1>t, <1>11, <4>2 DEF Genuine, Square
      <4> QED
        BY <4>1, <4>2
    <3> QED
      BY <1>7, <2>1, <3>1 DEF Once, InMain
  <2>2. ASSUME NEW i \in DOMAIN received'
        PROVE  i <= N /\ \E n \in Number : received'[i] = n * n
    <3>1. CASE i = k
      <4>1. k <= N
        BY <1>2, <1>10, <1>t DEF MergeTypeOK
      <4> QED
        BY <1>2, <3>1, <4>1 DEF Square
    <3>2. CASE i # k
      BY <1>2, <1>t, <1>11, <3>2 DEF Genuine
    <3> QED
      BY <3>1, <3>2
  <2> QED
    BY <2>1, <2>2 DEF Genuine
<1>13. \A i \in DOMAIN received' : received'[i] # 0
  BY <1>2, <1>11
<1> QED
  BY <1>0, <1>3, <1>4, <1>7, <1>8, <1>10, <1>12, <1>13 DEF Pipeline, MergeInv
\* A step in which nothing moves between the places keeps what is said of
\* them.
LEMMA NothingMoves ==
  ASSUME Pipeline, ~done, UNCHANGED <<next, sqval, outval, received>>,
         \A b \in Branch : /\ sq'[b] = "select" <=> sq[b] = "select"
                           /\ output'[b] = "select" <=> output[b] = "select"
  PROVE  /\ Somewhere' /\ Once' /\ Backed'
         /\ SqBusy' = SqBusy /\ OutBusy' = OutBusy
<1>1. Somewhere /\ Once /\ Backed
  BY DEF Pipeline
<1>2. \A n : Sent(n)' <=> Sent(n)
  BY DEF Sent
<1>3. \A n, b : b \in Branch => (InSq(b, n)' <=> InSq(b, n)) /\ (InOut(b, n)' <=> InOut(b, n))
  BY DEF InSq, InOut
<1>4. \A n, i : InMain(i, n)' <=> InMain(i, n)
  BY DEF InMain
<1>5. Somewhere'
  BY <1>1, <1>2, <1>3, <1>4 DEF Somewhere
<1>6. Once'
  BY <1>1, <1>3, <1>4 DEF Once
<1>7. Backed'
  BY <1>1 DEF Backed
<1>8. SqBusy' = SqBusy /\ OutBusy' = OutBusy
  BY DEF SqBusy, OutBusy
<1> QED
  BY <1>5, <1>6, <1>7, <1>8

\* gen closes its channel.
LEMMA GenEndsStep ==
  ASSUME Pipeline, GenEnds
  PROVE  Pipeline'
<1> USE NAssumption, ReceivesAssumption DEF GenEnds, sqVars, outVars
<1>t. MergeTypeOK /\ Genuine /\ NoSendOnClosed
  BY DEF Pipeline, MergeInv
<1>1. MergeTypeOK' /\ Genuine' /\ NoSendOnClosed'
  BY <1>t DEF MergeTypeOK, Genuine, NoSendOnClosed
<1>2. ~done => Somewhere' /\ Once' /\ Backed' /\ SqBusy' = SqBusy /\ OutBusy' = OutBusy
  BY NothingMoves
<1>3. ~done => InOrder'
  <2>1. ~done => next = N + 2
    BY <1>t DEF MergeTypeOK, Number
  <2> QED
    BY <2>1 DEF Pipeline, InOrder
<1>4. ~done => AddUp'
  BY <1>2 DEF Pipeline, AddUp
<1>5. SqTaken' = SqTaken /\ OutTaken' = OutTaken
  BY DEF SqTaken, OutTaken
<1> QED
  BY <1>1, <1>2, <1>3, <1>4, <1>5 DEF Pipeline, MergeInv

\* A sq closes its channel.
LEMMA SqEndsStep ==
  ASSUME Pipeline, NEW b \in Branch, SqEnds(b)
  PROVE  Pipeline'
<1> USE NAssumption, ReceivesAssumption DEF SqEnds, sqVars, outVars
<1>t. MergeTypeOK /\ Genuine /\ NoSendOnClosed
  BY DEF Pipeline, MergeInv
<1>0. sq'[b] = "end" /\ \A c \in Branch : c # b => sq'[c] = sq[c]
  BY <1>t DEF MergeTypeOK
<1>1. MergeTypeOK' /\ Genuine' /\ NoSendOnClosed'
  BY <1>t DEF MergeTypeOK, PC, Genuine, NoSendOnClosed
<1>2. ~done => Somewhere' /\ Once' /\ Backed' /\ SqBusy' = SqBusy /\ OutBusy' = OutBusy
  <2>1. ~done => \A c \in Branch : sq'[c] = "select" <=> sq[c] = "select"
    BY <1>0
  <2> QED
    BY <2>1, NothingMoves
<1>3. ~done => InOrder'
  BY <1>0 DEF Pipeline, InOrder
<1>4. ~done => AddUp'
  BY <1>2 DEF Pipeline, AddUp
<1>5. Cardinality(SqTaken) <= Cardinality(SqTaken') /\ OutTaken' = OutTaken
      /\ Cardinality(SqTaken') \in Nat
  <2>1. SqTaken' = SqTaken \union {b} /\ SqTaken \subseteq Branch
    BY <1>0 DEF SqTaken
  <2>2. OutTaken' = OutTaken
    BY DEF OutTaken
  <2> QED
    BY <2>1, <2>2, Counting
<1>6. next' - 2 <= Len(received') + Cardinality(SqTaken') + Cardinality(OutTaken')
  BY <1>5, <1>t, Counts DEF Pipeline
<1> QED
  BY <1>1, <1>2, <1>3, <1>4, <1>6 DEF Pipeline, MergeInv

\* An output has called wg.Done.
LEMMA OutputEndsStep ==
  ASSUME Pipeline, NEW b \in Branch, OutputEnds(b)
  PROVE  Pipeline'
<1> USE NAssumption, ReceivesAssumption DEF OutputEnds, sqVars, outVars
<1>t. MergeTypeOK /\ Genuine /\ NoSendOnClosed
  BY DEF Pipeline, MergeInv
<1>0. /\ output'[b] = "end" /\ output[b] # "end"
      /\ \A c \in Branch : c # b => output'[c] = output[c]
  BY <1>t DEF MergeTypeOK
<1>w. /\ wg' = Cardinality(Live') /\ wg' \in 0..Size /\ ~outClosed
  <2>1. Live' = Live \ {b} /\ b \in Live /\ Live \subseteq Branch /\ Live' \subseteq Branch
    BY <1>0 DEF Live
  <2>2. wg = Cardinality(Live) /\ ~outClosed
    BY <1>0, <1>t DEF NoSendOnClosed, Live
  <2>3. wg' = Cardinality(Live')
    BY <2>1, <2>2, Counting
  <2> QED
    BY <2>1, <2>2, <2>3, Counting
<1>1. MergeTypeOK' /\ Genuine' /\ NoSendOnClosed'
  <2>1. MergeTypeOK' /\ Genuine'
    BY <1>t, <1>w DEF MergeTypeOK, PC, Genuine, Size
  <2>2. NoSendOnClosed'
    BY <1>w DEF NoSendOnClosed, Live
  <2> QED
    BY <2>1, <2>2
<1>2. ~done => Somewhere' /\ Once' /\ Backed' /\ SqBusy' = SqBusy /\ OutBusy' = OutBusy
  <2>1. ~done => \A c \in Branch : output'[c] = "select" <=> output[c] = "select"
    BY <1>0
  <2> QED
    BY <2>1, NothingMoves
<1>3. ~done => InOrder'
  BY <1>0 DEF Pipeline, InOrder
<1>4. ~done => AddUp'
  BY <1>2 DEF Pipeline, AddUp
<1>5. Cardinality(OutTaken) <= Cardinality(OutTaken') /\ SqTaken' = SqTaken
      /\ Cardinality(OutTaken') \in Nat
  <2>1. OutTaken' = OutTaken \union {b} /\ OutTaken \subseteq Branch
    BY <1>0 DEF OutTaken
  <2>2. SqTaken' = SqTaken
    BY DEF SqTaken
  <2> QED
    BY <2>1, <2>2, Counting
<1>6. next' - 2 <= Len(received') + Cardinality(SqTaken') + Cardinality(OutTaken')
  BY <1>5, <1>t, Counts DEF Pipeline
<1> QED
  BY <1>1, <1>2, <1>3, <1>4, <1>6 DEF Pipeline, MergeInv

\* The closer shuts the shared channel: with main still there, every number
\* has arrived.
LEMMA CloseStep ==
  ASSUME Pipeline, Close
  PROVE  Pipeline'
<1> USE NAssumption, ReceivesAssumption DEF Close, sqVars, outVars
<1>t. MergeTypeOK /\ Genuine /\ NoSendOnClosed
  BY DEF Pipeline, MergeInv
<1>0. \A b \in Branch : output[b] = "end"
  <2>1. Live \subseteq Branch /\ Cardinality(Live) = 0
    BY <1>t DEF NoSendOnClosed, Live
  <2>2. Live = {}
    BY <2>1, Counting
  <2> QED
    BY <2>2 DEF Live
<1>1. MergeTypeOK' /\ Genuine' /\ NoSendOnClosed'
  BY <1>0, <1>t DEF MergeTypeOK, Genuine, NoSendOnClosed
<1>2. ~done => Somewhere' /\ Once' /\ Backed' /\ InOrder'
  BY NothingMoves DEF Pipeline, InOrder
<1>3. ~done => AddUp'
  <2> SUFFICES ASSUME ~done PROVE N <= Len(received)
    BY DEF AddUp
  <2>1. next = N + 2 /\ \A b \in Branch : sq[b] = "end"
    BY <1>0, BranchAssumption DEF Pipeline, InOrder
  <2>2. SqBusy = {} /\ OutBusy = {}
    BY <1>0, <2>1 DEF SqBusy, OutBusy
  <2>3. Cardinality({}) = 0
    BY Counting
  <2>4. Len(received) + Cardinality(SqBusy) + Cardinality(OutBusy) = next - 2
    BY DEF Pipeline, AddUp
  <2> QED
    BY <1>t, <2>1, <2>2, <2>3, <2>4, Counts
<1>4. SqTaken' = SqTaken /\ OutTaken' = OutTaken
  BY DEF SqTaken, OutTaken
<1> QED
  BY <1>1, <1>2, <1>3, <1>4 DEF Pipeline, MergeInv

\* main receives a zero: all the squares have arrived before.
LEMMA ReceiveZeroStep ==
  ASSUME Pipeline, ReceiveZero
  PROVE  Pipeline'
<1> USE NAssumption, ReceivesAssumption DEF ReceiveZero, sqVars, outVars
<1>t. MergeTypeOK /\ Genuine /\ NoSendOnClosed
  BY DEF Pipeline, MergeInv
<1>0. ~done /\ outClosed
  BY <1>t, Counts DEF Pipeline
<1>k. PICK k : k = Len(received) + 1
  OBVIOUS
<1>1. /\ received' \in Seq(Nat) /\ Len(received') = k /\ k \in Nat
      /\ DOMAIN received = 1..Len(received) /\ DOMAIN received' = 1..k
      /\ \A i \in DOMAIN received : received'[i] = received[i]
      /\ received'[k] = 0 /\ DOMAIN received' = DOMAIN received \union {k}
      /\ N < k
  <2>1. received \in Seq(Nat) /\ 0 \in Nat
    BY <1>t DEF MergeTypeOK
  <2>2. N < k
    BY <1>0, <1>k, <1>t, Counts DEF Pipeline, AddUp
  <2> QED
    BY <1>k, <2>1, <2>2, AppendProperties, LenProperties
<1>2. MergeTypeOK' /\ NoSendOnClosed'
  <2>1. Len(received') <= receives
    BY <1>1, <1>k, <1>t, Counts
  <2> QED
    BY <1>1, <1>t, <2>1 DEF MergeTypeOK, NoSendOnClosed
<1>3. Genuine'
  <2>1. \A i, j \in DOMAIN received' : i # j /\ received'[i] = received'[j] => received'[i] = 0
    BY <1>1, <1>t DEF Genuine
  <2>2. \A i \in DOMAIN received' : \/ received'[i] = 0 /\ i > N
                                    \/ i <= N /\ \E n \in Number : received'[i] = n * n
    BY <1>1, <1>t DEF Genuine
  <2> QED
    BY <2>1, <2>2 DEF Genuine
<1>4. \A n \in Number : /\ \A b \in Branch : /\ InSq(b, n)' <=> InSq(b, n)
                                             /\ InOut(b, n)' <=> InOut(b, n)
                        /\ \A i \in DOMAIN received' : InMain(i, n)' <=> i # k /\ InMain(i, n)
                        /\ k \notin DOMAIN received /\ (Sent(n)' <=> Sent(n))
  <2>1. \A n \in Number : Square(n) # 0
    BY Squares DEF Number
  <2> QED
    BY <1>1, <1>k, <1>t, <2>1, Counts DEF InSq, InOut, InMain, Sent
<1>5. Somewhere' /\ Once' /\ Backed' /\ InOrder'
  <2>1. Somewhere /\ Once /\ Backed /\ InOrder
    BY <1>0 DEF Pipeline
  <2>2. Somewhere'
    BY <1>1, <1>4, <2>1 DEF Somewhere
  <2>3. Once'
    BY <1>1, <1>4, <2>1 DEF Once
  <2>4. Backed' /\ InOrder'
    BY <2>1 DEF Backed, InOrder
  <2> QED
    BY <2>2, <2>3, <2>4
<1>6. AddUp'
  BY <1>0, <1>1 DEF AddUp
<1>7. next' - 2 <= Len(received') + Cardinality(SqTaken') + Cardinality(OutTaken')
  <2>1. SqTaken' = SqTaken /\ OutTaken' = OutTaken
    BY DEF SqTaken, OutTaken
  <2> QED
    BY <1>1, <1>k, <1>t, <2>1, Counts DEF Pipeline
<1> QED
  BY <1>0, <1>2, <1>3, <1>5, <1>6, <1>7 DEF Pipeline, MergeInv

\* Every step of the program keeps the invariant.
LEMMA NextPipeline == Pipeline /\ [MergeNext]_mergeVars => Pipeline'
<1> SUFFICES ASSUME Pipeline, [MergeNext]_mergeVars PROVE Pipeline'
  OBVIOUS
<1>1. ASSUME NEW b \in Branch, Step(b) PROVE Pipeline'
  BY <1>1, GenSendStep, SqSendStep, SqEndsStep, OutputSendStep, OutputEndsStep DEF Step
<1>2. CASE GenEnds \/ Close \/ ReceiveZero
  BY <1>2, GenEndsStep, CloseStep, ReceiveZeroStep
<1>3. CASE MainEnds
  <2>1. /\ done' /\ Len(received) = receives
        /\ UNCHANGED <<receives, next, gen, sq, sqval, output, outval, wg, outClosed, received>>
    BY <1>3 DEF MainEnds, sqVars, outVars
  <2>2. MergeInv'
    BY <1>3, <2>1 DEF MainEnds, Pipeline, MergeInv, MergeTypeOK, Genuine, NoSendOnClosed
  <2>3. SqTaken' = SqTaken /\ OutTaken' = OutTaken
    BY <2>1 DEF SqTaken, OutTaken
  <2> QED
    BY <2>1, <2>2, <2>3 DEF Pipeline
<1>4. CASE UNCHANGED mergeVars
  <2> USE <1>4 DEF mergeVars, sqVars, outVars
  <2>1. MergeInv'
    BY DEF Pipeline, MergeInv, MergeTypeOK, Genuine, NoSendOnClosed
  <2>2. ~done => Somewhere' /\ Once' /\ Backed' /\ InOrder' /\ SqBusy' = SqBusy /\ OutBusy' = OutBusy
    BY NothingMoves DEF Pipeline, InOrder
  <2>3. ~done => AddUp'
    BY <2>2 DEF Pipeline, AddUp
  <2>4. SqTaken' = SqTaken /\ OutTaken' = OutTaken
    BY DEF SqTaken, OutTaken
  <2> QED
    BY <2>1, <2>2, <2>3, <2>4 DEF Pipeline
<1> QED
  BY <1>1, <1>2, <1>3, <1>4 DEF MergeNext, Progress
-----------------------------------------------------------------------------
(* The theorems.                                                           *)

LEMMA PipelineHolds == MergeSpec => []Pipeline
BY InitPipeline, NextPipeline, PTL DEF MergeSpec

\* main's squares are of distinct numbers and its zeros come after the last
\* of them; no output sends on the closed channel.
THEOREM InvHolds == MergeSpec => []MergeInv
<1>1. Pipeline => MergeInv
  BY DEF Pipeline
<1> QED
  BY <1>1, PipelineHolds, PTL

\* gen is never further ahead of main than the branches can hold.
THEOREM ReadAheadHolds == MergeSpec => []MergeReadAhead
<1>1. Pipeline => MergeReadAhead
  <2> SUFFICES ASSUME Pipeline PROVE MergeReadAhead
    OBVIOUS
  <2>1. MergeTypeOK /\ next - 2 <= Len(received) + Cardinality(SqTaken) + Cardinality(OutTaken)
    BY DEF Pipeline, MergeInv
  <2>2. Cardinality(SqTaken) <= Size /\ Cardinality(OutTaken) <= Size /\ Size \in Nat
    BY Counting DEF SqTaken, OutTaken
  <2> QED
    BY <2>1, <2>2, Counts DEF MergeReadAhead
<1> QED
  BY <1>1, PipelineHolds, PTL

\* Until main leaves, every number gen has sent is in exactly one place.
THEOREM OnePlaceHolds == MergeSpec => []OnePlace
<1>1. Pipeline => OnePlace
  <2> SUFFICES ASSUME Pipeline, ~done, NEW n \in Number
               PROVE  Cardinality(Places(n)) = IF Sent(n) THEN 1 ELSE 0
    BY DEF OnePlace
  <2>1. Somewhere /\ Once
    BY DEF Pipeline
  <2>2. \A x : x \in Places(n) <=> \/ \E b \in Branch : InSq(b, n) /\ x = <<"sq", b>>
                                   \/ \E b \in Branch : InOut(b, n) /\ x = <<"output", b>>
                                   \/ \E i \in DOMAIN received : InMain(i, n) /\ x = <<"main", i>>
    <3> DEFINE A == {b \in Branch : sq[b] = "select" /\ sqval[b] = n}
               B == {b \in Branch : output[b] = "select" /\ outval[b] = n * n}
               C == {i \in DOMAIN received : received[i] = n * n}
    <3>1. \A b : (b \in A <=> b \in Branch /\ InSq(b, n)) /\ (b \in B <=> b \in Branch /\ InOut(b, n))
      BY DEF InSq, InOut, Square
    <3>2. \A i : i \in C <=> i \in DOMAIN received /\ InMain(i, n)
      BY DEF InMain, Square
    <3>3. Places(n) = {<<"sq", b>> : b \in A} \union {<<"output", b>> : b \in B}
                      \union {<<"main", i>> : i \in C}
      BY DEF Places
    <3> HIDE DEF A, B, C
    <3>4. \A x : x \in Places(n) <=> \/ \E b \in A : x = <<"sq", b>>
                                     \/ \E b \in B : x = <<"output", b>>
                                     \/ \E i \in C : x = <<"main", i>>
      BY <3>3
    <3> QED
      BY <3>1, <3>2, <3>4
  <2>3. CASE ~Sent(n)
    <3>1. Places(n) = {}
      BY <2>1, <2>2, <2>3 DEF Somewhere
    <3> QED
      BY <2>3, <3>1, FS_EmptySet
  <2>4. CASE Sent(n)
    <3>1. \E x : x \in Places(n)
      <4>1. \/ \E b \in Branch : InSq(b, n)
            \/ \E b \in Branch : InOut(b, n)
            \/ \E i \in DOMAIN received : InMain(i, n)
        BY <2>1, <2>4 DEF Somewhere
      <4>2. \A b \in Branch : (InSq(b, n) => <<"sq", b>> \in Places(n))
                              /\ (InOut(b, n) => <<"output", b>> \in Places(n))
        BY <2>2
      <4>3. \A i \in DOMAIN received : InMain(i, n) => <<"main", i>> \in Places(n)
        BY <2>2
      <4> QED
        BY <4>1, <4>2, <4>3
    <3>2. \A x, y \in Places(n) : x = y
      BY <2>1, <2>2 DEF Once
    <3>3. PICK x : Places(n) = {x}
      BY <3>1, <3>2
    <3> QED
      BY <2>4, <3>3, FS_Singleton
  <2> QED
    BY <2>3, <2>4
<1> QED
  BY <1>1, PipelineHolds, PTL
=============================================================================
