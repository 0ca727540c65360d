-------------------------- MODULE UvPipeline_proof --------------------------
(***************************************************************************)
(* The inductive invariant of the pipeline, and what follows from it, for  *)
(* every input, pool and capacity.  The proof goes from the data to the    *)
(* programs: what flattening a queue of requests yields; what the          *)
(* operations of a stream do to its queue and to the data behind it; one   *)
(* step of uvtee after the other; one step of uvcat and its pool after the *)
(* other; and the two programs joined at the pipe.                         *)
(*                                                                         *)
(* TeeKept and CatKept are the two programs' halves of the invariant and   *)
(* PipeOK is the promise between them: the pipe holds what comes next.     *)
(***************************************************************************)
EXTENDS UvPipeline, TLAPS, SequenceTheorems, WellFoundedInduction

\* A set of numbers that is not empty has a least one.
LEMMA LeastNat ==
  ASSUME NEW T, T \subseteq Nat, T # {}
  PROVE  \E n \in T : \A m \in T : n <= m
<1> DEFINE R == {p \in Nat \X Nat : p[1] < p[2]}
<1>1. IsWellFoundedOn(R, Nat)
  BY NatLessThanWellFounded DEF OpToRel
<1>2. PICK n \in T : \A m \in T : ~(<<m, n>> \in R)
  BY <1>1, WFMin
<1>3. ASSUME NEW m \in T PROVE n <= m
  <2>1. n \in Nat /\ m \in Nat /\ <<m, n>> \in Nat \X Nat /\ <<m, n>>[1] = m
        /\ <<m, n>>[2] = n
    OBVIOUS
  <2>2. ~(m < n)
    BY <1>2, <2>1
  <2> QED
    BY <2>1, <2>2
<1> QED
  BY <1>3

\* Induction over the numbers, for a set of them.
LEMMA AllNat ==
  ASSUME NEW P, 0 \in P, \A n \in Nat : n \in P => n + 1 \in P
  PROVE  Nat \subseteq P
<1> DEFINE T == Nat \ P
<1>1. ASSUME T # {} PROVE FALSE
  <2>1. PICK n \in T : \A m \in T : n <= m
    BY <1>1, LeastNat
  <2>2. n \in Nat /\ n # 0 /\ n - 1 \in Nat /\ n - 1 \notin T
    BY <2>1
  <2>3. n - 1 \in P /\ (n - 1) + 1 = n
    BY <2>2
  <2> QED
    BY <2>1, <2>2, <2>3
<1> QED
  BY <1>1

\* The turns of FlattenSeq over the first n parts of q.
IsFlat(D, q, n, g) == /\ g \in [1 .. n -> Seq(D)]
                      /\ \A i \in 1 .. n : g[i] = IF i = 1 THEN q[i] ELSE g[i - 1] \o q[i]

\* They are determined by the parts.
LEMMA FlatAlike ==
  ASSUME NEW D, NEW q, NEW p, NEW n \in Nat, NEW m \in Nat, NEW g, NEW h,
         IsFlat(D, q, n, g), IsFlat(D, p, m, h), n <= m, \A k \in 1 .. n : q[k] = p[k]
  PROVE  \A i \in 1 .. n : g[i] = h[i]
<1> DEFINE T == {i \in 1 .. n : g[i] # h[i]}
<1>1. ASSUME T # {} PROVE FALSE
  <2>0. T \subseteq Nat
    OBVIOUS
  <2>1. PICK i \in T : \A j \in T : i <= j
    BY <1>1, <2>0, LeastNat
  <2>2. i \in 1 .. n /\ i \in 1 .. m /\ q[i] = p[i] /\ g[i] # h[i]
    BY <2>1
  <2>3. CASE i = 1
    BY <2>2, <2>3 DEF IsFlat
  <2>4. CASE i # 1
    <3>1. i - 1 \in 1 .. n /\ i - 1 \notin T
      BY <2>1, <2>2, <2>4
    <3>2. g[i - 1] = h[i - 1]
      BY <3>1
    <3>3. g[i] = g[i - 1] \o q[i] /\ h[i] = h[i - 1] \o p[i]
      BY <2>2, <2>4 DEF IsFlat
    <3> QED
      BY <2>2, <3>2, <3>3
  <2> QED
    BY <2>3, <2>4
<1> QED
  BY <1>1

\* There are such turns, to the last part.
LEMMA FlatRuns ==
  ASSUME NEW D, NEW q \in Seq(Seq(D))
  PROVE  \A n \in Nat : n <= Len(q) => \E g : IsFlat(D, q, n, g)
<1> DEFINE P == {n \in Nat : n <= Len(q) => \E g : IsFlat(D, q, n, g)}
<1>1. 0 \in P
  <2>1. IsFlat(D, q, 0, [i \in 1 .. 0 |-> <<>>])
    BY DEF IsFlat
  <2> QED
    BY <2>1
<1>2. ASSUME NEW n \in Nat, n \in P PROVE n + 1 \in P
  <2> SUFFICES ASSUME n + 1 <= Len(q) PROVE \E g : IsFlat(D, q, n + 1, g)
    OBVIOUS
  <2>1. PICK g : IsFlat(D, q, n, g)
    BY <1>2
  <2> DEFINE last == IF n = 0 THEN q[n + 1] ELSE g[n] \o q[n + 1]
             h == [i \in 1 .. n + 1 |-> IF i = n + 1 THEN last ELSE g[i]]
  <2>2. q[n + 1] \in Seq(D)
    BY LenProperties
  <2>3. last \in Seq(D)
    <3>1. CASE n # 0
      <4>1. g[n] \in Seq(D)
        BY <2>1, <3>1 DEF IsFlat
      <4> QED
        BY <2>2, <3>1, <4>1, ConcatProperties
    <3> QED
      BY <2>2, <3>1
  <2> HIDE DEF last
  <2>4. \A i \in 1 .. n + 1 : i # n + 1 => i \in 1 .. n /\ g[i] \in Seq(D)
    BY <2>1 DEF IsFlat
  <2>5. h \in [1 .. n + 1 -> Seq(D)]
    BY <2>3, <2>4
  <2>6. ASSUME NEW i \in 1 .. n + 1 PROVE h[i] = IF i = 1 THEN q[i] ELSE h[i - 1] \o q[i]
    <3>1. CASE i = n + 1
      <4>1. i # 1 => i - 1 \in 1 .. n + 1 /\ i - 1 # n + 1 /\ i - 1 = n
        BY <3>1
      <4>2. h[i] = last /\ (i # 1 => h[i - 1] = g[n])
        BY <3>1, <4>1
      <4> QED
        BY <3>1, <4>1, <4>2 DEF last
    <3>2. CASE i # n + 1
      <4>1. i \in 1 .. n /\ h[i] = g[i]
            /\ (i # 1 => i - 1 \in 1 .. n + 1 /\ i - 1 # n + 1 /\ h[i - 1] = g[i - 1])
        BY <2>4, <3>2
      <4> QED
        BY <2>1, <4>1 DEF IsFlat
    <3> QED
      BY <3>1, <3>2
  <2>7. IsFlat(D, q, n + 1, h)
    BY <2>5, <2>6 DEF IsFlat
  <2> QED
    BY <2>7
<1> HIDE DEF P
<1>3. Nat \subseteq P
  BY <1>1, <1>2, AllNat
<1> QED
  BY <1>3 DEF P

\* FlattenSeq is what the last turn gives.
LEMMA FlatIs ==
  ASSUME NEW D, NEW q \in Seq(Seq(D)), q # <<>>
  PROVE  \E g : IsFlat(D, q, Len(q), g) /\ FlattenSeq(q) = g[Len(q)]
<1> DEFINE eq(f) == f = [i \in 1 .. Len(q) |-> IF i = 1 THEN q[i] ELSE f[i - 1] \o q[i]]
           c == CHOOSE f : eq(f)
<1>1. Len(q) \in Nat \ {0}
  BY LenProperties, EmptySeq
<1>2. PICK g : IsFlat(D, q, Len(q), g)
  BY <1>1, FlatRuns
<1>3. eq(g)
  BY <1>2 DEF IsFlat
<1>4. eq(c)
  BY <1>3
<1>5. FlattenSeq(q) = c[Len(q)]
  BY <1>1 DEF FlattenSeq
<1> HIDE DEF c
<1>6. IsFlat(D, q, Len(q), c)
  <2> DEFINE T == {i \in 1 .. Len(q) : c[i] \notin Seq(D)}
  <2>1. ASSUME T # {} PROVE FALSE
    <3>0. T \subseteq Nat
      BY <1>1
    <3>1. PICK i \in T : \A j \in T : i <= j
      BY <2>1, <3>0, LeastNat
    <3>2. i \in 1 .. Len(q) /\ q[i] \in Seq(D) /\ c[i] \notin Seq(D)
      BY <3>1, LenProperties
    <3>3. CASE i = 1
      BY <1>4, <3>2, <3>3
    <3>4. CASE i # 1
      <4>1. i - 1 \in 1 .. Len(q) /\ i - 1 \notin T
        BY <1>1, <3>1, <3>2, <3>4
      <4>2. c[i - 1] \in Seq(D) /\ c[i] = c[i - 1] \o q[i]
        BY <1>4, <3>2, <3>4, <4>1
      <4> QED
        BY <3>2, <4>2, ConcatProperties
    <3> QED
      BY <3>3, <3>4
  <2>2. \A i \in 1 .. Len(q) : c[i] \in Seq(D)
    BY <2>1
  <2> QED
    BY <1>4, <2>2 DEF IsFlat
<1> QED
  BY <1>5, <1>6

\* No part makes nothing.
LEMMA FlatEmpty == FlattenSeq(<<>>) = <<>>
BY DEF FlattenSeq

\* One part more goes to the end.
LEMMA FlatAppend ==
  ASSUME NEW D, NEW q \in Seq(Seq(D)), NEW x \in Seq(D)
  PROVE  /\ FlattenSeq(q) \in Seq(D)
         /\ FlattenSeq(Append(q, x)) = FlattenSeq(q) \o x
<1> DEFINE p == Append(q, x)
           n == Len(q)
<1>1. /\ p \in Seq(Seq(D)) /\ p # <<>> /\ Len(p) = n + 1 /\ n \in Nat
      /\ p[n + 1] = x /\ \A i \in 1 .. n : p[i] = q[i]
  BY AppendProperties, LenProperties
<1>2. PICK h : IsFlat(D, p, n + 1, h) /\ FlattenSeq(p) = h[n + 1]
  BY <1>1, FlatIs
<1>n. n = Len(q)
  OBVIOUS
<1> HIDE DEF p, n
<1>3. CASE q = <<>>
  <2>1. n = 0
    BY <1>n, <1>3, EmptySeq
  <2>2. h[1] = x
    BY <1>1, <1>2, <2>1 DEF IsFlat
  <2>3. <<>> \o x = x /\ <<>> \in Seq(D)
    BY ConcatEmptySeq, EmptySeq
  <2> QED
    <3>1. FlattenSeq(q) = <<>> /\ FlattenSeq(p) = x
      BY <1>2, <1>3, <2>1, <2>2, FlatEmpty
    <3> QED
      BY <2>3, <3>1 DEF p
<1>4. CASE q # <<>>
  <2>1. PICK g : IsFlat(D, q, n, g) /\ FlattenSeq(q) = g[n]
    BY <1>n, <1>4, FlatIs
  <2>2. n \in 1 .. n
    BY <1>n, <1>1, <1>4, EmptySeq, SeqEqual
  <2>3. g[n] = h[n]
    <3>1. \A i \in 1 .. n : g[i] = h[i]
      <4>1. n \in Nat /\ n + 1 \in Nat /\ n <= n + 1 /\ \A k \in 1 .. n : q[k] = p[k]
        BY <1>1
      <4>2. IsFlat(D, q, n, g) /\ IsFlat(D, p, n + 1, h)
        BY <1>n, <1>2, <2>1
      <4> HIDE DEF IsFlat
      <4> QED
        BY <4>1, <4>2, FlatAlike
    <3> QED
      BY <2>2, <3>1
  <2>4. g[n] \in Seq(D)
    BY <2>1, <2>2 DEF IsFlat
  <2>5. h[n + 1] = h[n] \o p[n + 1]
    <3>1. n + 1 \in 1 .. n + 1 /\ n + 1 # 1 /\ (n + 1) - 1 = n
      BY <2>2
    <3> QED
      BY <1>2, <3>1 DEF IsFlat
  <2> QED
    BY <1>1, <1>2, <2>1, <2>3, <2>4, <2>5 DEF p
<1> QED
  BY <1>3, <1>4

\* What is flattened part by part is flattened as a whole.
LEMMA FlatConcat ==
  ASSUME NEW D, NEW p \in Seq(Seq(D)), NEW q \in Seq(Seq(D))
  PROVE  FlattenSeq(p \o q) = FlattenSeq(p) \o FlattenSeq(q)
<1> DEFINE S == Seq(D)
           P == {n \in Nat : \A r \in Seq(S) : Len(r) = n => FlattenSeq(p \o r) = FlattenSeq(p) \o FlattenSeq(r)}
<1>0. ASSUME NEW r \in Seq(S) PROVE FlattenSeq(r) \in S
  BY FlatAppend, EmptySeq
<1> HIDE DEF S
<1>1. 0 \in P
  <2> SUFFICES ASSUME NEW r \in Seq(S), Len(r) = 0
               PROVE  FlattenSeq(p \o r) = FlattenSeq(p) \o FlattenSeq(r)
    OBVIOUS
  <2>1. r = <<>>
    BY EmptySeq, SeqEqual
  <2>2. p \o <<>> = p /\ FlattenSeq(p) \o <<>> = FlattenSeq(p)
    BY <1>0, ConcatEmptySeq DEF S
  <2> QED
    BY <2>1, <2>2, FlatEmpty
<1>2. ASSUME NEW n \in Nat, n \in P PROVE n + 1 \in P
  <2> SUFFICES ASSUME NEW r \in Seq(S), Len(r) = n + 1
               PROVE  FlattenSeq(p \o r) = FlattenSeq(p) \o FlattenSeq(r)
    OBVIOUS
  <2>0. r # <<>>
    BY EmptySeq
  <2>1. PICK t \in Seq(S), x \in S : r = Append(t, x)
    BY <2>0, SequenceEmptyOrAppend
  <2>2. Len(t) = n
    BY <2>1, AppendProperties, LenProperties
  <2>3. FlattenSeq(p \o t) = FlattenSeq(p) \o FlattenSeq(t)
    BY <1>2, <2>2
  <2>4. p \o r = Append(p \o t, x) /\ p \o t \in Seq(S)
    <3>1. p \in Seq(S)
      BY DEF S
    <3>2. p \o t \in Seq(S) /\ r = t \o <<x>> /\ <<x>> \in Seq(S)
      BY <2>1, <3>1, ConcatProperties, AppendIsConcat
    <3> QED
      BY <3>1, <3>2, AppendIsConcat, ConcatAssociative
  <2>5. FlattenSeq(p \o r) = FlattenSeq(p \o t) \o x /\ FlattenSeq(r) = FlattenSeq(t) \o x
    BY <2>1, <2>4, FlatAppend DEF S
  <2>6. FlattenSeq(p) \in Seq(D) /\ FlattenSeq(t) \in Seq(D) /\ x \in Seq(D)
    BY <1>0 DEF S
  <2> QED
    BY SMTT(30), <2>3, <2>5, <2>6, ConcatAssociative
<1> HIDE DEF P
<1>3. Nat \subseteq P
  BY <1>1, <1>2, AllNat
<1>4. Len(q) \in P /\ q \in Seq(S)
  BY <1>3, LenProperties DEF S
<1> QED
  BY <1>4 DEF P

\* The bytes of requests.
LEMMA RestsFacts ==
  ASSUME NEW D, NEW q \in Seq(Request(D))
  PROVE  /\ [i \in DOMAIN q |-> q[i].rest] \in Seq(Seq(D))
         /\ Len([i \in DOMAIN q |-> q[i].rest]) = Len(q)
<1>1. Len(q) \in Nat /\ DOMAIN q = 1 .. Len(q) /\ \A i \in 1 .. Len(q) : q[i] \in Request(D)
  BY LenProperties
<1>2. \A i \in 1 .. Len(q) : q[i].rest \in Seq(D)
  BY <1>1 DEF Request
<1> DEFINE S == Seq(D)
           f == [i \in DOMAIN q |-> q[i].rest]
<1>3. f \in [1 .. Len(q) -> S]
  BY <1>1, <1>2
<1> HIDE DEF S, f
<1>4. f \in Seq(S) /\ Len(f) = Len(q)
  BY <1>1, <1>3
<1> QED
  BY <1>4 DEF S, f

\* What the requests of a queue have left is a sequence, and has a size.
LEMMA BytesType ==
  ASSUME NEW D, NEW q \in Seq(Request(D))
  PROVE  Bytes(q) \in Seq(D) /\ SizeOf(q) \in Nat
<1> DEFINE f == [i \in DOMAIN q |-> q[i].rest]
<1>1. f \in Seq(Seq(D))
  BY RestsFacts
<1> HIDE DEF f
<1>2. FlattenSeq(f) \in Seq(D)
  BY <1>1, FlatAppend, EmptySeq
<1> QED
  BY <1>2, LenProperties DEF Bytes, SizeOf, f

\* An empty queue holds nothing.
LEMMA BytesEmpty == Bytes(<<>>) = <<>> /\ SizeOf(<<>>) = 0
<1>1. [i \in DOMAIN <<>> |-> <<>>[i].rest] = <<>>
  OBVIOUS
<1> QED
  BY <1>1, FlatEmpty DEF Bytes, SizeOf

\* Only what requests hold counts.
LEMMA BytesSame ==
  ASSUME NEW D, NEW q \in Seq(Request(D)), NEW p \in Seq(Request(D)), Len(q) = Len(p),
         \A i \in 1 .. Len(q) : q[i].rest = p[i].rest
  PROVE  Bytes(q) = Bytes(p)
<1>1. DOMAIN q = 1 .. Len(q) /\ DOMAIN p = 1 .. Len(p)
  BY LenProperties
<1>2. [i \in DOMAIN q |-> q[i].rest] = [i \in DOMAIN p |-> p[i].rest]
  BY <1>1
<1> QED
  BY <1>2 DEF Bytes

\* What two queues hold together is what one holds, then the other.
LEMMA BytesConcat ==
  ASSUME NEW D, NEW p \in Seq(Request(D)), NEW q \in Seq(Request(D))
  PROVE  /\ Bytes(p \o q) = Bytes(p) \o Bytes(q)
         /\ SizeOf(p \o q) = SizeOf(p) + SizeOf(q)
<1> DEFINE f == [i \in DOMAIN p |-> p[i].rest]
           g == [i \in DOMAIN q |-> q[i].rest]
           h == [i \in DOMAIN (p \o q) |-> (p \o q)[i].rest]
           S == Seq(D)
<1>1. p \o q \in Seq(Request(D)) /\ Len(p \o q) = Len(p) + Len(q) /\ Len(p) \in Nat
      /\ Len(q) \in Nat
      /\ DOMAIN p = 1 .. Len(p) /\ DOMAIN q = 1 .. Len(q)
      /\ DOMAIN (p \o q) = 1 .. Len(p \o q)
  BY ConcatProperties, LenProperties
<1>2. f \in Seq(S) /\ g \in Seq(S) /\ h \in Seq(S) /\ Len(f) = Len(p) /\ Len(g) = Len(q)
      /\ Len(h) = Len(p) + Len(q)
  BY <1>1, RestsFacts
<1>3. /\ \A i \in 1 .. Len(p) : f[i] = p[i].rest
      /\ \A i \in 1 .. Len(q) : g[i] = q[i].rest
      /\ \A i \in 1 .. Len(p) + Len(q) : h[i] = IF i <= Len(p) THEN p[i].rest ELSE q[i - Len(p)].rest
  BY <1>1, ConcatProperties
<1> HIDE DEF f, g, h, S
<1>4. h = f \o g
  <2>1. f \o g \in Seq(S) /\ Len(f \o g) = Len(f) + Len(g)
    BY <1>2, ConcatProperties
  <2>2. ASSUME NEW i \in 1 .. Len(h) PROVE h[i] = (f \o g)[i]
    <3>1. (f \o g)[i] = IF i <= Len(f) THEN f[i] ELSE g[i - Len(f)]
      BY <1>1, <1>2, <2>1, ConcatProperties
    <3>2. h[i] = IF i <= Len(p) THEN p[i].rest ELSE q[i - Len(p)].rest
      BY <1>2, <1>3
    <3>3. CASE i <= Len(p)
      <4>1. i \in 1 .. Len(p)
        BY <1>1, <1>2, <3>3
      <4> QED
        BY <1>2, <1>3, <3>1, <3>2, <3>3, <4>1
    <3>4. CASE ~(i <= Len(p))
      <4>1. i - Len(p) \in 1 .. Len(q)
        BY <1>1, <1>2, <3>4
      <4> QED
        BY <1>2, <1>3, <3>1, <3>2, <3>4, <4>1
    <3> QED
      BY <3>3, <3>4
  <2> QED
    BY <1>2, <2>1, <2>2, SeqEqual
<1>5. FlattenSeq(h) = FlattenSeq(f) \o FlattenSeq(g)
  BY <1>2, <1>4, FlatConcat DEF S
<1>6. Bytes(p \o q) = Bytes(p) \o Bytes(q)
  BY <1>5 DEF Bytes, f, g, h
<1>7. Bytes(p) \in Seq(D) /\ Bytes(q) \in Seq(D)
  BY BytesType
<1> QED
  BY <1>6, <1>7, ConcatProperties DEF SizeOf

\* A single request holds what it has left.
LEMMA BytesOne ==
  ASSUME NEW D, NEW r \in Request(D)
  PROVE  Bytes(<<r>>) = r.rest /\ <<r>> \in Seq(Request(D))
<1>1. r.rest \in Seq(D)
  BY DEF Request
<1>2. [i \in DOMAIN <<r>> |-> <<r>>[i].rest] = <<r.rest>>
      /\ <<r.rest>> = Append(<<>>, r.rest)
  OBVIOUS
<1>3. FlattenSeq(Append(<<>>, r.rest)) = <<>> \o r.rest /\ <<>> \o r.rest = r.rest
  <2>1. <<>> \in Seq(Seq(D))
    BY EmptySeq
  <2>2. FlattenSeq(Append(<<>>, r.rest)) = FlattenSeq(<<>>) \o r.rest
    BY <1>1, <2>1, FlatAppend
  <2> QED
    BY <1>1, <2>2, FlatEmpty, ConcatEmptySeq
<1> QED
  BY <1>2, <1>3 DEF Bytes

\* A new request's data goes behind what is queued.
LEMMA BytesAppend ==
  ASSUME NEW D, NEW q \in Seq(Request(D)), NEW r \in Request(D)
  PROVE  /\ Bytes(Append(q, r)) = Bytes(q) \o r.rest
         /\ SizeOf(Append(q, r)) = SizeOf(q) + Len(r.rest)
<1>1. Append(q, r) = q \o <<r>>
  BY AppendIsConcat
<1>2. <<r>> \in Seq(Request(D)) /\ Bytes(<<r>>) = r.rest /\ SizeOf(<<r>>) = Len(r.rest)
  BY BytesOne DEF SizeOf
<1> QED
  BY <1>1, <1>2, BytesConcat

\* A queue that is not empty is its first element and the others.
LEMMA HeadAndTail ==
  ASSUME NEW S, NEW q \in Seq(S), q # <<>>
  PROVE  /\ q = <<Head(q)>> \o Tail(q) /\ Head(q) \in S /\ Tail(q) \in Seq(S)
         /\ <<Head(q)>> \in Seq(S)
         /\ Len(q) \in Nat \ {0} /\ Len(Tail(q)) = Len(q) - 1 /\ Head(q) = q[1]
         /\ \A i \in 1 .. Len(q) - 1 : Tail(q)[i] = q[i + 1]
OBVIOUS

\* The first request's data goes first.
LEMMA BytesHead ==
  ASSUME NEW D, NEW q \in Seq(Request(D)), q # <<>>
  PROVE  /\ Head(q) \in Request(D) /\ Tail(q) \in Seq(Request(D))
         /\ Bytes(q) = Head(q).rest \o Bytes(Tail(q))
         /\ SizeOf(q) = Len(Head(q).rest) + SizeOf(Tail(q))
<1>1. q = <<Head(q)>> \o Tail(q) /\ Head(q) \in Request(D) /\ Tail(q) \in Seq(Request(D))
  BY HeadAndTail
<1>2. Bytes(<<Head(q)>> \o Tail(q)) = Bytes(<<Head(q)>>) \o Bytes(Tail(q))
      /\ SizeOf(<<Head(q)>> \o Tail(q)) = SizeOf(<<Head(q)>>) + SizeOf(Tail(q))
  BY <1>1, BytesOne, BytesConcat
<1>3. Bytes(<<Head(q)>>) = Head(q).rest
  BY <1>1, BytesOne
<1> QED
  BY <1>1, <1>2, <1>3 DEF SizeOf

\* Requests that hold nothing are none.
LEMMA NothingHeld ==
  ASSUME NEW D, NEW q \in Seq(Request(D)), \A i \in DOMAIN q : q[i].rest # <<>>, SizeOf(q) = 0
  PROVE  q = <<>>
<1> SUFFICES ASSUME q # <<>> PROVE FALSE
  OBVIOUS
<1>1. Len(q) \in Nat \ {0} /\ Head(q) = q[1] /\ Tail(q) \in Seq(Request(D))
      /\ Head(q) \in Request(D)
  BY HeadAndTail
<1>2. 1 \in DOMAIN q /\ Head(q).rest # <<>> /\ Head(q).rest \in Seq(D)
  BY <1>1, LenProperties DEF Request
<1>3. Len(Head(q).rest) \in Nat \ {0}
  BY <1>2, LenProperties, EmptySeq, SeqEqual
<1>4. SizeOf(q) = Len(Head(q).rest) + SizeOf(Tail(q)) /\ SizeOf(Tail(q)) \in Nat
  BY <1>1, BytesHead, BytesType
<1> QED
  BY <1>3, <1>4

\* Parts of a sequence.
LEMMA SubSeqFacts ==
  ASSUME NEW S, NEW s \in Seq(S), NEW i \in 0 .. Len(s), NEW j \in i .. Len(s)
  PROVE  /\ SubSeq(s, i + 1, j) \in Seq(S) /\ Len(SubSeq(s, i + 1, j)) = j - i
         /\ \A k \in 1 .. j - i : SubSeq(s, i + 1, j)[k] = s[i + k]
<1>1. Len(s) \in Nat /\ i + 1 \in Int /\ j \in Int /\ \A k \in i + 1 .. j : s[k] \in S
  BY LenProperties
<1> QED
  BY <1>1, SubSeqProperties

\* Two stretches of a sequence that meet make one.
LEMMA SubSeqJoin ==
  ASSUME NEW S, NEW s \in Seq(S), NEW i \in 0 .. Len(s), NEW j \in i .. Len(s), NEW k \in j .. Len(s)
  PROVE  SubSeq(s, i + 1, j) \o SubSeq(s, j + 1, k) = SubSeq(s, i + 1, k)
<1>1. Len(s) \in Nat
  BY LenProperties
<1>2. i + 1 \in 1 .. Len(s) + 1 /\ j \in (i + 1) - 1 .. Len(s) /\ k \in j .. Len(s)
  BY <1>1
<1> QED
  BY <1>2, ConcatAdjacentSubSeq

\* A stretch of a stretch is a stretch of the whole.
LEMMA SubSeqCut ==
  ASSUME NEW S, NEW s \in Seq(S), NEW i \in 0 .. Len(s), NEW j \in i .. Len(s),
         NEW m \in 0 .. j - i, NEW n \in m .. j - i
  PROVE  SubSeq(SubSeq(s, i + 1, j), m + 1, n) = SubSeq(s, (i + m) + 1, i + n)
<1> DEFINE t == SubSeq(s, i + 1, j)
           x == SubSeq(t, m + 1, n)
           y == SubSeq(s, (i + m) + 1, i + n)
<1>1. Len(s) \in Nat /\ i \in Nat /\ j \in Nat /\ m \in Nat /\ n \in Nat
      /\ i + m \in 0 .. Len(s) /\ i + n \in i + m .. Len(s)
  BY LenProperties
<1>2. t \in Seq(S) /\ Len(t) = j - i /\ \A k \in 1 .. j - i : t[k] = s[i + k]
  BY SubSeqFacts
<1> HIDE DEF t
<1>3. x \in Seq(S) /\ Len(x) = n - m /\ \A k \in 1 .. n - m : x[k] = t[m + k]
  <2>1. m \in 0 .. Len(t) /\ n \in m .. Len(t)
    BY <1>2
  <2> QED
    BY <1>2, <2>1, SubSeqFacts
<1>4. y \in Seq(S) /\ Len(y) = n - m /\ \A k \in 1 .. n - m : y[k] = s[(i + m) + k]
  <2>1. (i + n) - (i + m) = n - m
    BY <1>1
  <2> QED
    BY <1>1, <2>1, SubSeqFacts
<1> HIDE DEF x, y
<1>5. \A k \in 1 .. n - m : x[k] = y[k]
  BY <1>1, <1>2, <1>3, <1>4
<1>6. x = y
  BY <1>1, <1>3, <1>4, <1>5, SeqEqual
<1> QED
  BY <1>6 DEF x, y, t

\* What is left of a concatenation when a part of its first half is cut off.
LEMMA CutFirst ==
  ASSUME NEW S, NEW s \in Seq(S), NEW t \in Seq(S), NEW n \in 0 .. Len(s)
  PROVE  /\ SubSeq(s \o t, n + 1, Len(s \o t)) = SubSeq(s, n + 1, Len(s)) \o t
         /\ SubSeq(s \o t, 1, n) = SubSeq(s, 1, n)
<1> DEFINE x == SubSeq(s \o t, n + 1, Len(s \o t))
           y == SubSeq(s, n + 1, Len(s))
<1>1. s \o t \in Seq(S) /\ Len(s \o t) = Len(s) + Len(t) /\ Len(s) \in Nat
      /\ Len(t) \in Nat /\ n \in Nat
      /\ \A i \in 1 .. Len(s) + Len(t) : (s \o t)[i] = IF i <= Len(s) THEN s[i] ELSE t[i - Len(s)]
  BY ConcatProperties, LenProperties
<1>2. n \in 0 .. Len(s \o t) /\ Len(s \o t) \in n .. Len(s \o t) /\ Len(s) \in n .. Len(s)
  BY <1>1
<1>3. x \in Seq(S) /\ Len(x) = Len(s) + Len(t) - n
      /\ \A k \in 1 .. Len(s) + Len(t) - n : x[k] = (s \o t)[n + k]
  BY <1>1, <1>2, SubSeqFacts
<1>4. y \in Seq(S) /\ Len(y) = Len(s) - n /\ \A k \in 1 .. Len(s) - n : y[k] = s[n + k]
  BY <1>2, SubSeqFacts
<1> HIDE DEF x, y
<1>5. y \o t \in Seq(S) /\ Len(y \o t) = Len(y) + Len(t)
      /\ \A i \in 1 .. Len(y) + Len(t) : (y \o t)[i] = IF i <= Len(y) THEN y[i] ELSE t[i - Len(y)]
  BY <1>4, ConcatProperties
<1>6. ASSUME NEW k \in 1 .. Len(x) PROVE x[k] = (y \o t)[k]
  <2>1. x[k] = IF n + k <= Len(s) THEN s[n + k] ELSE t[(n + k) - Len(s)]
    BY <1>1, <1>3
  <2>2. (y \o t)[k] = IF k <= Len(y) THEN y[k] ELSE t[k - Len(y)]
    BY <1>1, <1>3, <1>4, <1>5
  <2>3. k - Len(y) = (n + k) - Len(s) /\ (k <= Len(y) <=> n + k <= Len(s))
    BY <1>1, <1>3, <1>4
  <2>4. k <= Len(y) => y[k] = s[n + k]
    BY <1>1, <1>3, <1>4
  <2> QED
    BY <2>1, <2>2, <2>3, <2>4
<1>7. Len(x) = Len(y \o t)
  BY <1>1, <1>3, <1>4, <1>5
<1>8. x = y \o t
  BY <1>3, <1>5, <1>6, <1>7, SeqEqual
<1>9. SubSeq(s \o t, 1, n) = SubSeq(s, 1, n)
  <2> DEFINE a == SubSeq(s \o t, 0 + 1, n)
             b == SubSeq(s, 0 + 1, n)
  <2>0. 0 \in 0 .. Len(s) /\ 0 \in 0 .. Len(s \o t) /\ n \in 0 .. Len(s)
        /\ n \in 0 .. Len(s \o t) /\ n - 0 = n /\ \A k \in 1 .. n : 0 + k = k
    BY <1>1
  <2>1. a \in Seq(S) /\ Len(a) = n - 0 /\ \A k \in 1 .. n - 0 : a[k] = (s \o t)[0 + k]
    BY <1>1, <2>0, SubSeqFacts
  <2>2. b \in Seq(S) /\ Len(b) = n - 0 /\ \A k \in 1 .. n - 0 : b[k] = s[0 + k]
    BY <1>1, <2>0, SubSeqFacts
  <2> HIDE DEF a, b
  <2>3. \A k \in 1 .. n : a[k] = b[k]
    BY SMTT(30), <1>1, <2>0, <2>1, <2>2
  <2>4. a = b
    BY <2>0, <2>1, <2>2, <2>3, SeqEqual
  <2> QED
    BY <2>4 DEF a, b
<1> QED
  BY <1>8, <1>9 DEF x, y

\* What holds of a stream at all times, and how many requests it has had.
Sound(s) ==
  /\ s \in Stream(Byte) /\ s.size = SizeOf(Requests(s))
  /\ \A i \in DOMAIN s.q : ~s.q[i].err /\ s.q[i].rest # <<>>
  /\ \A i \in DOMAIN s.done : s.done[i].err \/ s.done[i].rest = <<>>
  /\ \A i \in DOMAIN Requests(s) : Requests(s)[i].id = s.called + i
\* How many writes a stream was given: those answered and those it has.
Total(s) == s.called + Len(Requests(s))

\* What the provers need to know of a stream, by type.
LEMMA StreamFacts ==
  ASSUME NEW s \in Stream(Byte)
  PROVE  /\ s.q \in Seq(Request(Byte)) /\ s.done \in Seq(Request(Byte))
         /\ Requests(s) \in Seq(Request(Byte)) /\ Len(Requests(s)) = Len(s.done) + Len(s.q)
         /\ Len(s.q) \in Nat /\ Len(s.done) \in Nat /\ s.called \in Nat /\ Total(s) \in Nat
         /\ SizeOf(Requests(s)) = SizeOf(s.done) + SizeOf(s.q)
         /\ SizeOf(s.done) \in Nat /\ SizeOf(s.q) \in Nat
         /\ Bytes(s.q) \in Seq(Byte) /\ SizeOf(s.q) = Len(Bytes(s.q))
         /\ DOMAIN s.q = 1 .. Len(s.q) /\ DOMAIN s.done = 1 .. Len(s.done)
         /\ DOMAIN Requests(s) = 1 .. Len(Requests(s))
         /\ (Total(s) > 0 <=> s.called > 0 \/ Requests(s) # <<>>)
         /\ (Requests(s) = <<>> <=> s.q = <<>> /\ s.done = <<>>)
<1>1. s.q \in Seq(Request(Byte)) /\ s.done \in Seq(Request(Byte)) /\ s.called \in Nat
  BY DEF Stream
<1>2. Requests(s) \in Seq(Request(Byte)) /\ Len(Requests(s)) = Len(s.done) + Len(s.q)
  BY <1>1, ConcatProperties DEF Requests
<1>3. SizeOf(Requests(s)) = SizeOf(s.done) + SizeOf(s.q)
  BY <1>1, BytesConcat DEF Requests
<1>4. SizeOf(s.done) \in Nat /\ SizeOf(s.q) \in Nat /\ Bytes(s.q) \in Seq(Byte)
      /\ SizeOf(s.q) = Len(Bytes(s.q))
  BY <1>1, BytesType DEF SizeOf
<1>5. Len(s.q) \in Nat /\ Len(s.done) \in Nat /\ Len(Requests(s)) \in Nat
      /\ DOMAIN s.q = 1 .. Len(s.q) /\ DOMAIN s.done = 1 .. Len(s.done)
      /\ DOMAIN Requests(s) = 1 .. Len(Requests(s))
  BY <1>1, <1>2, LenProperties
<1>6. /\ (Requests(s) = <<>> <=> Len(Requests(s)) = 0)
      /\ (s.q = <<>> <=> Len(s.q) = 0)
      /\ (s.done = <<>> <=> Len(s.done) = 0)
  BY <1>1, <1>2, EmptySeq, SeqEqual
<1>7. /\ Total(s) \in Nat
      /\ (Total(s) > 0 <=> s.called > 0 \/ Len(Requests(s)) # 0)
      /\ (Len(Requests(s)) = 0 <=> Len(s.q) = 0 /\ Len(s.done) = 0)
  <2>1. PICK a, b, c, d : a = s.called /\ b = Len(s.done) /\ c = Len(s.q)
             /\ d = Len(Requests(s))
    OBVIOUS
  <2>2. a \in Nat /\ b \in Nat /\ c \in Nat /\ d = b + c /\ Total(s) = a + d
    BY <1>1, <1>2, <1>5, <2>1 DEF Total
  <2>3. a + d \in Nat /\ (a + d > 0 <=> a > 0 \/ d # 0) /\ (d = 0 <=> c = 0 /\ b = 0)
    BY ONLY <2>2
  <2> QED
    BY ONLY <2>1, <2>2, <2>3
<1>8. /\ (Total(s) > 0 <=> s.called > 0 \/ Requests(s) # <<>>)
      /\ (Requests(s) = <<>> <=> s.q = <<>> /\ s.done = <<>>)
  BY ONLY <1>6, <1>7
<1> QED
  BY ONLY <1>1, <1>2, <1>3, <1>4, <1>5, <1>7, <1>8

\* Another head in the place of the first of q, with d before it.
Replacing(S, d, q, r) ==
  /\ d \o (<<r>> \o Tail(q)) \in Seq(S)
    /\ Len(d \o (<<r>> \o Tail(q))) = Len(d) + Len(q)
    /\ d \o (<<r>> \o Tail(q)) = Append(d, r) \o Tail(q)
    /\ Len(d) + 1 \in 1 .. Len(d) + Len(q) /\ (d \o q)[Len(d) + 1] = Head(q)
    /\ \A i \in 1 .. Len(d) + Len(q) :
         (d \o (<<r>> \o Tail(q)))[i] = IF i = Len(d) + 1 THEN r ELSE (d \o q)[i]

\* Another element in the place of the first of the queue.
LEMMA Replaced ==
  ASSUME NEW S, NEW d \in Seq(S), NEW q \in Seq(S), q # <<>>, NEW r \in S
  PROVE  Replacing(S, d, q, r)
<1> DEFINE back == Tail(q)
           mid == <<r>> \o back
           all == d \o mid
<1>1. /\ back \in Seq(S) /\ Len(q) \in Nat \ {0} /\ Len(back) = Len(q) - 1 /\ Head(q) = q[1]
      /\ \A i \in 1 .. Len(q) - 1 : back[i] = q[i + 1]
      /\ Len(d) \in Nat
  BY HeadAndTail, LenProperties
<1>2. <<r>> \in Seq(S) /\ Len(<<r>>) = 1 /\ <<r>>[1] = r /\ Append(d, r) = d \o <<r>>
  BY AppendIsConcat
<1> HIDE DEF back
<1>3. all = Append(d, r) \o back
  BY SMTT(30), <1>1, <1>2, ConcatAssociative
<1>4. mid \in Seq(S) /\ Len(mid) = 1 + Len(back)
      /\ \A i \in 1 .. 1 + Len(back) : mid[i] = IF i <= 1 THEN <<r>>[i] ELSE back[i - 1]
  BY <1>1, <1>2, ConcatProperties
<1>5. Len(mid) = Len(q) /\ \A i \in 1 .. Len(q) : mid[i] = IF i = 1 THEN r ELSE q[i]
  <2>1. ASSUME NEW i \in 1 .. Len(q), i # 1 PROVE mid[i] = q[i]
    <3>1. i - 1 \in 1 .. Len(q) - 1 /\ (i - 1) + 1 = i /\ ~(i <= 1)
          /\ i \in 1 .. 1 + Len(back)
      BY <1>1, <2>1
    <3> QED
      BY <1>1, <1>4, <3>1
  <2>2. mid[1] = r /\ Len(mid) = Len(q)
    BY <1>1, <1>2, <1>4
  <2> QED
    BY <2>1, <2>2
<1> HIDE DEF mid
<1>6. all \in Seq(S) /\ Len(all) = Len(d) + Len(mid)
      /\ \A i \in 1 .. Len(d) + Len(mid) : all[i] = IF i <= Len(d) THEN d[i] ELSE mid[i - Len(d)]
  BY <1>4, ConcatProperties
<1>7. \A i \in 1 .. Len(d) + Len(q) : (d \o q)[i] = IF i <= Len(d) THEN d[i] ELSE q[i - Len(d)]
  BY ConcatProperties
<1> HIDE DEF all
<1>8. ASSUME NEW i \in 1 .. Len(d) + Len(q) PROVE all[i] = IF i = Len(d) + 1 THEN r ELSE (d \o q)[i]
  <2>1. CASE i <= Len(d)
    <3>1. i # Len(d) + 1 /\ i \in 1 .. Len(d) + Len(mid)
      BY <1>1, <1>5, <2>1
    <3>2. all[i] = d[i] /\ (d \o q)[i] = d[i]
      BY <1>6, <1>7, <2>1, <3>1
    <3> QED
      BY <3>1, <3>2
  <2>2. CASE ~(i <= Len(d))
    <3>1. i - Len(d) \in 1 .. Len(q) /\ (i = Len(d) + 1 <=> i - Len(d) = 1)
      BY <1>1, <2>2
    <3>2. all[i] = mid[i - Len(d)] /\ (d \o q)[i] = q[i - Len(d)]
      BY <1>5, <1>6, <1>7, <2>2
    <3> QED
      BY <1>5, <3>1, <3>2
  <2> QED
    BY <2>1, <2>2
<1>9. Len(d) + 1 \in 1 .. Len(d) + Len(q) /\ ~(Len(d) + 1 <= Len(d))
      /\ (Len(d) + 1) - Len(d) = 1
  BY <1>1
<1>10. (d \o q)[Len(d) + 1] = Head(q)
  BY <1>1, <1>7, <1>9
<1>11. Len(all) = Len(d) + Len(q)
  BY <1>5, <1>6
<1> QED
  BY <1>3, <1>6, <1>8, <1>9, <1>10, <1>11 DEF all, mid, back, Replacing

\* Another head with the same id in the place of the first of the queue.
LEMMA HeadChanged ==
  ASSUME NEW s, Sound(s), s.q # <<>>, NEW r \in Request(Byte), r.id = Head(s.q).id,
         NEW all, all = s.done \o (<<r>> \o Tail(s.q))
  PROVE  /\ all \in Seq(Request(Byte)) /\ Len(all) = Len(Requests(s))
         /\ all = Append(s.done, r) \o Tail(s.q)
         /\ \A i \in DOMAIN all : all[i].id = s.called + i
         /\ SizeOf(all) = SizeOf(s.done) + Len(r.rest) + SizeOf(Tail(s.q))
<1>1. /\ s.q \in Seq(Request(Byte)) /\ s.done \in Seq(Request(Byte))
      /\ Requests(s) = s.done \o s.q
      /\ Len(Requests(s)) = Len(s.done) + Len(s.q)
      /\ DOMAIN Requests(s) = 1 .. Len(s.done) + Len(s.q)
      /\ SizeOf(s.done) \in Nat
  BY StreamFacts DEF Sound, Requests
<1>2. /\ all \in Seq(Request(Byte)) /\ Len(all) = Len(s.done) + Len(s.q)
      /\ all = Append(s.done, r) \o Tail(s.q)
      /\ Len(s.done) + 1 \in 1 .. Len(s.done) + Len(s.q)
      /\ Requests(s)[Len(s.done) + 1] = Head(s.q)
      /\ \A i \in 1 .. Len(s.done) + Len(s.q) : all[i] = IF i = Len(s.done) + 1 THEN r ELSE Requests(s)[i]
  <2>1. PICK S, d, q : S = Request(Byte) /\ d = s.done /\ q = s.q
    OBVIOUS
  <2>2. d \in Seq(S) /\ q \in Seq(S) /\ q # <<>> /\ r \in S
    BY <1>1, <2>1
  <2>3. all = d \o (<<r>> \o Tail(q)) /\ Requests(s) = d \o q
    BY <1>1, <2>1
  <2>4. /\ all \in Seq(S) /\ Len(all) = Len(d) + Len(q) /\ all = Append(d, r) \o Tail(q)
        /\ Len(d) + 1 \in 1 .. Len(d) + Len(q) /\ (d \o q)[Len(d) + 1] = Head(q)
        /\ \A i \in 1 .. Len(d) + Len(q) : all[i] = IF i = Len(d) + 1 THEN r ELSE (d \o q)[i]
    <3>1. Replacing(S, d, q, r)
      BY ONLY <2>2, Replaced
    <3> QED
      BY ONLY <2>3, <3>1 DEF Replacing
  <2> QED
    BY ONLY <2>1, <2>3, <2>4
<1>3. DOMAIN all = 1 .. Len(s.done) + Len(s.q)
  BY <1>2, LenProperties
<1>4. \A i \in 1 .. Len(s.done) + Len(s.q) : Requests(s)[i].id = s.called + i
  BY <1>1 DEF Sound
<1>5. \A i \in DOMAIN all : all[i].id = s.called + i
  BY <1>2, <1>3, <1>4
<1>6. /\ Tail(s.q) \in Seq(Request(Byte)) /\ Append(s.done, r) \in Seq(Request(Byte))
      /\ SizeOf(Append(s.done, r)) = SizeOf(s.done) + Len(r.rest)
  BY <1>1, BytesAppend, AppendProperties, HeadAndTail
<1>7. SizeOf(Append(s.done, r) \o Tail(s.q)) = SizeOf(Append(s.done, r)) + SizeOf(Tail(s.q))
  BY <1>6, BytesConcat
<1>8. SizeOf(all) = SizeOf(s.done) + Len(r.rest) + SizeOf(Tail(s.q))
  BY <1>2, <1>6, <1>7
<1> QED
  BY <1>1, <1>2, <1>5, <1>8

\* write() was asked for bytes, the first of what is due, and returned n;
\* what is left is the end of it, all but these n unless an error dropped more.
Sent(due, bytes, n, left) ==
  \E k \in 0 .. Len(due) : /\ n <= k /\ (n >= 0 => k = n)
                          /\ SubSeq(bytes, 1, n) = SubSeq(due, 1, n)
                          /\ left = SubSeq(due, k + 1, Len(due))

\* One write(): an error ends the request at the head, and else what has
\* been taken is taken from it.
LEMMA TryWriteFacts ==
  ASSUME NEW s, Sound(s), s.q # <<>>, NEW n \in -1 .. Len(Head(s.q).rest)
  PROVE  LET t == TryWrite(s, n)
         IN  /\ Sound(t) /\ t.fd = s.fd /\ Total(t) = Total(s) /\ t.called = s.called
             /\ Requests(t) # <<>>
             /\ t.fed \/ (t.pollout /\ t.done = s.done)
             /\ s.fed => t.fed
             /\ n = Len(Head(s.q).rest) => t.size = s.size - n /\ t.pollout = s.pollout
             /\ Sent(Bytes(s.q), Head(s.q).rest, n, Bytes(t.q))
<1> DEFINE R == Request(Byte)
           h == Head(s.q)
           back == Tail(s.q)
           t == TryWrite(s, n)
<1>1. /\ s \in Stream(Byte) /\ s.q \in Seq(R) /\ s.done \in Seq(R) /\ Len(s.q) \in Nat
      /\ Len(s.done) \in Nat
      /\ s.size = SizeOf(s.done) + SizeOf(s.q) /\ SizeOf(s.done) \in Nat
      /\ SizeOf(s.q) \in Nat
      /\ DOMAIN s.q = 1 .. Len(s.q) /\ DOMAIN s.done = 1 .. Len(s.done)
      /\ s.size = SizeOf(Requests(s))
  BY StreamFacts DEF Sound
<1>2. s.q = <<h>> \o back /\ h \in R /\ back \in Seq(R) /\ Len(back) = Len(s.q) - 1
      /\ Len(s.q) # 0
      /\ h = s.q[1] /\ \A i \in 1 .. Len(s.q) - 1 : back[i] = s.q[i + 1]
  BY <1>1, HeadAndTail
<1>3. h.rest \in Seq(Byte) /\ h.id \in Nat /\ Len(h.rest) \in Nat /\ ~h.err /\ h.rest # <<>>
  <2>1. 1 \in DOMAIN s.q
    BY <1>1, <1>2
  <2> QED
    BY <1>2, <2>1, LenProperties DEF Sound, Request
<1>4. Bytes(s.q) = h.rest \o Bytes(back) /\ SizeOf(s.q) = Len(h.rest) + SizeOf(back)
      /\ Bytes(back) \in Seq(Byte) /\ SizeOf(back) \in Nat /\ Len(Bytes(s.q)) = SizeOf(s.q)
  BY <1>1, <1>2, BytesHead, BytesType DEF SizeOf
<1>5. Len(h.rest) # 0 /\ n \in Int /\ n \in -1 .. Len(h.rest)
      /\ h \in [id : Nat, rest : Seq(Byte), err : BOOLEAN]
  BY <1>2, <1>3, EmptySeq, SeqEqual DEF Request
<1>6. \A i \in DOMAIN back : ~back[i].err /\ back[i].rest # <<>>
  <2>1. DOMAIN back = 1 .. Len(s.q) - 1
    BY <1>2, LenProperties
  <2>2. \A i \in 1 .. Len(s.q) - 1 : i + 1 \in DOMAIN s.q
    BY <1>1
  <2> QED
    BY <1>2, <2>1, <2>2 DEF Sound
<1> HIDE DEF back, h
\* The head, now r, is in the completed queue.
<1>7. ASSUME NEW r \in R, r.id = h.id, r.err \/ r.rest = <<>>, NEW u \in Stream(Byte),
             u.q = back, u.done = Append(s.done, r), u.called = s.called,
             u.size = s.size - Len(h.rest) + Len(r.rest)
      PROVE  /\ Sound(u) /\ Len(Requests(u)) = Len(Requests(s))
             /\ Bytes(u.q) = SubSeq(Bytes(s.q), Len(h.rest) + 1, SizeOf(s.q))
  <2>0. s.done \o (<<r>> \o back) = Requests(u)
    <3>1. r \in Request(Byte) /\ r.id = Head(s.q).id
      BY <1>7 DEF h
    <3>2. s.done \o (<<r>> \o back) = Append(s.done, r) \o back
      BY <3>1, HeadChanged DEF back
    <3> QED
      BY <1>7, <3>2 DEF Requests
  <2>1. /\ Requests(u) = Append(s.done, r) \o back
        /\ Len(Requests(u)) = Len(Requests(s))
        /\ \A i \in DOMAIN Requests(u) : Requests(u)[i].id = u.called + i
        /\ SizeOf(Requests(u)) = SizeOf(s.done) + Len(r.rest) + SizeOf(back)
    <3>1. r \in Request(Byte) /\ r.id = Head(s.q).id
      BY <1>7 DEF h
    <3>2. PICK all : all = Requests(u)
      OBVIOUS
    <3>3. all = s.done \o (<<r>> \o Tail(s.q))
      BY <2>0, <3>2 DEF back
    <3>4. /\ Len(all) = Len(Requests(s)) /\ all = Append(s.done, r) \o Tail(s.q)
          /\ \A i \in DOMAIN all : all[i].id = s.called + i
          /\ SizeOf(all) = SizeOf(s.done) + Len(r.rest) + SizeOf(Tail(s.q))
      BY ONLY <3>1, <3>3, HeadChanged, Sound(s), s.q # <<>>
    <3> QED
      BY ONLY <1>7, <3>2, <3>4 DEF back
  <2>2. u.size = SizeOf(Requests(u))
    <3>1. Len(r.rest) \in Nat
      BY <1>7, LenProperties DEF Request
    <3>2. s.size = SizeOf(s.done) + Len(h.rest) + SizeOf(back)
      BY <1>1, <1>3, <1>4
    <3>3. PICK a, b, c, d : a = SizeOf(s.done) /\ b = Len(h.rest) /\ c = SizeOf(back)
               /\ d = Len(r.rest)
      OBVIOUS
    <3>4. a \in Nat /\ b \in Nat /\ c \in Nat /\ d \in Nat
      BY <1>1, <1>3, <1>4, <3>1, <3>3
    <3>5. ((a + b + c) - b) + d = a + d + c
      BY ONLY <3>4
    <3>6. u.size = ((a + b + c) - b) + d
      BY <1>7, <3>2, <3>3
    <3> QED
      BY <2>1, <3>3, <3>5, <3>6
  <2>3. \A i \in DOMAIN u.done : u.done[i].err \/ u.done[i].rest = <<>>
    <3>1. /\ Len(u.done) = Len(s.done) + 1 /\ DOMAIN u.done = 1 .. Len(s.done) + 1
          /\ u.done[Len(s.done) + 1] = r
          /\ \A i \in 1 .. Len(s.done) : u.done[i] = s.done[i]
      BY <1>1, <1>7, AppendProperties, LenProperties
    <3> QED
      BY <1>1, <1>7, <3>1 DEF Sound
  <2>4. Bytes(back) = SubSeq(Bytes(s.q), Len(h.rest) + 1, SizeOf(s.q))
    <3>1. Len(h.rest) \in 0 .. Len(h.rest)
          /\ SubSeq(h.rest, Len(h.rest) + 1, Len(h.rest)) = <<>>
      BY <1>3, SubSeqEmpty
    <3>2. SubSeq(h.rest \o Bytes(back), Len(h.rest) + 1, Len(h.rest \o Bytes(back))) = <<>> \o Bytes(back)
      <4>1. h.rest \in Seq(Byte) /\ Bytes(back) \in Seq(Byte)
            /\ Len(h.rest) \in 0 .. Len(h.rest)
        BY <1>3, <1>4, <3>1
      <4>2. SubSeq(h.rest \o Bytes(back), Len(h.rest) + 1, Len(h.rest \o Bytes(back)))
              = SubSeq(h.rest, Len(h.rest) + 1, Len(h.rest)) \o Bytes(back)
        BY <4>1, CutFirst
      <4> QED
        BY <3>1, <4>2
    <3>3. <<>> \o Bytes(back) = Bytes(back)
      BY <1>4, ConcatEmptySeq
    <3> QED
      BY <1>4, <3>2, <3>3
  <2> QED
    BY <1>6, <1>7, <2>1, <2>2, <2>3, <2>4 DEF Sound
<1>8. CASE n < 0
  <2> DEFINE r == [h EXCEPT !.err = TRUE]
  <2>1. n = -1 /\ r \in R /\ r.id = h.id /\ r.err /\ r.rest = h.rest
    <3>1. n = -1
      BY <1>5, <1>8
    <3>2. r \in [id : Nat, rest : Seq(Byte), err : BOOLEAN] /\ r.id = h.id /\ r.err
          /\ r.rest = h.rest
      BY <1>5
    <3> QED
      BY <3>1, <3>2 DEF Request
  <2> HIDE DEF r
  <2>2. t = [Finished(s, r) EXCEPT !.pollout = FALSE]
    BY <1>8 DEF TryWrite, h, r
  <2>3. /\ t \in Stream(Byte) /\ t.q = back /\ t.done = Append(s.done, r)
        /\ t.called = s.called
        /\ t.size = s.size /\ t.fed /\ t.fd = s.fd
    <3>1. Append(s.done, r) \in Seq(R)
      BY <1>1, <2>1, AppendProperties
    <3> QED
      BY <1>1, <1>2, <2>2, <3>1 DEF Finished, Stream, back
  <2>4. t.size = s.size - Len(h.rest) + Len(r.rest)
    BY <1>1, <1>3, <2>1, <2>3
  <2> HIDE DEF t
  <2>5. /\ Sound(t) /\ Len(Requests(t)) = Len(Requests(s))
        /\ Bytes(t.q) = SubSeq(Bytes(s.q), Len(h.rest) + 1, SizeOf(s.q))
    BY <1>7, <2>1, <2>3, <2>4
  <2>6. SubSeq(h.rest, 1, n) = <<>> /\ SubSeq(Bytes(s.q), 1, n) = <<>>
    BY <2>1, SubSeqEmpty
  <2>7. Requests(t) # <<>> /\ Total(t) = Total(s)
    <3>1. t.done # <<>>
      BY SMTT(30), <1>1, <2>1, <2>3, AppendProperties
    <3> QED
      BY <2>3, <2>5, <3>1, StreamFacts DEF Total
  <2>8. Len(h.rest) \in 0 .. SizeOf(s.q) /\ n <= Len(h.rest) /\ ~(n >= 0) /\ n # Len(h.rest)
    BY <1>3, <1>4, <2>1
  <2> QED
    <3>1. Sent(Bytes(s.q), h.rest, n, Bytes(t.q))
      BY <1>4, <2>3, <2>5, <2>6, <2>7, <2>8 DEF Sent
    <3> QED
      BY <2>3, <2>5, <2>6, <2>7, <2>8, <3>1 DEF t, h
<1>9. CASE n = Len(h.rest)
  <2> DEFINE r == Left(h, n)
  <2>1. r \in R /\ r.id = h.id /\ r.rest = <<>> /\ Len(r.rest) = 0
    <3>1. SubSeq(h.rest, n + 1, Len(h.rest)) = <<>> /\ <<>> \in Seq(Byte) /\ Len(<<>>) = 0
      BY <1>3, <1>9, SubSeqEmpty, EmptySeq
    <3>2. r \in [id : Nat, rest : Seq(Byte), err : BOOLEAN] /\ r.id = h.id
          /\ r.rest = SubSeq(h.rest, n + 1, Len(h.rest))
      BY <1>5, <3>1 DEF Left
    <3> QED
      BY <3>1, <3>2 DEF Request
  <2> HIDE DEF r
  <2>2. t = [Finished(s, r) EXCEPT !.size = @ - n]
    BY <1>3, <1>9 DEF TryWrite, h, r
  <2>3. /\ t \in Stream(Byte) /\ t.q = back /\ t.done = Append(s.done, r)
        /\ t.called = s.called
        /\ t.size = s.size - n /\ t.fed /\ t.fd = s.fd /\ t.pollout = s.pollout
    <3>1. Append(s.done, r) \in Seq(R) /\ s.size - n \in Int
      BY <1>1, <1>5, <2>1, AppendProperties
    <3> QED
      BY <1>1, <1>2, <2>2, <3>1 DEF Finished, Stream, back
  <2>4. t.size = s.size - Len(h.rest) + Len(r.rest)
    BY <1>1, <1>3, <1>9, <2>1, <2>3
  <2> HIDE DEF t
  <2>5. /\ Sound(t) /\ Len(Requests(t)) = Len(Requests(s))
        /\ Bytes(t.q) = SubSeq(Bytes(s.q), Len(h.rest) + 1, SizeOf(s.q))
    BY <1>7, <2>1, <2>3, <2>4
  <2>6. SubSeq(h.rest, 1, n) = SubSeq(Bytes(s.q), 1, n)
    BY <1>3, <1>4, <1>9, CutFirst
  <2>7. Requests(t) # <<>> /\ Total(t) = Total(s)
    <3>1. t.done # <<>>
      BY <1>1, <2>1, <2>3, AppendProperties
    <3> QED
      BY <2>3, <2>5, <3>1, StreamFacts DEF Total
  <2>8. n \in 0 .. SizeOf(s.q) /\ n <= n
    BY <1>3, <1>4, <1>9
  <2> QED
    <3>1. Sent(Bytes(s.q), h.rest, n, Bytes(t.q))
      BY <1>4, <1>9, <2>3, <2>5, <2>6, <2>7, <2>8 DEF Sent
    <3> QED
      BY <1>9, <2>3, <2>5, <2>6, <2>7, <2>8, <3>1 DEF t, h
<1>10. CASE ~(n < 0) /\ n # Len(h.rest)
  <2> DEFINE r == Left(h, n)
             all == s.done \o (<<r>> \o back)
  <2>1. n \in 0 .. Len(h.rest) /\ n < Len(h.rest) /\ n \in Nat
    BY <1>3, <1>10 DEF h
  <2>2. r \in R /\ r.id = h.id /\ ~r.err /\ r.rest = SubSeq(h.rest, n + 1, Len(h.rest))
        /\ Len(r.rest) = Len(h.rest) - n /\ r.rest # <<>>
    <3>1. SubSeq(h.rest, n + 1, Len(h.rest)) \in Seq(Byte)
          /\ Len(SubSeq(h.rest, n + 1, Len(h.rest))) = Len(h.rest) - n
      BY <1>3, <2>1, SubSeqFacts
    <3>2. r \in [id : Nat, rest : Seq(Byte), err : BOOLEAN] /\ r.id = h.id /\ r.err = h.err
          /\ r.rest = SubSeq(h.rest, n + 1, Len(h.rest))
      BY <1>5, <3>1 DEF Left
    <3>3. Len(r.rest) = Len(h.rest) - n /\ Len(r.rest) # 0
      BY <1>3, <2>1, <3>1, <3>2
    <3>4. r.rest # <<>>
      BY <3>3, EmptySeq
    <3> QED
      BY <1>3, <3>2, <3>3, <3>4 DEF Request
  <2> HIDE DEF r
  <2>3. t = [s EXCEPT !.q = <<r>> \o back, !.size = @ - n, !.pollout = TRUE]
    BY <1>10 DEF TryWrite, h, r, back
  <2>4. /\ all \in Seq(R) /\ Len(all) = Len(Requests(s))
        /\ \A i \in DOMAIN all : all[i].id = s.called + i
        /\ SizeOf(all) = SizeOf(s.done) + Len(r.rest) + SizeOf(back)
    BY <2>2, HeadChanged DEF h, back
  <2>5. <<r>> \o back \in Seq(R) /\ Len(<<r>> \o back) = Len(s.q) /\ (<<r>> \o back)[1] = r
        /\ (\A i \in 2 .. Len(s.q) : (<<r>> \o back)[i] = back[i - 1])
        /\ Bytes(<<r>> \o back) = r.rest \o Bytes(back)
    <3>1. <<r>> \in Seq(R) /\ Len(<<r>>) = 1 /\ <<r>>[1] = r
      BY <2>2
    <3>2. <<r>> \o back \in Seq(R) /\ Len(<<r>> \o back) = 1 + Len(back)
          /\ \A i \in 1 .. 1 + Len(back) : (<<r>> \o back)[i] = IF i <= 1 THEN <<r>>[i] ELSE back[i - 1]
      BY <1>2, <3>1, ConcatProperties
    <3>3. Bytes(<<r>> \o back) = Bytes(<<r>>) \o Bytes(back) /\ Bytes(<<r>>) = r.rest
      BY <1>2, <2>2, <3>1, BytesOne, BytesConcat
    <3>4. \A i \in 2 .. Len(s.q) : i \in 1 .. 1 + Len(back) /\ ~(i <= 1)
      BY <1>1, <1>2
    <3>5. 1 \in 1 .. 1 + Len(back) /\ 1 + Len(back) = Len(s.q)
      BY <1>1, <1>2
    <3>6. (<<r>> \o back)[1] = r
      BY <3>1, <3>2, <3>5
    <3>7. \A i \in 2 .. Len(s.q) : (<<r>> \o back)[i] = back[i - 1]
      BY <3>2, <3>4
    <3> QED
      BY <3>2, <3>3, <3>5, <3>6, <3>7
  <2>6. /\ t \in Stream(Byte) /\ t.q = <<r>> \o back /\ t.done = s.done
        /\ t.called = s.called
        /\ t.size = s.size - n /\ t.pollout /\ t.fd = s.fd /\ t.fed = s.fed
    <3>1. s.size - n \in Int
      BY <1>1, <1>5
    <3> QED
      BY <1>1, <2>3, <2>5, <3>1 DEF Stream
  <2>7. Requests(t) = all
    BY <2>6 DEF Requests
  <2> HIDE DEF t, all
  <2>8. t.size = SizeOf(Requests(t))
    <3>1. s.size = SizeOf(s.done) + Len(h.rest) + SizeOf(back)
      BY <1>1, <1>3, <1>4
    <3>2. SizeOf(Requests(t)) = SizeOf(s.done) + (Len(h.rest) - n) + SizeOf(back)
          /\ t.size = s.size - n
      BY <2>2, <2>4, <2>6, <2>7
    <3> QED
      BY <1>1, <1>3, <1>4, <2>1, <3>1, <3>2
  <2>9. \A i \in DOMAIN t.q : ~t.q[i].err /\ t.q[i].rest # <<>>
    <3>1. DOMAIN t.q = 1 .. Len(s.q) /\ DOMAIN back = 1 .. Len(s.q) - 1
      BY <1>2, <2>5, <2>6, LenProperties
    <3>2. \A i \in 1 .. Len(s.q) : i # 1 => i \in 2 .. Len(s.q) /\ i - 1 \in DOMAIN back
      BY <1>1, <3>1
    <3> SUFFICES ASSUME NEW i \in 1 .. Len(s.q) PROVE ~t.q[i].err /\ t.q[i].rest # <<>>
      BY <3>1
    <3>3. CASE i = 1
      BY <2>2, <2>5, <2>6, <3>3
    <3>4. CASE i # 1
      <4>1. t.q[i] = back[i - 1]
        BY <2>5, <2>6, <3>2, <3>4
      <4> QED
        BY <1>6, <3>2, <3>4, <4>1
    <3> QED
      BY <3>3, <3>4
  <2>10. Sound(t)
    BY <2>4, <2>6, <2>7, <2>8, <2>9 DEF Sound
  <2>11. Bytes(t.q) = SubSeq(Bytes(s.q), n + 1, SizeOf(s.q))
         /\ SubSeq(h.rest, 1, n) = SubSeq(Bytes(s.q), 1, n)
    <3>1. SubSeq(h.rest \o Bytes(back), n + 1, Len(h.rest \o Bytes(back))) = r.rest \o Bytes(back)
          /\ SubSeq(h.rest \o Bytes(back), 1, n) = SubSeq(h.rest, 1, n)
      <4>1. h.rest \in Seq(Byte) /\ Bytes(back) \in Seq(Byte) /\ n \in 0 .. Len(h.rest)
        BY <1>3, <1>4, <2>1
      <4>2. r.rest = SubSeq(h.rest, n + 1, Len(h.rest))
        BY <2>2
      <4>3. SubSeq(h.rest \o Bytes(back), n + 1, Len(h.rest \o Bytes(back)))
              = SubSeq(h.rest, n + 1, Len(h.rest)) \o Bytes(back)
            /\ SubSeq(h.rest \o Bytes(back), 1, n) = SubSeq(h.rest, 1, n)
        BY <4>1, CutFirst
      <4> QED
        BY <4>2, <4>3
    <3> QED
      BY <1>4, <2>5, <2>6, <3>1
  <2>12. Requests(t) # <<>> /\ Total(t) = Total(s)
    <3>1. t.q # <<>>
      BY <1>2, <2>5, <2>6, EmptySeq
    <3> QED
      BY <2>4, <2>6, <2>7, <3>1, StreamFacts DEF Total
  <2>13. n \in 0 .. SizeOf(s.q) /\ n <= n
    BY <1>3, <1>4, <2>1
  <2> QED
    <3>1. Sent(Bytes(s.q), h.rest, n, Bytes(t.q))
      BY <1>4, <1>10, <2>6, <2>10, <2>11, <2>12, <2>13 DEF Sent
    <3> QED
      BY <1>10, <2>6, <2>10, <2>11, <2>12, <2>13, <3>1 DEF t, h
<1> QED
  BY <1>8, <1>9, <1>10

\* A stream just opened is sound and has been given nothing.
LEMMA NewFacts ==
  ASSUME NEW open \in BOOLEAN
  PROVE  LET s == NewStream(open)
         IN  /\ Sound(s) /\ Total(s) = 0 /\ Requests(s) = <<>> /\ s.q = <<>> /\ s.done = <<>>
             /\ s.fd = open /\ s.size = 0 /\ ~s.pollout /\ ~s.fed /\ s.called = 0
<1> DEFINE s == NewStream(open)
<1>1. <<>> \in Seq(Request(Byte)) /\ Len(<<>>) = 0 /\ DOMAIN <<>> = {}
      /\ <<>> \o <<>> = <<>>
  BY EmptySeq, ConcatEmptySeq
<1>2. /\ s.q = <<>> /\ s.done = <<>> /\ s.size = 0 /\ s.called = 0 /\ s.fd = open
      /\ ~s.pollout /\ ~s.fed
      /\ s \in Stream(Byte)
  BY <1>1 DEF NewStream, Stream
<1>3. Requests(s) = <<>>
  BY <1>1, <1>2 DEF Requests
<1> HIDE DEF s
<1>4. Sound(s) /\ Total(s) = 0
  BY <1>1, <1>2, <1>3, BytesEmpty DEF Sound, Total
<1> QED
  BY <1>2, <1>3, <1>4 DEF s

\* Closing a stream leaves its requests where they are.
LEMMA ClosedFacts ==
  ASSUME NEW s, Sound(s)
  PROVE  LET t == Closed(s)
         IN  /\ Sound(t) /\ Total(t) = Total(s) /\ Requests(t) = Requests(s) /\ t.q = s.q /\ t.done = s.done
             /\ ~t.fd /\ ~t.pollout /\ ~t.fed /\ t.size = s.size /\ t.called = s.called
<1> DEFINE t == Closed(s)
<1>1. /\ t.q = s.q /\ t.done = s.done /\ t.size = s.size /\ t.called = s.called /\ ~t.fd
         /\ ~t.pollout /\ ~t.fed
      /\ t \in Stream(Byte)
  BY DEF Closed, Sound, Stream
<1> HIDE DEF t
<1>2. Requests(t) = Requests(s)
  BY <1>1 DEF Requests
<1> QED
  BY <1>1, <1>2 DEF Sound, Total, t

\* So does taking its watcher out of the pending queue.
LEMMA UnfedFacts ==
  ASSUME NEW s, Sound(s), NEW t, t = [s EXCEPT !.fed = FALSE]
  PROVE  /\ Sound(t) /\ Total(t) = Total(s) /\ Requests(t) = Requests(s) /\ t.q = s.q
         /\ t.done = s.done
         /\ t.fd = s.fd /\ t.pollout = s.pollout /\ ~t.fed /\ t.size = s.size
            /\ t.called = s.called
<1>1. /\ t.q = s.q /\ t.done = s.done /\ t.size = s.size /\ t.called = s.called
      /\ t.fd = s.fd /\ t.pollout = s.pollout /\ ~t.fed /\ t \in Stream(Byte)
  BY DEF Sound, Stream
<1>2. Requests(t) = Requests(s)
  BY <1>1 DEF Requests
<1> QED
  BY <1>1, <1>2 DEF Sound, Total

\* The callbacks take the completed requests, and their sizes, away.
LEMMA CallbacksFacts ==
  ASSUME NEW s, Sound(s)
  PROVE  LET t == Callbacks(s)
         IN  /\ Sound(t) /\ Total(t) = Total(s) /\ t.q = s.q /\ t.done = <<>> /\ Requests(t) = s.q
             /\ t.fd = s.fd /\ t.pollout = s.pollout /\ t.fed = s.fed
             /\ t.size = SizeOf(s.q)
<1> DEFINE t == Callbacks(s)
<1>1. /\ s \in Stream(Byte) /\ s.q \in Seq(Request(Byte)) /\ s.done \in Seq(Request(Byte))
      /\ Len(s.q) \in Nat /\ Len(s.done) \in Nat /\ s.called \in Nat
      /\ SizeOf(s.done) \in Nat /\ SizeOf(s.q) \in Nat
      /\ s.size = SizeOf(s.done) + SizeOf(s.q)
      /\ DOMAIN s.q = 1 .. Len(s.q) /\ DOMAIN Requests(s) = 1 .. Len(s.done) + Len(s.q)
      /\ Len(Requests(s)) = Len(s.done) + Len(s.q)
  BY StreamFacts DEF Sound
<1>2. <<>> \in Seq(Request(Byte)) /\ DOMAIN <<>> = {}
  BY EmptySeq
<1>3. /\ t.q = s.q /\ t.done = <<>> /\ t.called = s.called + Len(s.done)
      /\ t.size = s.size - SizeOf(s.done)
      /\ t.fd = s.fd /\ t.pollout = s.pollout /\ t.fed = s.fed
      /\ t \in Stream(Byte)
  <2>1. s.called + Len(s.done) \in Nat /\ s.size - SizeOf(s.done) \in Int
    BY <1>1
  <2> QED
    BY <1>1, <1>2, <2>1 DEF Callbacks, Stream
<1> HIDE DEF t
<1>4. Requests(t) = s.q
  BY <1>1, <1>3, ConcatEmptySeq DEF Requests
<1>5. t.size = SizeOf(s.q)
  BY ONLY <1>1, <1>3
<1>6. ASSUME NEW i \in 1 .. Len(s.q) PROVE s.q[i].id = t.called + i
  <2>1. Len(s.done) + i \in 1 .. Len(s.done) + Len(s.q)
        /\ ~(Len(s.done) + i <= Len(s.done)) /\ (Len(s.done) + i) - Len(s.done) = i
    <3>1. PICK a, b : a = Len(s.done) /\ b = Len(s.q) /\ a \in Nat /\ b \in Nat
               /\ i \in 1 .. b
      BY <1>1
    <3>0. a \in Nat /\ b \in Nat /\ i \in 1 .. b
      BY ONLY <3>1
    <3>2. a + i \in 1 .. a + b /\ ~(a + i <= a) /\ (a + i) - a = i
      BY ONLY <3>0
    <3> QED
      BY ONLY <3>1, <3>2
  <2>2. Requests(s)[Len(s.done) + i] = s.q[i]
    BY <1>1, <2>1, ConcatProperties DEF Requests
  <2>3. Requests(s)[Len(s.done) + i].id = s.called + (Len(s.done) + i)
    BY <1>1, <2>1 DEF Sound
  <2>4. s.called + (Len(s.done) + i) = (s.called + Len(s.done)) + i
    BY <1>1
  <2> QED
    BY <1>3, <2>2, <2>3, <2>4
<1>7. Sound(t)
  BY <1>1, <1>2, <1>3, <1>4, <1>5, <1>6 DEF Sound
<1>8. Total(t) = Total(s)
  <2>1. s.called + (Len(s.done) + Len(s.q)) = (s.called + Len(s.done)) + Len(s.q)
    <3>1. PICK a, b, c : a = Len(s.done) /\ b = Len(s.q) /\ c = s.called /\ a \in Nat
               /\ b \in Nat /\ c \in Nat
      BY <1>1
    <3>0. a \in Nat /\ b \in Nat /\ c \in Nat
      BY ONLY <3>1
    <3>2. c + (a + b) = (c + a) + b
      BY ONLY <3>0
    <3> QED
      BY ONLY <3>1, <3>2
  <2> QED
    BY <1>1, <1>3, <1>4, <2>1 DEF Total
<1> QED
  BY <1>3, <1>4, <1>5, <1>7, <1>8 DEF t

\* uv__stream_io on a stream: one write(), and every request that it or an
\* earlier one completed is called back.
LEMMA FlushedFacts ==
  ASSUME NEW s, Sound(s), NEW bytes, bytes = IF s.q # <<>> THEN Head(s.q).rest ELSE <<>>,
         NEW n \in -1 .. Len(bytes), s.q = <<>> => n = 0,
         NEW t, t = Flushed(s, n)
  PROVE  /\ Sound(t) /\ t.fd = s.fd /\ Total(t) = Total(s)
         /\ t.done = <<>> /\ (Requests(t) # <<>> => t.fed \/ t.pollout)
         /\ (s.fed => t.fed)
         /\ (s.size = 0 => t.size = 0 /\ ~t.pollout)
         /\ Sent(Bytes(s.q), bytes, n, Bytes(t.q))
<1>1. /\ s \in Stream(Byte) /\ s.q \in Seq(Request(Byte)) /\ s.done \in Seq(Request(Byte))
      /\ SizeOf(s.done) \in Nat /\ SizeOf(s.q) \in Nat
      /\ s.size = SizeOf(s.done) + SizeOf(s.q)
  BY StreamFacts DEF Sound
<1>2. PICK u : u = TryWrite(s, n)
  OBVIOUS
<1>3. /\ Sound(u) /\ u.fd = s.fd /\ Total(u) = Total(s)
      /\ (u.q # <<>> => u.fed \/ u.pollout)
      /\ (s.fed => u.fed) /\ (s.q = <<>> => u.q = <<>>)
      /\ Sent(Bytes(s.q), bytes, n, Bytes(u.q))
  <2>1. CASE s.q # <<>>
    <3>1. bytes = Head(s.q).rest
      BY <2>1
    <3>2. n \in -1 .. Len(Head(s.q).rest)
      BY <3>1
    <3>3. /\ Sound(u) /\ u.fd = s.fd /\ Total(u) = Total(s)
          /\ u.fed \/ (u.pollout /\ u.done = s.done)
          /\ (s.fed => u.fed)
          /\ Sent(Bytes(s.q), Head(s.q).rest, n, Bytes(u.q))
      BY ONLY Sound(s), <1>2, <2>1, <3>2, TryWriteFacts
    <3> QED
      BY ONLY <2>1, <3>1, <3>3
  <2>2. CASE s.q = <<>>
    <3>1. u = s /\ n = 0 /\ bytes = <<>>
      BY <1>2, <2>2 DEF TryWrite
    <3>2. Bytes(s.q) = <<>> /\ Len(<<>>) = 0
      BY <2>2, BytesEmpty, EmptySeq
    <3>3. 0 \in 0 .. 0 /\ SubSeq(<<>>, 0 + 1, 0) = <<>>
      BY SubSeqEmpty
    <3>4. Sent(<<>>, <<>>, 0, <<>>)
      BY <3>2, <3>3 DEF Sent
    <3> QED
      BY <2>2, <3>1, <3>2, <3>4
  <2> QED
    BY <2>1, <2>2
<1>4. PICK v : v = Callbacks(u)
  OBVIOUS
<1>5. /\ Sound(v) /\ Total(v) = Total(u) /\ v.q = u.q /\ v.done = <<>> /\ Requests(v) = u.q
      /\ v.fd = u.fd /\ v.pollout = u.pollout /\ v.fed = u.fed /\ v.size = SizeOf(u.q)
  BY ONLY <1>3, <1>4, CallbacksFacts
<1>6. t = IF v.q = <<>> THEN [v EXCEPT !.pollout = FALSE] ELSE v
  <2>1. v = Callbacks(TryWrite(s, n))
    BY ONLY <1>2, <1>4
  <2> HIDE DEF Callbacks, TryWrite
  <2> QED
    BY ONLY <2>1, t = Flushed(s, n) DEF Flushed
<1>7. /\ t.q = v.q /\ t.done = v.done /\ t.called = v.called /\ t.size = v.size
      /\ t.fd = v.fd /\ t.fed = v.fed
      /\ t.pollout = (v.q # <<>> /\ v.pollout) /\ t \in Stream(Byte)
  BY <1>5, <1>6 DEF Sound, Stream
<1>8. Requests(t) = Requests(v)
  BY <1>7 DEF Requests
<1>9. Sound(t) /\ Total(t) = Total(v)
  BY <1>5, <1>7, <1>8 DEF Sound, Total
<1>10. ASSUME s.size = 0 PROVE t.size = 0 /\ ~t.pollout
  <2>1. SizeOf(s.q) = 0
    BY <1>1, <1>10
  <2>2. s.q = <<>>
    BY <1>1, <2>1, NothingHeld DEF Sound
  <2>3. v.q = <<>> /\ v.size = 0
    BY <1>3, <1>5, <2>2, BytesEmpty
  <2> QED
    BY <1>7, <2>3
<1>11. Requests(t) # <<>> => t.fed \/ t.pollout
  BY ONLY <1>3, <1>5, <1>7, <1>8
<1> QED
  BY ONLY <1>3, <1>5, <1>7, <1>9, <1>10, <1>11

\* uv_write2 on a stream that is open: a new request at the end of the queue,
\* and a write() at once when nothing is counted as unwritten.
LEMMA UvWriteFacts ==
  ASSUME NEW s, Sound(s), s.fd,
         NEW r \in Request(Byte), r.id = Total(s) + 1, ~r.err, r.rest # <<>>,
         NEW n \in -1 .. Len(r.rest), NEW m, m = IF WritesNow(s) THEN n ELSE 0,
         NEW t, t = UvWrite(s, r, n)
  PROVE  /\ Sound(t) /\ t.fd /\ Total(t) = Total(s) + 1 /\ t.called = s.called
         /\ Requests(t) # <<>>
         /\ t.fed \/ (t.pollout /\ t.done = s.done)
         /\ (s.fed => t.fed)
         /\ (WritesNow(s) /\ n = Len(r.rest) => t.size = 0 /\ t.pollout = s.pollout)
         /\ Sent(Bytes(s.q) \o r.rest, r.rest, m, Bytes(t.q))
<1> DEFINE R == Request(Byte)
           due == Bytes(s.q) \o r.rest
           len == Len(r.rest)
<1>1. /\ s \in Stream(Byte) /\ s.q \in Seq(R) /\ s.done \in Seq(R) /\ Requests(s) \in Seq(R)
      /\ SizeOf(s.done) \in Nat /\ SizeOf(s.q) \in Nat
      /\ s.size = SizeOf(s.done) + SizeOf(s.q)
      /\ Len(s.done) \in Nat /\ Len(s.q) \in Nat /\ s.called \in Nat
      /\ Total(s) = s.called + Len(Requests(s)) /\ Len(Requests(s)) \in Nat
      /\ DOMAIN s.q = 1 .. Len(s.q) /\ DOMAIN Requests(s) = 1 .. Len(Requests(s))
      /\ s.size = SizeOf(Requests(s)) /\ Bytes(s.q) \in Seq(Byte)
  BY StreamFacts, LenProperties DEF Sound, Total
<1>2. r.rest \in Seq(Byte) /\ len \in Nat /\ len # 0 /\ due \in Seq(Byte)
  <2>1. r.rest \in Seq(Byte)
    BY DEF Request
  <2> QED
    BY <1>1, <2>1, LenProperties, EmptySeq, SeqEqual, ConcatProperties
<1>3. PICK u : u = [s EXCEPT !.q = Append(@, r), !.size = @ + len]
  OBVIOUS
<1>4. /\ u.q = Append(s.q, r) /\ u.done = s.done /\ u.called = s.called
      /\ u.size = s.size + len
      /\ u.fd = s.fd /\ u.fed = s.fed /\ u.pollout = s.pollout /\ u \in Stream(Byte)
  <2>1. Append(s.q, r) \in Seq(R) /\ s.size + len \in Int
    BY <1>1, <1>2, AppendProperties
  <2> QED
    BY <1>1, <1>3, <2>1 DEF Stream
<1>5. Requests(u) = Append(Requests(s), r)
  <2>1. PICK S, p, q : S = R /\ p = s.done /\ q = s.q
    OBVIOUS
  <2>2. p \in Seq(S) /\ q \in Seq(S) /\ r \in S
    BY <1>1, <2>1
  <2>3. <<r>> \in Seq(S) /\ p \o q \in Seq(S) /\ Append(q, r) = q \o <<r>>
        /\ Append(p \o q, r) = (p \o q) \o <<r>>
    BY ONLY <2>2, AppendIsConcat, ConcatProperties
  <2>4. p \o (q \o <<r>>) = (p \o q) \o <<r>>
    BY ONLY <2>2, <2>3, ConcatAssociative
  <2> QED
    BY ONLY <1>4, <2>1, <2>3, <2>4 DEF Requests
<1>6. Sound(u) /\ Total(u) = Total(s) + 1 /\ Bytes(u.q) = due /\ u.q # <<>>
  <2>1. u.size = SizeOf(Requests(u)) /\ Bytes(u.q) = due
    BY <1>1, <1>4, <1>5, BytesAppend
  <2>2. /\ Len(u.q) = Len(s.q) + 1 /\ DOMAIN u.q = 1 .. Len(s.q) + 1
        /\ u.q[Len(s.q) + 1] = r /\ \A i \in 1 .. Len(s.q) : u.q[i] = s.q[i]
    BY <1>1, <1>4, AppendProperties, LenProperties
  <2>3. \A i \in DOMAIN u.q : ~u.q[i].err /\ u.q[i].rest # <<>>
    <3>0. Len(s.q) \in Nat
      BY <1>1
    <3>1. \A i \in 1 .. Len(s.q) + 1 : i \in 1 .. Len(s.q) \/ i = Len(s.q) + 1
      BY ONLY <3>0
    <3> QED
      BY <1>1, <2>2, <3>1 DEF Sound
  <2>4. /\ Len(Requests(u)) = Len(Requests(s)) + 1
        /\ DOMAIN Requests(u) = 1 .. Len(Requests(s)) + 1
        /\ Requests(u)[Len(Requests(s)) + 1] = r
        /\ \A i \in 1 .. Len(Requests(s)) : Requests(u)[i] = Requests(s)[i]
    BY <1>1, <1>5, AppendProperties, LenProperties
  <2>5. r.id = s.called + (Len(Requests(s)) + 1) /\ Total(u) = Total(s) + 1
    <3>1. PICK a, b : a = s.called /\ b = Len(Requests(s)) /\ a \in Nat /\ b \in Nat
      BY <1>1
    <3>0. a \in Nat /\ b \in Nat
      BY ONLY <3>1
    <3>2. (a + b) + 1 = a + (b + 1)
      BY ONLY <3>0
    <3> QED
      BY <1>1, <1>4, <2>4, <3>1, <3>2 DEF Total
  <2>6. \A i \in DOMAIN Requests(u) : Requests(u)[i].id = u.called + i
    <3>0. Len(Requests(s)) \in Nat
      BY <1>1
    <3>1. \A i \in 1 .. Len(Requests(s)) + 1 : i \in 1 .. Len(Requests(s)) \/ i = Len(Requests(s)) + 1
      BY ONLY <3>0
    <3>2. ASSUME NEW i \in 1..Len(Requests(s)) PROVE Requests(u)[i].id = u.called + i
      <4>1. i \in DOMAIN Requests(s) /\ Requests(u)[i] = Requests(s)[i]
        BY <1>1, <2>4
      <4>2. Requests(s)[i].id = s.called + i
        BY <4>1 DEF Sound
      <4> QED
        BY <1>4, <4>1, <4>2
    <3>3. Requests(u)[Len(Requests(s)) + 1].id = u.called + (Len(Requests(s)) + 1)
      BY <1>4, <2>4, <2>5
    <3> QED
      BY <2>4, <3>1, <3>2, <3>3
  <2>7. \A i \in DOMAIN u.done : u.done[i].err \/ u.done[i].rest = <<>>
    BY <1>4 DEF Sound
  <2>8. u.q # <<>>
    BY <1>1, <2>2, EmptySeq
  <2> QED
    BY <1>4, <2>1, <2>3, <2>5, <2>6, <2>7, <2>8 DEF Sound
<1>7. CASE WritesNow(s)
  <2>1. s.size = 0 /\ m = n
    BY <1>7 DEF WritesNow
  <2>2. s.q = <<>>
    <3>1. SizeOf(s.q) = 0
      BY <1>1, <2>1
    <3> QED
      BY <1>1, <3>1, NothingHeld DEF Sound
  <2>3. Head(u.q) = r
    <3>1. u.q = <<r>>
      BY <1>4, <2>2
    <3> QED
      BY <3>1
  <2>4. t = TryWrite(u, n)
    <3> HIDE DEF TryWrite
    <3> QED
      BY <1>3, <1>7 DEF UvWrite
  <2>5. n \in -1 .. Len(Head(u.q).rest)
    BY <2>3
  <2>6. /\ Sound(t) /\ t.fd = u.fd /\ Total(t) = Total(u) /\ t.called = u.called
        /\ Requests(t) # <<>>
        /\ t.fed \/ (t.pollout /\ t.done = u.done)
        /\ (u.fed => t.fed)
        /\ (n = Len(Head(u.q).rest) => t.size = u.size - n /\ t.pollout = u.pollout)
        /\ Sent(Bytes(u.q), Head(u.q).rest, n, Bytes(t.q))
    BY ONLY <1>6, <2>4, <2>5, TryWriteFacts
  <2>7. n = len => t.size = 0 /\ t.pollout = s.pollout
    BY <1>2, <1>4, <2>1, <2>3, <2>6
  <2> QED
    BY <1>4, <1>6, <2>1, <2>3, <2>6, <2>7
<1>8. CASE ~WritesNow(s)
  <2>1. t = [u EXCEPT !.pollout = TRUE] /\ m = 0
    BY <1>3, <1>8 DEF UvWrite
  <2>2. /\ t.q = u.q /\ t.done = u.done /\ t.called = u.called /\ t.size = u.size
        /\ t.fd = u.fd /\ t.fed = u.fed /\ t.pollout /\ t \in Stream(Byte)
    BY <1>4, <2>1 DEF Stream
  <2>3. Requests(t) = Requests(u)
    BY <2>2 DEF Requests
  <2>4. Sound(t) /\ Total(t) = Total(u)
    BY <1>6, <2>2, <2>3 DEF Sound, Total
  <2>5. Requests(t) # <<>>
    <3>1. t \in Stream(Byte) /\ t.q # <<>>
      BY <1>6, <2>2
    <3> QED
      BY <3>1, StreamFacts
  <2>6. Sent(due, r.rest, 0, due)
    <3>1. Len(due) \in Nat /\ 0 \in 0 .. Len(due) /\ SubSeq(due, 0 + 1, Len(due)) = due
      <4>1. PICK x : x = due /\ x \in Seq(Byte)
        BY <1>2
      <4>2. Len(x) \in Nat
        BY ONLY <4>1, LenProperties
      <4>3. 0 \in 0 .. Len(x) /\ 0 + 1 = 1
        BY ONLY <4>2
      <4>4. SubSeq(x, 1, Len(x)) = x
        BY ONLY <4>1, SubSeqFull
      <4> QED
        BY ONLY <4>1, <4>2, <4>3, <4>4
    <3>2. SubSeq(due, 1, 0) = <<>> /\ SubSeq(r.rest, 1, 0) = <<>>
      BY SubSeqEmpty
    <3> HIDE DEF due
    <3> QED
      BY <3>1, <3>2 DEF Sent
  <2> QED
    BY <1>4, <1>6, <1>8, <2>1, <2>2, <2>4, <2>5, <2>6
<1> QED
  BY <1>7, <1>8

\* uv__stream_destroy: every request that is left is called back.
LEMMA DestroyedFacts ==
  ASSUME NEW s, Sound(s), NEW t, t = Destroyed(s)
  PROVE  /\ Sound(t) /\ Total(t) = Total(s) /\ Requests(t) = <<>> /\ t.q = <<>>
         /\ t.size = 0
         /\ t.fd = s.fd /\ t.pollout = s.pollout /\ t.fed = s.fed
<1> DEFINE R == Request(Byte)
           cancelled == [i \in DOMAIN s.q |-> [s.q[i] EXCEPT !.err = TRUE]]
<1>1. /\ s \in Stream(Byte) /\ s.q \in Seq(R) /\ s.done \in Seq(R)
      /\ Requests(s) = s.done \o s.q
      /\ Len(s.q) \in Nat /\ Len(s.done) \in Nat /\ DOMAIN s.q = 1 .. Len(s.q)
      /\ DOMAIN s.done = 1 .. Len(s.done)
      /\ s.size = SizeOf(Requests(s)) /\ Len(Requests(s)) = Len(s.done) + Len(s.q)
      /\ DOMAIN Requests(s) = 1 .. Len(s.done) + Len(s.q)
  BY StreamFacts DEF Sound, Requests
<1>2. ASSUME NEW i \in 1 .. Len(s.q)
      PROVE  /\ cancelled[i] \in R /\ cancelled[i].id = s.q[i].id
             /\ cancelled[i].rest = s.q[i].rest /\ cancelled[i].err
  <2>1. s.q[i] \in [id : Nat, rest : Seq(Byte), err : BOOLEAN]
    BY <1>1, LenProperties DEF Request
  <2>2. cancelled[i] = [s.q[i] EXCEPT !.err = TRUE]
    BY <1>1
  <2> QED
    BY <2>1, <2>2 DEF Request
<1>3. cancelled \in Seq(R) /\ Len(cancelled) = Len(s.q) /\ DOMAIN cancelled = 1 .. Len(s.q)
  <2>1. DOMAIN cancelled = 1 .. Len(s.q)
    BY <1>1
  <2>2. cancelled \in [1 .. Len(s.q) -> R]
    BY <1>1, <1>2
  <2> HIDE DEF cancelled, R
  <2> QED
    BY <1>1, <2>1, <2>2
<1> HIDE DEF cancelled
<1>4. PICK all : all = s.done \o cancelled
  OBVIOUS
<1>5. all \in Seq(R) /\ Len(all) = Len(s.done) + Len(s.q)
      /\ DOMAIN all = 1 .. Len(s.done) + Len(s.q)
      /\ \A i \in 1 .. Len(s.done) + Len(s.q) : all[i] = IF i <= Len(s.done) THEN s.done[i] ELSE cancelled[i - Len(s.done)]
  <2>1. PICK S, p, c : S = R /\ p = s.done /\ c = cancelled
    OBVIOUS
  <2>2. p \in Seq(S) /\ c \in Seq(S) /\ all = p \o c
    BY ONLY <1>1, <1>3, <1>4, <2>1
  <2>3. all \in Seq(S) /\ Len(all) = Len(p) + Len(c)
        /\ \A i \in 1 .. Len(p) + Len(c) : all[i] = IF i <= Len(p) THEN p[i] ELSE c[i - Len(p)]
    BY ONLY <2>2, ConcatProperties
  <2>4. DOMAIN all = 1 .. Len(all)
    BY ONLY <2>3, LenProperties
  <2> HIDE DEF R
  <2> QED
    BY ONLY <1>3, <2>1, <2>3, <2>4
<1>6. ASSUME NEW i \in 1 .. Len(s.done) + Len(s.q)
      PROVE  /\ all[i].id = Requests(s)[i].id /\ all[i].rest = Requests(s)[i].rest
             /\ all[i].err \/ all[i].rest = <<>>
  <2>1. Requests(s)[i] = IF i <= Len(s.done) THEN s.done[i] ELSE s.q[i - Len(s.done)]
    BY <1>1, ConcatProperties
  <2>2. CASE i <= Len(s.done)
    <3>1. i \in DOMAIN s.done
      BY <1>1, <2>2
    <3> QED
      BY <1>5, <2>1, <2>2, <3>1 DEF Sound
  <2>3. CASE ~(i <= Len(s.done))
    <3>1. i - Len(s.done) \in 1 .. Len(s.q)
      <4>1. PICK a, b : a = Len(s.done) /\ b = Len(s.q) /\ a \in Nat /\ b \in Nat
                 /\ i \in 1 .. a + b /\ ~(i <= a)
        BY <1>1, <2>3
      <4>0. a \in Nat /\ b \in Nat /\ i \in 1 .. a + b /\ ~(i <= a)
        BY ONLY <4>1
      <4>2. i - a \in 1 .. b
        BY ONLY <4>0
      <4> QED
        BY ONLY <4>1, <4>2
    <3>2. all[i] = cancelled[i - Len(s.done)] /\ Requests(s)[i] = s.q[i - Len(s.done)]
      BY <1>5, <2>1, <2>3
    <3> QED
      BY <1>2, <3>1, <3>2
  <2> QED
    BY <2>2, <2>3
<1>7. PICK v : v = [s EXCEPT !.q = <<>>, !.done = all]
  OBVIOUS
<1>8. /\ v.q = <<>> /\ v.done = all /\ v.called = s.called /\ v.size = s.size
      /\ v.fd = s.fd /\ v.fed = s.fed /\ v.pollout = s.pollout /\ v \in Stream(Byte)
  <2>1. <<>> \in Seq(R)
    BY EmptySeq
  <2> QED
    BY <1>1, <1>5, <1>7, <2>1 DEF Stream
<1>9. Requests(v) = all
  BY <1>5, <1>8, ConcatEmptySeq DEF Requests
<1>10. Sound(v) /\ Total(v) = Total(s)
  <2>1. SizeOf(all) = SizeOf(Requests(s))
    <3>1. Requests(s) \in Seq(R)
      BY <1>1, ConcatProperties
    <3>2. Bytes(all) = Bytes(Requests(s))
      BY <1>1, <1>5, <1>6, <3>1, BytesSame
    <3> QED
      BY <3>2 DEF SizeOf
  <2>2. \A i \in DOMAIN all : all[i].id = v.called + i
    BY <1>1, <1>5, <1>6, <1>8 DEF Sound
  <2>3. \A i \in DOMAIN v.done : v.done[i].err \/ v.done[i].rest = <<>>
    BY <1>5, <1>6, <1>8
  <2>4. DOMAIN v.q = {}
    BY <1>8, EmptySeq
  <2>5. Sound(v)
    BY <1>1, <1>8, <1>9, <2>1, <2>2, <2>3, <2>4 DEF Sound
  <2> QED
    BY <1>1, <1>5, <1>8, <1>9, <2>5 DEF Total
<1>11. t = Callbacks(v)
  <2>1. v = [s EXCEPT !.q = <<>>, !.done = s.done \o cancelled]
    BY <1>4, <1>7
  <2> HIDE DEF Callbacks
  <2> QED
    BY <2>1 DEF Destroyed, cancelled
<1>12. /\ Sound(t) /\ Total(t) = Total(v) /\ t.q = v.q /\ Requests(t) = v.q
       /\ t.fd = v.fd /\ t.pollout = v.pollout /\ t.fed = v.fed /\ t.size = SizeOf(v.q)
  BY ONLY <1>10, <1>11, CallbacksFacts
<1> QED
  BY ONLY <1>8, <1>10, <1>12, BytesEmpty

USE InputAssumption

\* Parts of the input.
LEMMA PartType ==
  ASSUME NEW i \in Nat, NEW j \in Nat, i <= j, j <= Len(Input)
  PROVE  Part(i, j) \in Seq(Byte) /\ Len(Part(i, j)) = j - i
<1>1. PICK D, x : D = Byte /\ x = Input /\ x \in Seq(D)
  OBVIOUS
<1>2. Len(x) \in Nat /\ j <= Len(x)
  BY <1>1, LenProperties
<1>3. i \in 0 .. Len(x) /\ j \in i .. Len(x)
  BY ONLY <1>2, i \in Nat, j \in Nat, i <= j
<1>4. SubSeq(x, i + 1, j) \in Seq(D) /\ Len(SubSeq(x, i + 1, j)) = j - i
  BY ONLY <1>1, <1>3, SubSeqFacts
<1> QED
  BY <1>1, <1>4 DEF Part

\* Two stretches of the input that meet make one.
LEMMA PartJoin ==
  ASSUME NEW i \in Nat, NEW j \in Nat, NEW k \in Nat, i <= j, j <= k, k <= Len(Input)
  PROVE  Part(i, j) \o Part(j, k) = Part(i, k)
<1>1. PICK D, x : D = Byte /\ x = Input /\ x \in Seq(D)
  OBVIOUS
<1>2. Len(x) \in Nat /\ k <= Len(x)
  BY <1>1, LenProperties
<1>3. i \in 0 .. Len(x) /\ j \in i .. Len(x) /\ k \in j .. Len(x)
  BY ONLY <1>2, i \in Nat, j \in Nat, k \in Nat, i <= j, j <= k
<1>4. SubSeq(x, i + 1, j) \o SubSeq(x, j + 1, k) = SubSeq(x, i + 1, k)
  BY ONLY <1>1, <1>3, SubSeqJoin
<1> QED
  BY <1>1, <1>4 DEF Part

\* A part of a part.
Cut(i, j, m, n) == SubSeq(Part(i, j), m + 1, n) = Part(i + m, i + n)

\* A stretch of a stretch of the input is one of the input.
LEMMA PartCut ==
  ASSUME NEW i \in Nat, NEW j \in Nat, i <= j, j <= Len(Input),
         NEW m \in Nat, NEW n \in Nat, m <= n, n <= j - i
  PROVE  Cut(i, j, m, n)
<1>1. PICK D, x : D = Byte /\ x = Input /\ x \in Seq(D)
  OBVIOUS
<1>2. Len(x) \in Nat /\ j <= Len(x)
  BY <1>1, LenProperties
<1>3. i \in 0 .. Len(x) /\ j \in i .. Len(x) /\ m \in 0 .. j - i /\ n \in m .. j - i
  BY ONLY <1>2, i \in Nat, j \in Nat, i <= j, m \in Nat, n \in Nat, m <= n, n <= j - i
<1>4. SubSeq(SubSeq(x, i + 1, j), m + 1, n) = SubSeq(x, (i + m) + 1, i + n)
  BY ONLY <1>1, <1>3, SubSeqCut
<1> QED
  BY <1>1, <1>4 DEF Part, Cut

\* An empty stretch.
LEMMA PartNone ==
  ASSUME NEW i \in Nat
  PROVE  Part(i, i) = <<>>
BY SubSeqEmpty DEF Part

\* The whole input.
LEMMA PartAll == Part(0, Len(Input)) = Input /\ Len(Input) \in Nat
<1>1. PICK D, x : D = Byte /\ x = Input /\ x \in Seq(D)
  OBVIOUS
<1>2. SubSeq(x, 1, Len(x)) = x /\ Len(x) \in Nat
  BY ONLY <1>1, SubSeqFull, LenProperties
<1>3. 0 + 1 = 1
  OBVIOUS
<1> QED
  BY <1>1, <1>2, <1>3 DEF Part

\* What InOrder says of one destination: c was given, o is owed, t was read.
Ordered(c, o, t, fits) ==
  /\ c \in Seq(Byte) /\ o \in Seq(Byte)
  /\ c = Part(0, Len(c)) /\ o = Part(t - Len(o), t)
  /\ Len(c) + Len(o) <= t /\ (fits => Len(c) + Len(o) = t)

\* What the promise says of one destination in one step.
Given(c, due, c2, o2, fits) ==
  \E n \in 0 .. Len(due) :
    /\ c2 = c \o SubSeq(due, 1, n)
    /\ \E k \in n .. Len(due) : /\ o2 = SubSeq(due, k + 1, Len(due))
                                /\ fits => k = n

\* A write keeps the order, and serves the destination: one that takes
\* something is fit, and one that stays fit has no error.
LEMMA SentInOrder ==
  ASSUME NEW t \in Nat, NEW u \in Nat, t <= u, u <= Len(Input),
         NEW c, NEW o, NEW fits, NEW stays, Ordered(c, o, t, fits),
         NEW bytes, NEW n \in Int, n >= -1, NEW left, Sent(o \o Part(t, u), bytes, n, left),
         n > 0 => fits, stays => fits /\ n >= 0
  PROVE  /\ Ordered(c \o SubSeq(bytes, 1, n), left, u, stays)
         /\ Given(c, o \o Part(t, u), c \o SubSeq(bytes, 1, n), left, stays)
         /\ Len(c) <= Len(c \o SubSeq(bytes, 1, n))
         /\ (n >= 0 => Len(c \o SubSeq(bytes, 1, n)) = Len(c) + n)
<1> DEFINE due == o \o Part(t, u)
           g == Len(c)
           w == Len(o)
           b == t - w
           more == SubSeq(bytes, 1, n)
<1>1. c \in Seq(Byte) /\ o \in Seq(Byte) /\ g \in Nat /\ w \in Nat /\ g + w <= t
      /\ (fits => g + w = t)
      /\ c = Part(0, g) /\ o = Part(b, t)
  BY LenProperties DEF Ordered
<1>2. Len(Input) \in Nat
  BY PartAll
<1> HIDE DEF g, w
<1>3. b \in Nat /\ b <= t /\ g <= b /\ b <= u /\ t <= Len(Input) /\ (fits => g = b)
  BY <1>1, <1>2
<1> HIDE DEF b
<1>4. due = Part(b, u) /\ due \in Seq(Byte) /\ Len(due) = u - b /\ u - b \in Nat
  <2>1. due = Part(b, u)
    BY <1>1, <1>3, PartJoin
  <2> HIDE DEF due
  <2>2. Part(b, u) \in Seq(Byte) /\ Len(Part(b, u)) = u - b
    BY ONLY <1>3, u \in Nat, u <= Len(Input), PartType
  <2>3. u - b \in Nat
    BY <1>3
  <2> QED
    BY ONLY <2>1, <2>2, <2>3
<1> HIDE DEF due, more
<1>5. PICK k \in 0 .. u - b : n <= k /\ (n >= 0 => k = n) /\ more = SubSeq(due, 1, n)
                             /\ left = SubSeq(due, k + 1, Len(due))
  BY <1>4 DEF Sent, due, more
<1>6. left = Part(b + k, u) /\ left \in Seq(Byte) /\ Len(left) = u - (b + k)
      /\ u - Len(left) = b + k
      /\ b + k \in Nat /\ b + k <= u
  <2>1. k \in Nat /\ k <= u - b /\ u - b <= u - b
    BY <1>3, <1>4, <1>5
  <2>2. left = SubSeq(Part(b, u), k + 1, u - b)
    BY <1>4, <1>5
  <2>3. b + (u - b) = u /\ b + k \in Nat /\ b + k <= u
    BY <1>3, <2>1
  <2>4. left = Part(b + k, u)
    <3>1. PICK m : m = u - b /\ m \in Nat /\ k \in Nat /\ k <= m /\ m <= u - b /\ b \in Nat
               /\ b <= u /\ u \in Nat /\ u <= Len(Input)
      BY <1>3, <1>4, <2>1
    <3>2. Cut(b, u, k, m)
      BY ONLY <3>1, PartCut
    <3> QED
      BY ONLY <2>2, <2>3, <3>1, <3>2 DEF Cut
  <2>5. left \in Seq(Byte) /\ Len(left) = u - (b + k)
    BY <2>3, <2>4, PartType
  <2>6. u - (u - (b + k)) = b + k
    BY <2>3
  <2> QED
    BY <2>3, <2>4, <2>5, <2>6
<1>7. CASE n <= 0
  <2>1. more = <<>> /\ SubSeq(due, 1, 0) = <<>>
    <3>1. n = 0 \/ n = -1
      BY <1>7
    <3> QED
      BY <1>5, <3>1, SubSeqEmpty
  <2>2. c \o more = c
    BY <1>1, <2>1, ConcatEmptySeq
  <2>3. Ordered(c, left, u, stays)
    <3>1. g + Len(left) <= u /\ (stays => g + Len(left) = u)
      <4>1. g + (u - (b + k)) <= u /\ (g = b /\ k = 0 => g + (u - (b + k)) = u)
        BY SMTT(30), <1>1, <1>3, <1>5
      <4>2. stays => g = b /\ k = 0
        BY <1>3, <1>5, <1>7
      <4> QED
        BY <1>6, <4>1, <4>2
    <3> QED
      BY <1>1, <1>6, <3>1 DEF Ordered, g
  <2>4. Given(c, due, c, left, stays)
    <3>1. 0 \in 0 .. Len(due) /\ k \in 0 .. Len(due) /\ (stays => k = 0)
          /\ c = c \o SubSeq(due, 1, 0)
      BY <1>4, <1>5, <1>7, <2>1, <2>2
    <3> QED
      BY <1>5, <3>1 DEF Given
  <2>5. n >= 0 => g = g + n
    BY <1>1, <1>7
  <2>6. g <= g
    BY <1>1
  <2> QED
    BY <2>2, <2>3, <2>4, <2>5, <2>6 DEF due, more, g
<1>8. CASE n > 0
  <2>1. k = n /\ fits /\ g = b /\ n \in Nat /\ n <= u - b /\ g + n \in Nat /\ g <= g + n
        /\ g + n <= Len(Input) /\ 0 <= g
    BY <1>1, <1>2, <1>3, <1>5, <1>8
  <2>2. more = Part(g, g + n)
    <3>0. PICK m : m = 0 /\ m \in Nat /\ m <= n /\ b \in Nat /\ b <= u /\ u \in Nat
               /\ n \in Nat /\ n <= u - b /\ u <= Len(Input)
      BY <1>3, <2>1
    <3>3. Cut(b, u, m, n)
      BY ONLY <3>0, PartCut
    <3>1. SubSeq(Part(b, u), 0 + 1, n) = Part(b + 0, b + n)
      BY ONLY <3>0, <3>3 DEF Cut
    <3>2. 0 + 1 = 1 /\ b + 0 = b
      BY <1>3
    <3> QED
      BY <1>4, <1>5, <2>1, <3>1, <3>2
  <2>3. c \o more = Part(0, g + n)
    BY <1>1, <2>1, <2>2, PartJoin
  <2>4. c \o more \in Seq(Byte) /\ Len(c \o more) = g + n
    <3>0. PICK i, j : i = 0 /\ j = g + n /\ i \in Nat /\ j \in Nat /\ i <= j
               /\ j <= Len(Input)
      BY <2>1
    <3>3. Part(i, j) \in Seq(Byte) /\ Len(Part(i, j)) = j - i
      BY ONLY <3>0, PartType
    <3>1. Part(0, g + n) \in Seq(Byte) /\ Len(Part(0, g + n)) = (g + n) - 0
      BY ONLY <3>0, <3>3
    <3>2. (g + n) - 0 = g + n
      BY <2>1
    <3> QED
      BY <2>3, <3>1, <3>2
  <2>5. Ordered(c \o more, left, u, stays)
    <3>1. (g + n) + (u - (b + k)) = u
      BY <1>1, <1>3, <2>1
    <3>2. u <= u
      OBVIOUS
    <3> QED
      BY <1>6, <2>3, <2>4, <3>1, <3>2 DEF Ordered
  <2>6. Given(c, due, c \o more, left, stays)
    <3>1. n \in 0 .. Len(due) /\ k \in n .. Len(due) /\ k = n
      BY <1>4, <1>5, <2>1
    <3> QED
      BY <1>5, <3>1 DEF Given
  <2> QED
    BY <2>1, <2>4, <2>5, <2>6 DEF due, more, g
<1> QED
  BY <1>7, <1>8

\* What holds of one destination: its stream s, what it was given c, how
\* often and how much uvtee has read, and whether standard input is open, the
\* program has ended, the stream is in the batch, and it is fit.
DestOK(s, c, n, t, open, ended, inBatch, fits) ==
  /\ Sound(s)
  /\ Total(s) = n \/ (~s.fd /\ Total(s) = 0)
  /\ open /\ ~s.fd => Total(s) = 0
  /\ ended => Requests(s) = <<>>
  /\ s.fd /\ Requests(s) # <<>> => s.fed \/ inBatch \/ (s.pollout /\ s.done = <<>>)
  /\ Ordered(c, Bytes(s.q), t, fits)

\* A destination that is given nothing, when nothing is read.
LEMMA NothingGiven ==
  ASSUME NEW t \in Nat, NEW c, NEW o, NEW fits, Ordered(c, o, t, fits), NEW stays
  PROVE  Given(c, o \o Part(t, t), c, o, stays)
<1>1. c \in Seq(Byte) /\ o \in Seq(Byte) /\ Part(t, t) = <<>>
  BY PartNone DEF Ordered
<1>2. o \o Part(t, t) = o /\ c \o <<>> = c /\ Len(o) \in Nat
  BY <1>1, ConcatEmptySeq, LenProperties
<1>3. SubSeq(o, 1, 0) = <<>> /\ 0 \in 0 .. Len(o) /\ SubSeq(o, 0 + 1, Len(o)) = o
  <2>1. PICK D, x : D = Byte /\ x = o /\ x \in Seq(D)
    BY <1>1
  <2>2. SubSeq(x, 1, Len(x)) = x /\ SubSeq(x, 1, 0) = <<>>
    BY ONLY <2>1, SubSeqFull, SubSeqEmpty
  <2>3. 0 \in 0 .. Len(o) /\ 0 + 1 = 1
    BY <1>2
  <2> QED
    BY ONLY <2>1, <2>2, <2>3
<1>4. c = c \o SubSeq(o, 1, 0)
  BY <1>2, <1>3
<1>5. Given(c, o, c, o, stays)
  BY <1>3, <1>4 DEF Given
<1> QED
  BY <1>2, <1>5

\* Giving to a fit destination is also giving to one that is not.
LEMMA GivenLess ==
  ASSUME NEW c, NEW due, NEW c2, NEW o2, NEW fits, Given(c, due, c2, o2, fits), NEW less, less => fits
  PROVE  Given(c, due, c2, o2, less)
BY DEF Given

\* What is promised of a fit destination holds of one that is not.
LEMMA OrderedLess ==
  ASSUME NEW c, NEW o, NEW t, NEW fits, Ordered(c, o, t, fits), NEW less, less => fits
  PROVE  Ordered(c, o, t, less)
BY DEF Ordered

\* A destination that nothing touches is kept, when less is asked of it.
LEMMA StillOK ==
  ASSUME NEW s, NEW c, NEW n, NEW t \in Nat, NEW open, NEW ended, NEW inBatch, NEW fits,
         DestOK(s, c, n, t, open, ended, inBatch, fits),
         NEW ended2, NEW inBatch2, NEW fits2,
         ended2 => ended, inBatch => inBatch2, fits2 => fits
  PROVE  /\ DestOK(s, c, n, t, open, ended2, inBatch2, fits2)
         /\ Given(c, Bytes(s.q) \o Part(t, t), c, Bytes(s.q), fits2)
<1>1. Ordered(c, Bytes(s.q), t, fits2)
  BY OrderedLess DEF DestOK
<1>2. Given(c, Bytes(s.q) \o Part(t, t), c, Bytes(s.q), fits2)
  BY <1>1, NothingGiven
<1> QED
  BY <1>1, <1>2 DEF DestOK

\* v is s after a write() of bytes that returned n; and after uv_write of
\* data, of which the write(), when there was one, took n.
IsFlush(s, bytes, n, v) == /\ bytes = IF s.q # <<>> THEN Head(s.q).rest ELSE <<>>
                           /\ n \in -1 .. Len(bytes) /\ (s.q = <<>> => n = 0)
                           /\ v = Flushed(s, n)
\* The stream v is s after uv_write of data of which n is accepted at once,
\* m when no write was waiting.
IsWrite(s, nr, data, n, m, v) ==
  /\ n \in -1 .. Len(data) /\ m = IF WritesNow(s) THEN n ELSE 0
  /\ v = UvWrite(s, [id |-> nr + 1, rest |-> data, err |-> FALSE], n)
\* The first n bytes reach the destination.
IsGiven(c, bytes, n, c2) == c2 = c \o SubSeq(bytes, 1, n)

\* What uv__write makes of a destination, and when it is called.
FlushCase(s, c, nr, t, inBatch, fits, bytes, n, v, c2, inBatch2, fits2) ==
  /\ t \in Nat /\ t <= Len(Input) /\ n \in Int
  /\ DestOK(s, c, nr, t, TRUE, FALSE, inBatch, fits)
  /\ IsFlush(s, bytes, n, v) /\ IsGiven(c, bytes, n, c2)
  /\ (n > 0 => fits) /\ (fits2 => fits /\ n >= 0)

\* uv__write keeps a destination, and gives it what is due.
LEMMA FlushOK ==
  ASSUME NEW s, NEW c, NEW nr, NEW t, NEW inBatch, NEW fits, NEW bytes, NEW n, NEW v,
         NEW c2, NEW inBatch2, NEW fits2,
         FlushCase(s, c, nr, t, inBatch, fits, bytes, n, v, c2, inBatch2, fits2)
  PROVE  /\ DestOK(v, c2, nr, t, TRUE, FALSE, inBatch2, fits2)
         /\ Given(c, Bytes(s.q) \o Part(t, t), c2, Bytes(v.q), fits2)
         /\ v.fd = s.fd /\ Total(v) = Total(s)
         /\ (s.size = 0 => v.size = 0 /\ ~v.pollout)
         /\ Len(c) <= Len(c2)
<1>0. /\ t \in Nat /\ t <= Len(Input) /\ n \in Int
      /\ DestOK(s, c, nr, t, TRUE, FALSE, inBatch, fits)
      /\ IsFlush(s, bytes, n, v) /\ IsGiven(c, bytes, n, c2)
      /\ (n > 0 => fits) /\ (fits2 => fits /\ n >= 0)
  BY DEF FlushCase
<1>1. Sound(s) /\ Ordered(c, Bytes(s.q), t, fits)
  BY <1>0 DEF DestOK
<1>2. /\ Sound(v) /\ v.fd = s.fd /\ Total(v) = Total(s)
      /\ v.done = <<>> /\ (Requests(v) # <<>> => v.fed \/ v.pollout)
      /\ (s.size = 0 => v.size = 0 /\ ~v.pollout)
      /\ Sent(Bytes(s.q), bytes, n, Bytes(v.q))
  BY <1>0, <1>1, FlushedFacts DEF IsFlush
<1>3. Bytes(s.q) \o Part(t, t) = Bytes(s.q)
  <2>1. Bytes(s.q) \in Seq(Byte) /\ Part(t, t) = <<>>
    BY <1>0, <1>1, PartNone DEF Ordered
  <2> QED
    BY <2>1, ConcatEmptySeq
<1>4. Sent(Bytes(s.q) \o Part(t, t), bytes, n, Bytes(v.q)) /\ n \in Int /\ n >= -1 /\ t <= t
  <2>1. n >= -1 /\ t <= t
    BY <1>0 DEF IsFlush
  <2> QED
    BY <1>0, <1>2, <1>3, <2>1
<1>5. /\ Ordered(c \o SubSeq(bytes, 1, n), Bytes(v.q), t, fits2)
      /\ Given(c, Bytes(s.q) \o Part(t, t), c \o SubSeq(bytes, 1, n), Bytes(v.q), fits2)
      /\ Len(c) <= Len(c \o SubSeq(bytes, 1, n))
  <2>1. PICK t1 \in Nat : t1 = t
    BY <1>0
  <2>2. Ordered(c, Bytes(s.q), t1, fits)
        /\ Sent(Bytes(s.q) \o Part(t1, t1), bytes, n, Bytes(v.q)) /\ n \in Int /\ n >= -1
        /\ t1 <= t1 /\ t1 <= Len(Input) /\ (n > 0 => fits) /\ (fits2 => fits /\ n >= 0)
    BY <1>0, <1>1, <1>4, <2>1
  <2>3. /\ Ordered(c \o SubSeq(bytes, 1, n), Bytes(v.q), t1, fits2)
        /\ Given(c, Bytes(s.q) \o Part(t1, t1), c \o SubSeq(bytes, 1, n), Bytes(v.q), fits2)
        /\ Len(c) <= Len(c \o SubSeq(bytes, 1, n))
    BY ONLY t1 \in Nat, <2>2, SentInOrder
  <2> QED
    BY ONLY <2>1, <2>3
<1> QED
  BY <1>0, <1>2, <1>5 DEF DestOK, IsGiven

\* write_data for a destination, when read_stdin was given what the input
\* holds from t to u.
WriteCase(s, c, nr, t, u, inBatch, fits, data, n, m, v, c2, fits2) ==
  /\ nr \in Nat /\ t \in Nat /\ u \in Nat /\ t < u /\ u <= Len(Input) /\ n \in Int
  /\ m \in Int
  /\ DestOK(s, c, nr, t, TRUE, FALSE, inBatch, fits)
  /\ data = Part(t, u) /\ IsWrite(s, nr, data, n, m, v) /\ IsGiven(c, data, m, c2)
  /\ (m > 0 => fits) /\ (fits2 => fits /\ m >= 0 /\ s.fd)

\* What uv_write leaves alone: the descriptor, and a stream that has none;
\* a write accepted whole leaves nothing waiting.
WriteKeeps(s, c, data, n, v, c2) ==
  /\ v.fd = s.fd /\ (~s.fd => v = s /\ Total(v) = 0)
  /\ (WritesNow(s) /\ n = Len(data) => v.size = 0 /\ v.pollout = s.pollout
                                       /\ Len(c2) = Len(c) + Len(data))

\* uv_write keeps a destination, and the new data is due after the old.
LEMMA WriteOK ==
  ASSUME NEW s, NEW c, NEW nr, NEW t, NEW u, NEW inBatch, NEW fits,
         NEW data, NEW n, NEW m, NEW v, NEW c2, NEW fits2,
         WriteCase(s, c, nr, t, u, inBatch, fits, data, n, m, v, c2, fits2)
  PROVE  /\ DestOK(v, c2, nr + 1, u, TRUE, FALSE, inBatch, fits2)
         /\ Given(c, Bytes(s.q) \o data, c2, Bytes(v.q), fits2)
         /\ WriteKeeps(s, c, data, n, v, c2)
<1> DEFINE r == [id |-> nr + 1, rest |-> data, err |-> FALSE]
<1>a. /\ nr \in Nat /\ t \in Nat /\ u \in Nat /\ t < u /\ u <= Len(Input) /\ n \in Int
      /\ m \in Int
      /\ DestOK(s, c, nr, t, TRUE, FALSE, inBatch, fits)
      /\ data = Part(t, u) /\ IsWrite(s, nr, data, n, m, v) /\ IsGiven(c, data, m, c2)
      /\ (m > 0 => fits) /\ (fits2 => fits /\ m >= 0 /\ s.fd)
  BY DEF WriteCase
<1> USE <1>a
<1>1. Sound(s) /\ Ordered(c, Bytes(s.q), t, fits)
  BY DEF DestOK
<1>0. n \in -1 .. Len(data) /\ m = (IF WritesNow(s) THEN n ELSE 0) /\ v = UvWrite(s, r, n)
      /\ c2 = c \o SubSeq(data, 1, m)
  BY DEF IsWrite, IsGiven
<1>2. data \in Seq(Byte) /\ Len(data) = u - t /\ Len(data) \in Nat /\ Len(data) # 0
      /\ t <= u
  <2>1. t <= u
    OBVIOUS
  <2>2. Part(t, u) \in Seq(Byte) /\ Len(Part(t, u)) = u - t
    BY ONLY <2>1, t \in Nat, u \in Nat, u <= Len(Input), PartType
  <2>3. u - t \in Nat /\ u - t # 0
    OBVIOUS
  <2> QED
    BY ONLY <2>1, <2>2, <2>3, data = Part(t, u)
<1>3. CASE s.fd
  <2>1. r \in Request(Byte) /\ r.id = nr + 1 /\ r.rest = data /\ ~r.err /\ r.rest # <<>>
    <3>1. nr + 1 \in Nat /\ data # <<>>
      BY <1>2, EmptySeq
    <3> QED
      BY <1>2, <3>1 DEF Request
  <2>2. r.id = Total(s) + 1
    BY <1>3, <2>1 DEF DestOK
  <2>3. n \in -1 .. Len(r.rest)
    BY <1>0, <2>1
  <2> HIDE DEF r
  <2>4. /\ Sound(v) /\ v.fd /\ Total(v) = Total(s) + 1 /\ v.called = s.called
        /\ Requests(v) # <<>>
        /\ v.fed \/ (v.pollout /\ v.done = s.done)
        /\ (s.fed => v.fed)
        /\ (WritesNow(s) /\ n = Len(r.rest) => v.size = 0 /\ v.pollout = s.pollout)
        /\ Sent(Bytes(s.q) \o r.rest, r.rest, m, Bytes(v.q))
    BY ONLY <1>1, <1>3, <2>1, <2>2, <2>3, <1>0, UvWriteFacts
  <2>5. m \in Int /\ m >= -1
    BY <1>0, <1>2
  <2>6. Sent(Bytes(s.q) \o Part(t, u), data, m, Bytes(v.q)) /\ (fits2 => fits /\ m >= 0)
    BY <2>1, <2>4
  <2>7. /\ Ordered(c \o SubSeq(data, 1, m), Bytes(v.q), u, fits2)
        /\ Given(c, Bytes(s.q) \o Part(t, u), c \o SubSeq(data, 1, m), Bytes(v.q), fits2)
        /\ (m >= 0 => Len(c \o SubSeq(data, 1, m)) = Len(c) + m)
    <3>1. PICK t1 \in Nat, u1 \in Nat, k \in Int : t1 = t /\ u1 = u /\ k = m
      OBVIOUS
    <3>2. /\ Ordered(c, Bytes(s.q), t1, fits)
          /\ Sent(Bytes(s.q) \o Part(t1, u1), data, k, Bytes(v.q))
          /\ k >= -1 /\ t1 <= u1 /\ u1 <= Len(Input) /\ (k > 0 => fits)
             /\ (fits2 => fits /\ k >= 0)
      BY <1>1, <1>2, <2>5, <2>6, <3>1
    <3>3. /\ Ordered(c \o SubSeq(data, 1, k), Bytes(v.q), u1, fits2)
          /\ Given(c, Bytes(s.q) \o Part(t1, u1), c \o SubSeq(data, 1, k), Bytes(v.q), fits2)
          /\ (k >= 0 => Len(c \o SubSeq(data, 1, k)) = Len(c) + k)
      <4>1. Ordered(c \o SubSeq(data, 1, k), Bytes(v.q), u1, fits2)
        BY ONLY t1 \in Nat, u1 \in Nat, k \in Int, <3>2, SentInOrder
      <4>2. Given(c, Bytes(s.q) \o Part(t1, u1), c \o SubSeq(data, 1, k), Bytes(v.q), fits2)
        BY ONLY t1 \in Nat, u1 \in Nat, k \in Int, <3>2, SentInOrder
      <4>3. (k >= 0 => Len(c \o SubSeq(data, 1, k)) = Len(c) + k)
        BY ONLY t1 \in Nat, u1 \in Nat, k \in Int, <3>2, SentInOrder
      <4> QED
        BY ONLY <4>1, <4>2, <4>3
    <3> QED
      BY ONLY <3>1, <3>3
  <2>8. s.done # <<>> => s.fed \/ inBatch
    <3>1. s.done # <<>> => Requests(s) # <<>>
      BY <1>1, StreamFacts DEF Sound
    <3> QED
      BY <1>3, <3>1 DEF DestOK
  <2>9. v.fed \/ inBatch \/ (v.pollout /\ v.done = <<>>)
    BY <2>4, <2>8
  <2>10. Total(v) = nr + 1
    BY <1>3, <2>4 DEF DestOK
  <2>11. WritesNow(s) /\ n = Len(data) => Len(c \o SubSeq(data, 1, m)) = Len(c) + Len(data)
    <3>1. WritesNow(s) => m = n
      BY <1>0
    <3> QED
      BY ONLY <1>2, <2>7, <3>1
  <2> QED
    BY <1>0, <1>3, <2>1, <2>4, <2>7, <2>9, <2>10, <2>11 DEF DestOK, WriteKeeps
<1>4. CASE ~s.fd
  <2>1. v = s /\ m = 0 /\ ~WritesNow(s) /\ ~fits2 /\ Total(s) = 0
    BY <1>0, <1>4 DEF UvWrite, WritesNow, DestOK
  <2>2. s.q = <<>> /\ Requests(s) = <<>>
    <3>1. s \in Stream(Byte) /\ ~(Total(s) > 0)
      BY <1>1, <2>1 DEF Sound
    <3> QED
      BY ONLY <3>1, StreamFacts
  <2>3. Bytes(s.q) = <<>>
    BY <2>2, BytesEmpty
  <2>4. Sent(Bytes(s.q) \o Part(t, u), data, -1, Bytes(s.q))
    <3>1. <<>> \o data = data
      BY <1>2, ConcatEmptySeq
    <3>2. Len(data) \in 0 .. Len(data) /\ -1 <= Len(data) /\ ~(-1 >= 0)
      BY <1>2
    <3>3. SubSeq(data, Len(data) + 1, Len(data)) = <<>>
      BY <1>2, SubSeqEmpty
    <3>4. Sent(data, data, -1, <<>>)
      BY <3>2, <3>3 DEF Sent
    <3> QED
      BY <2>3, <3>1, <3>4
  <2>5. PICK k : k = -1 /\ k \in Int /\ k >= -1 /\ ~(k > 0)
    OBVIOUS
  <2>6. Sent(Bytes(s.q) \o Part(t, u), data, k, Bytes(s.q)) /\ (k > 0 => fits)
        /\ (fits2 => fits /\ k >= 0)
    BY <2>1, <2>4, <2>5
  <2>7. /\ Ordered(c \o SubSeq(data, 1, k), Bytes(s.q), u, fits2)
        /\ Given(c, Bytes(s.q) \o Part(t, u), c \o SubSeq(data, 1, k), Bytes(s.q), fits2)
    <3>1. PICK t1 \in Nat, u1 \in Nat : t1 = t /\ u1 = u
      OBVIOUS
    <3>2. /\ Ordered(c, Bytes(s.q), t1, fits)
          /\ Sent(Bytes(s.q) \o Part(t1, u1), data, k, Bytes(s.q))
          /\ k \in Int /\ k >= -1 /\ t1 <= u1 /\ u1 <= Len(Input) /\ (k > 0 => fits)
             /\ (fits2 => fits /\ k >= 0)
      BY <1>1, <1>2, <2>5, <2>6, <3>1
    <3>3. /\ Ordered(c \o SubSeq(data, 1, k), Bytes(s.q), u1, fits2)
          /\ Given(c, Bytes(s.q) \o Part(t1, u1), c \o SubSeq(data, 1, k), Bytes(s.q), fits2)
      BY ONLY t1 \in Nat, u1 \in Nat, <3>2, SentInOrder
    <3> QED
      BY ONLY <3>1, <3>3
  <2>8. SubSeq(data, 1, k) = SubSeq(data, 1, m)
    <3>1. SubSeq(data, 1, -1) = <<>> /\ SubSeq(data, 1, 0) = <<>>
      BY SubSeqEmpty
    <3> QED
      BY <2>1, <2>5, <3>1
  <2>9. Sound(s) /\ Total(s) = 0 /\ ~s.fd /\ Requests(s) = <<>>
    BY <1>1, <1>4, <2>1, <2>2
  <2> QED
    BY <1>0, <2>1, <2>7, <2>8, <2>9 DEF DestOK, WriteKeeps
<1> QED
  BY <1>3, <1>4

\* uv_close on a stream.
LEMMA CloseOK ==
  ASSUME NEW s, NEW c, NEW n, NEW t, NEW inBatch, NEW fits,
         DestOK(s, c, n, t, TRUE, FALSE, inBatch, fits), NEW v, v = Closed(s), NEW inBatch2
  PROVE  /\ DestOK(v, c, n, t, FALSE, FALSE, inBatch2, FALSE) /\ v.q = s.q
         /\ ~v.fd /\ v.size = s.size /\ ~v.pollout /\ Total(v) = Total(s)
<1>1. Sound(s) /\ Ordered(c, Bytes(s.q), t, fits)
  BY DEF DestOK
<1>2. /\ Sound(v) /\ Total(v) = Total(s) /\ Requests(v) = Requests(s) /\ v.q = s.q
      /\ ~v.fd /\ ~v.pollout /\ v.size = s.size
  BY <1>1, ClosedFacts
<1>3. Ordered(c, Bytes(v.q), t, FALSE)
  BY <1>1, <1>2, OrderedLess
<1> QED
  BY <1>2, <1>3 DEF DestOK

\* The watchers that were fed are moved to the pending queue.
LEMMA NextOK ==
  ASSUME NEW s, NEW c, NEW n, NEW t \in Nat, NEW fits,
         DestOK(s, c, n, t, TRUE, FALSE, FALSE, fits),
         NEW v, v = [s EXCEPT !.fed = FALSE], NEW inBatch2, inBatch2 = s.fed, NEW fits2, fits2 => fits
  PROVE  /\ DestOK(v, c, n, t, TRUE, FALSE, inBatch2, fits2)
         /\ v.q = s.q /\ v.fd = s.fd /\ v.size = s.size /\ v.pollout = s.pollout
         /\ Total(v) = Total(s)
<1>1. Sound(s) /\ Ordered(c, Bytes(s.q), t, fits)
  BY DEF DestOK
<1>2. /\ Sound(v) /\ Total(v) = Total(s) /\ Requests(v) = Requests(s) /\ v.q = s.q
      /\ v.done = s.done
      /\ v.fd = s.fd /\ v.pollout = s.pollout /\ v.size = s.size
  BY <1>1, UnfedFacts
<1>3. Ordered(c, Bytes(v.q), t, fits2)
  BY <1>1, <1>2, OrderedLess
<1> QED
  BY <1>2, <1>3 DEF DestOK

\* uv__stream_destroy.
LEMMA DestroyOK ==
  ASSUME NEW s, NEW c, NEW n, NEW t \in Nat, t <= Len(Input), NEW inBatch, NEW fits,
         DestOK(s, c, n, t, FALSE, FALSE, inBatch, fits), ~s.fd,
         NEW v, v = Destroyed(s), NEW inBatch2
  PROVE  /\ DestOK(v, c, n, t, FALSE, TRUE, inBatch2, FALSE) /\ Requests(v) = <<>>
         /\ Given(c, Bytes(s.q) \o Part(t, t), c, Bytes(v.q), FALSE)
         /\ ~v.fd /\ v.size = 0 /\ v.pollout = s.pollout /\ Total(v) = Total(s)
<1>1. Sound(s) /\ Ordered(c, Bytes(s.q), t, fits)
  BY DEF DestOK
<1>2. /\ Sound(v) /\ Total(v) = Total(s) /\ Requests(v) = <<>> /\ v.q = <<>> /\ v.size = 0
      /\ v.fd = s.fd /\ v.pollout = s.pollout
  BY <1>1, DestroyedFacts
<1>3. c \in Seq(Byte) /\ Bytes(s.q) \in Seq(Byte) /\ Part(t, t) = <<>>
  BY <1>1, PartNone DEF Ordered
<1>4. PICK o : o = Bytes(s.q) \o Part(t, t) /\ o \in Seq(Byte) /\ Len(o) \in Nat
  BY <1>3, ConcatEmptySeq, LenProperties
<1>5. Sent(o, <<>>, -1, Bytes(v.q))
  <2>1. Len(o) \in 0 .. Len(o) /\ -1 <= Len(o) /\ ~(-1 >= 0)
    BY <1>4
  <2>2. SubSeq(o, Len(o) + 1, Len(o)) = <<>> /\ SubSeq(o, 1, -1) = <<>>
        /\ SubSeq(<<>>, 1, -1) = <<>>
    BY <1>4, SubSeqEmpty
  <2>3. Bytes(v.q) = <<>>
    BY <1>2, BytesEmpty
  <2> QED
    BY <2>1, <2>2, <2>3 DEF Sent
<1>6. PICK k : k = -1 /\ k \in Int /\ k >= -1 /\ ~(k > 0)
  OBVIOUS
<1>f. PICK f : f = FALSE
  OBVIOUS
<1>7. Sent(Bytes(s.q) \o Part(t, t), <<>>, k, Bytes(v.q)) /\ (k > 0 => fits)
      /\ (f => fits /\ k >= 0) /\ t <= t
  BY <1>4, <1>5, <1>6, <1>f
<1>8. PICK bytes : bytes = <<>>
  OBVIOUS
<1>9. /\ Ordered(c \o SubSeq(bytes, 1, k), Bytes(v.q), t, f)
      /\ Given(c, Bytes(s.q) \o Part(t, t), c \o SubSeq(bytes, 1, k), Bytes(v.q), f)
  BY ONLY t \in Nat, t <= Len(Input), <1>1, <1>6, <1>7, <1>8, SentInOrder
<1>10. c \o SubSeq(bytes, 1, k) = c
  <2>1. SubSeq(<<>>, 1, -1) = <<>>
    BY SubSeqEmpty
  <2> QED
    BY <1>3, <1>6, <1>8, <2>1, ConcatEmptySeq
<1>11. Ordered(c, Bytes(v.q), t, FALSE)
       /\ Given(c, Bytes(s.q) \o Part(t, t), c, Bytes(v.q), FALSE)
  <2>1. Ordered(c, Bytes(v.q), t, f) /\ Given(c, Bytes(s.q) \o Part(t, t), c, Bytes(v.q), f)
    BY ONLY <1>9, <1>10
  <2> QED
    BY <2>1, OrderedLess, GivenLess
<1> QED
  BY <1>2, <1>11 DEF DestOK

USE TeeAssumption

\* uvtee's half of the invariant.
TeeTyped == /\ tee \in TeeStates /\ stdinOpen \in BOOLEAN
            /\ dst \in [Dests -> Stream(Byte)]
            /\ batch \subseteq Dests /\ evs \subseteq {"stdin", "stdout"}
            /\ hup \in BOOLEAN /\ outGone \in BOOLEAN
            /\ count \in 0 .. Batch /\ (Reading => count > 0)
            /\ reads \in Nat /\ took \in Nat
            /\ copy \in [Dests -> Seq(Byte)] /\ room \in [Dests -> Nat]
\* A destination of uvtee as it stands.
Dest(d) == DestOK(dst[d], copy[d], reads, took, stdinOpen, tee = "exited", d \in batch, d \in Fit)
\* As long as the disk has room the file is written at once; and what it
\* holds was written by requests, unless uvtee is dead and they with it.
FileKept ==
  /\ room["file"] > 0 => /\ dst["file"].size = 0 /\ ~dst["file"].pollout
                         /\ dst["file"].fd \/ Total(dst["file"]) > 0 => Len(copy["file"]) = took
  /\ Total(dst["file"]) > 0 \/ tee = "killed" \/ copy["file"] = <<>>
\* uvtee's half of the invariant.
TeeKept == TeeTyped /\ TeeTurns /\ (\A d \in Dests : Dest(d)) /\ FileKept

\* What it relies on: the pipe holds what comes next in the input.
PipeOK == /\ pipe \in Seq(Byte) /\ took + Len(pipe) <= Len(Input)
          /\ pipe = Part(took, took + Len(pipe))

\* Every destination is served.
Serving == /\ Fit' \subseteq Fit /\ took <= took' /\ took' <= Len(Input)
           /\ \A d \in Dests : Given(copy[d], Owed(d) \o Part(took, took'), copy'[d], Owed(d)', d \in Fit')

\* The sizes that the steps of uvtee compare.
LEMMA TookType ==
  ASSUME TeeKept, PipeOK
  PROVE  took \in Nat /\ Len(Input) \in Nat /\ Len(pipe) \in Nat /\ took <= Len(Input)
<1>1. took \in Nat /\ Len(Input) \in Nat /\ Len(pipe) \in Nat
      /\ took + Len(pipe) <= Len(Input)
  BY PartAll, LenProperties DEF TeeKept, TeeTyped, PipeOK
<1>2. took <= Len(Input)
  BY ONLY <1>1
<1> QED
  BY <1>1, <1>2

\* The steps that touch no stream.
LEMMA QuietStep ==
  ASSUME TeeKept, PipeOK, UNCHANGED <<stdinOpen, dst, batch, reads, took, copy>>,
         tee' = "exited" => tee = "exited", tee = "killed" => tee' = "killed",
         room'["file"] = room["file"], outGone => outGone'
  PROVE  (\A d \in Dests : Dest(d)') /\ FileKept' /\ Serving
<1>1. took \in Nat /\ took <= Len(Input)
  BY TookType
<1>2. Fit' \subseteq Fit
  BY DEF Fit
<1>3. ASSUME NEW d \in Dests
      PROVE  Dest(d)'
             /\ Given(copy[d], Owed(d) \o Part(took, took), copy[d], Owed(d), d \in Fit')
  <2>1. DestOK(dst[d], copy[d], reads, took, stdinOpen, tee = "exited", d \in batch, d \in Fit)
    BY DEF TeeKept, Dest
  <2>2. d \in Fit' => d \in Fit
    BY <1>2
  <2>3. /\ DestOK(dst[d], copy[d], reads, took, stdinOpen, tee' = "exited", d \in batch, d \in Fit')
        /\ Given(copy[d], Bytes(dst[d].q) \o Part(took, took), copy[d], Bytes(dst[d].q), d \in Fit')
    <3>1. PICK e, e2, b, f, f2 : /\ e = (tee = "exited") /\ e2 = (tee' = "exited") /\ b = (d \in batch)
                                 /\ f = (d \in Fit) /\ f2 = (d \in Fit')
      OBVIOUS
    <3>t. PICK t \in Nat : t = took
      BY <1>1
    <3>2. /\ DestOK(dst[d], copy[d], reads, t, stdinOpen, e, b, f)
          /\ (e2 => e) /\ (b => b) /\ (f2 => f)
      BY <2>1, <2>2, <3>1, <3>t
    <3>3. /\ DestOK(dst[d], copy[d], reads, t, stdinOpen, e2, b, f2)
          /\ Given(copy[d], Bytes(dst[d].q) \o Part(t, t), copy[d], Bytes(dst[d].q), f2)
      BY ONLY t \in Nat, <3>2, StillOK
    <3> QED
      BY ONLY <3>1, <3>3, <3>t
  <2> QED
    BY <2>3 DEF Dest, Owed
<1>4. FileKept'
  BY DEF TeeKept, FileKept
<1>5. \A d \in Dests : Given(copy[d], Owed(d) \o Part(took, took'), copy'[d], Owed(d)', d \in Fit')
  BY <1>3 DEF Owed
<1>6. took <= took' /\ took' <= Len(Input)
  BY <1>1
<1> QED
  BY <1>2, <1>3, <1>4, <1>5, <1>6 DEF Serving

\* epoll_wait returns: only the events change.
LEMMA PollStep ==
  ASSUME TeeKept, PipeOK, PollReturns(pipe, WriterGone), UNCHANGED <<cat, pipe>>
  PROVE  TeeKept' /\ Serving
<1>1. (\A d \in Dests : Dest(d)') /\ FileKept' /\ Serving
  <2>1. /\ UNCHANGED <<stdinOpen, dst, batch, reads, took, copy>>
        /\ (tee' = "exited" => tee = "exited") /\ (tee = "killed" => tee' = "killed")
        /\ room'["file"] = room["file"] /\ (outGone => outGone')
    BY DEF PollReturns
  <2> QED
    BY <2>1, QuietStep
<1>2. TeeTyped'
  <2>1. Batch > 0 /\ Batch \in 0 .. Batch
    OBVIOUS
  <2>2. hup' \in BOOLEAN
    BY DEF PollReturns, WriterGone
  <2> QED
    BY <2>1, <2>2 DEF TeeKept, TeeTyped, PollReturns, Reading, TeeStates
<1>3. TeeTurns'
  BY DEF TeeKept, TeeTurns, PollReturns, WriterGone
<1> QED
  BY <1>1, <1>2, <1>3 DEF TeeKept

\* A read that would block changes no destination.
LEMMA ReadNothingStep ==
  ASSUME TeeKept, PipeOK, ReadNothing(pipe, WriterGone), UNCHANGED <<cat, pipe>>
  PROVE  TeeKept' /\ Serving
<1>1. (\A d \in Dests : Dest(d)') /\ FileKept' /\ Serving
  <2>1. /\ UNCHANGED <<stdinOpen, dst, batch, reads, took, copy>>
        /\ (tee' = "exited" => tee = "exited") /\ (tee = "killed" => tee' = "killed")
        /\ room'["file"] = room["file"] /\ (outGone => outGone')
    BY DEF ReadNothing, Reading
  <2> QED
    BY <2>1, QuietStep
<1>2. TeeTyped'
  BY DEF TeeKept, TeeTyped, ReadNothing, Reading, TeeStates
<1>3. TeeTurns'
  BY DEF TeeKept, TeeTurns, ReadNothing, WriterGone, Reading
<1> QED
  BY <1>1, <1>2, <1>3 DEF TeeKept

\* The loop cannot poll the file: the program aborts, and touches nothing.
LEMMA AbortStep ==
  ASSUME TeeKept, PipeOK, Abort, UNCHANGED <<cat, pipe>>
  PROVE  TeeKept' /\ Serving
<1>1. (\A d \in Dests : Dest(d)') /\ FileKept' /\ Serving
  <2>1. /\ UNCHANGED <<stdinOpen, dst, batch, reads, took, copy>>
        /\ (tee' = "exited" => tee = "exited") /\ (tee = "killed" => tee' = "killed")
        /\ room'["file"] = room["file"] /\ (outGone => outGone')
    BY DEF Abort
  <2> QED
    BY <2>1, QuietStep
<1>2. TeeTyped'
  BY DEF TeeKept, TeeTyped, Abort, Reading, TeeStates
<1>3. TeeTurns'
  BY DEF TeeKept, TeeTurns, Abort, WriterGone
<1> QED
  BY <1>1, <1>2, <1>3 DEF TeeKept

\* Whoever reads standard output.
LEMMA OutStep ==
  ASSUME TeeKept, PipeOK, OutIsRead \/ OutLeaves, UNCHANGED <<cat, pipe, ignored>>
  PROVE  TeeKept' /\ Serving
<1>1. (\A d \in Dests : Dest(d)') /\ FileKept' /\ Serving
  <2>1. /\ UNCHANGED <<stdinOpen, dst, batch, reads, took, copy>>
        /\ (tee' = "exited" => tee = "exited") /\ (tee = "killed" => tee' = "killed")
        /\ room'["file"] = room["file"] /\ (outGone => outGone')
    BY DEF OutIsRead, OutLeaves, TeeKept, TeeTyped, Dests
  <2> QED
    BY <2>1, QuietStep
<1>2. TeeTyped'
  BY DEF TeeKept, TeeTyped, OutIsRead, OutLeaves, Reading, TeeStates
<1>3. TeeTurns'
  BY DEF TeeKept, TeeTurns, OutIsRead, OutLeaves, WriterGone, Deadly
<1> QED
  BY <1>1, <1>2, <1>3 DEF TeeKept

\* What write() returns.
LEMMA OutcomeFacts ==
  ASSUME TeeTyped, NEW d \in Dests, NEW len \in Nat, NEW n, n = Outcome(d, len)
  PROVE  /\ n \in -1 .. len
         /\ (n > 0 => ~Unable(d) /\ room[d] > 0) /\ (~Unable(d) => n >= 0)
         /\ room[d] \in Nat /\ room[d] - (IF n < 0 THEN 0 ELSE n) \in Nat
         /\ room[d] - (IF n < 0 THEN 0 ELSE n) <= room[d]
         /\ (room[d] - (IF n < 0 THEN 0 ELSE n) > 0 /\ ~Unable(d) => n = len)
<1>1. PICK r : r = room[d] /\ r \in Nat
  BY DEF TeeTyped
<1>2. n = IF Unable(d) THEN -1 ELSE IF len < r THEN len ELSE r
  BY <1>1 DEF Outcome, Least
<1>3. r \in Nat
  BY <1>1
<1>4. CASE Unable(d)
  <2>1. n = -1
    BY <1>2, <1>4
  <2>2. n \in -1 .. len /\ n < 0 /\ ~(n > 0) /\ r - 0 \in Nat /\ r - 0 <= r
    BY ONLY <1>3, <2>1, len \in Nat
  <2> QED
    BY <1>1, <1>4, <2>2
<1>5. CASE ~Unable(d) /\ len < r
  <2>1. n = len
    BY <1>2, <1>5
  <2>2. n \in -1 .. len /\ ~(n < 0) /\ n >= 0 /\ r > 0 /\ r - n \in Nat /\ r - n <= r
    BY ONLY <1>3, <1>5, <2>1, len \in Nat
  <2> QED
    BY <1>1, <1>5, <2>1, <2>2
<1>6. CASE ~Unable(d) /\ ~(len < r)
  <2>1. n = r
    BY <1>2, <1>6
  <2>2. n \in -1 .. len /\ ~(n < 0) /\ n >= 0 /\ r - n \in Nat /\ r - n <= r /\ ~(r - n > 0)
    BY ONLY <1>3, <1>6, <2>1, len \in Nat
  <2> QED
    BY <1>1, <1>6, <2>1, <2>2
<1> QED
  BY <1>4, <1>5, <1>6

\* While standard input is open a stream that is not has never had a request.
LEMMA OnlyOpenHasRequests ==
  ASSUME NEW s, NEW c, NEW n, NEW t, NEW ended, NEW inBatch, NEW fits,
         DestOK(s, c, n, t, TRUE, ended, inBatch, fits), s.q # <<>>
  PROVE  s.fd
<1> SUFFICES ASSUME ~s.fd PROVE FALSE
  OBVIOUS
<1>1. s \in Stream(Byte) /\ ~(Total(s) > 0)
  BY DEF DestOK, Sound
<1>2. s.q = <<>>
  BY ONLY <1>1, StreamFacts
<1> QED
  BY <1>2

\* uv__stream_io on e, whatever made the loop come to it.
LEMMA StreamStep ==
  ASSUME TeeKept, PipeOK, NEW e \in Dests, StreamIO(e), stdinOpen, tee # "killed",
         tee # "exited", tee' # "exited",
         UNCHANGED <<stdinOpen, reads, took, outGone>>, \A d \in Dests : d # e
         /\ d \in batch => d \in batch'
  PROVE  /\ \A d \in Dests : Dest(d)' /\ dst'[d].fd = dst[d].fd
         /\ FileKept' /\ Serving
         /\ dst' \in [Dests -> Stream(Byte)] /\ copy' \in [Dests -> Seq(Byte)]
         /\ room' \in [Dests -> Nat]
<1>1. PICK bytes, n :
        /\ bytes = [d \in Dests |-> IF d = e /\ dst[d].q # <<>> THEN Head(dst[d].q).rest ELSE <<>>]
        /\ n = [d \in Dests |-> IF bytes[d] = <<>> THEN 0 ELSE Outcome(d, Len(bytes[d]))]
        /\ dst' = [dst EXCEPT ![e] = Flushed(@, n[e])]
        /\ Wrote(n, bytes)
  BY DEF StreamIO
<1>2. PICK t \in Nat : t = took /\ t <= Len(Input)
  BY TookType
<1>3. TeeTyped
      /\ \A d \in Dests : DestOK(dst[d], copy[d], reads, t, TRUE, FALSE, d \in batch, d \in Fit)
  <2>1. (tee = "exited") = FALSE /\ stdinOpen = TRUE
    BY DEF TeeKept, TeeTyped
  <2>2. \A d \in Dests : DestOK(dst[d], copy[d], reads, took, stdinOpen, tee = "exited", d \in batch, d \in Fit)
    BY DEF TeeKept, Dest
  <2> QED
    BY <1>2, <2>1, <2>2 DEF TeeKept
<1>4. \A d \in Dests : copy'[d] = copy[d] \o SubSeq(bytes[d], 1, n[d])
                       /\ room'[d] = room[d] - (IF n[d] < 0 THEN 0 ELSE n[d])
  BY <1>1 DEF Wrote
<1>5. ASSUME NEW d \in Dests, d # e
      PROVE  dst'[d] = dst[d] /\ copy'[d] = copy[d] /\ room'[d] = room[d]
  <2>1. bytes[d] = <<>> /\ n[d] = 0 /\ dst'[d] = dst[d]
    BY <1>1, <1>3, <1>5 DEF TeeTyped
  <2>2. SubSeq(<<>>, 1, 0) = <<>> /\ copy[d] \in Seq(Byte) /\ room[d] \in Nat
    BY <1>3, SubSeqEmpty DEF TeeTyped
  <2>3. copy[d] \o <<>> = copy[d] /\ room[d] - 0 = room[d]
    BY <2>2, ConcatEmptySeq
  <2> QED
    BY <1>4, <2>1, <2>2, <2>3
<1>6. PICK s, c, b, k, v : s = dst[e] /\ c = copy[e] /\ b = bytes[e] /\ k = n[e]
           /\ v = dst'[e]
  BY SMTT(60)
<1>7. /\ v = Flushed(s, k) /\ b = IF s.q # <<>> THEN Head(s.q).rest ELSE <<>>
      /\ k = IF b = <<>> THEN 0 ELSE Outcome(e, Len(b))
      /\ copy'[e] = c \o SubSeq(b, 1, k) /\ room'[e] = room[e] - (IF k < 0 THEN 0 ELSE k)
  <2> HIDE DEF Flushed
  <2> QED
    BY <1>1, <1>3, <1>4, <1>6 DEF TeeTyped
<1>8. b \in Seq(Byte) /\ Len(b) \in Nat
  <2>1. s \in Stream(Byte)
    BY <1>3, <1>6 DEF TeeTyped
  <2>2. s.q \in Seq(Request(Byte))
    BY <2>1 DEF Stream
  <2>3. s.q # <<>> => Head(s.q).rest \in Seq(Byte)
    <3>1. s.q # <<>> => Head(s.q) \in Request(Byte)
      BY ONLY <2>2, HeadAndTail
    <3> QED
      BY <3>1 DEF Request
  <2>4. b \in Seq(Byte)
    BY <1>7, <2>3, EmptySeq
  <2> QED
    BY <2>4, LenProperties
<1>9. /\ k \in -1 .. Len(b) /\ (s.q = <<>> => k = 0) /\ room[e] \in Nat
      /\ room'[e] \in Nat /\ room'[e] <= room[e]
      /\ (k > 0 => ~Unable(e) /\ room[e] > 0) /\ (~Unable(e) => k >= 0)
  <2>1. room[e] \in Nat
    BY <1>3 DEF TeeTyped
  <2>2. CASE b = <<>>
    <3>1. k = 0 /\ room'[e] = room[e] - 0
      BY <1>7, <2>2
    <3>2. room[e] - 0 = room[e] /\ 0 \in -1 .. Len(b)
      BY <1>8, <2>1
    <3> QED
      BY <2>1, <3>1, <3>2
  <2>3. CASE b # <<>>
    <3>1. PICK len \in Nat : len = Len(b)
      BY <1>8
    <3>2. k = Outcome(e, len)
      BY <1>7, <2>3, <3>1
    <3>3. /\ k \in -1 .. len
          /\ (k > 0 => ~Unable(e) /\ room[e] > 0) /\ (~Unable(e) => k >= 0)
          /\ room[e] - (IF k < 0 THEN 0 ELSE k) \in Nat
          /\ room[e] - (IF k < 0 THEN 0 ELSE k) <= room[e]
      BY ONLY <1>3, <3>2, len \in Nat, e \in Dests, OutcomeFacts
    <3>4. s.q # <<>>
      BY <1>7, <2>3
    <3> QED
      BY <1>7, <2>1, <3>1, <3>3, <3>4
  <2> QED
    BY <2>2, <2>3
<1>b. PICK inB, inB2 : inB = (e \in batch) /\ inB2 = (e \in batch')
  OBVIOUS
<1>f. PICK f : f = (e \in Fit)
  OBVIOUS
<1>g. PICK f2 : f2 = (e \in Fit')
  OBVIOUS
<1>10. inB = (e \in batch) /\ inB2 = (e \in batch') /\ f = (e \in Fit) /\ f2 = (e \in Fit')
  BY <1>b, <1>f, <1>g
<1>11. DestOK(s, c, reads, t, TRUE, FALSE, inB, f)
  BY <1>3, <1>6, <1>10
<1>12. (f <=> s.fd /\ IF e = "file" THEN room[e] > 0 ELSE ~outGone)
       /\ (f2 <=> v.fd /\ IF e = "file" THEN room'[e] > 0 ELSE ~outGone)
  BY <1>6, <1>10 DEF Fit
<1>13. k > 0 => f
  <2>1. k > 0 => s.q # <<>>
    BY <1>9
  <2>2. k > 0 => s.fd
    BY ONLY <1>11, <2>1, OnlyOpenHasRequests
  <2>3. ~Unable(e) => (e = "file" \/ ~outGone)
    BY DEF Unable
  <2> QED
    BY <1>9, <1>12, <2>2, <2>3
<1>14. v.fd = s.fd /\ Total(v) = Total(s)
  <2>1. PICK m \in -1 .. Len(b) : m = k
    BY <1>9
  <2>2. Sound(s) /\ (s.q = <<>> => m = 0) /\ v = Flushed(s, m)
    BY <1>7, <1>9, <1>11, <2>1 DEF DestOK
  <2> QED
    BY ONLY <1>7, <2>1, <2>2, FlushedFacts
<1>15. f2 => f /\ k >= 0
  <2>1. room[e] > 0 /\ e = "file" => ~Unable(e)
    BY DEF Unable
  <2>2. ~outGone /\ e # "file" => ~Unable(e)
    BY DEF Unable
  <2>3. room'[e] > 0 => room[e] > 0
    BY <1>9
  <2> QED
    BY <1>9, <1>12, <1>14, <2>1, <2>2, <2>3
<1>16. /\ DestOK(v, c \o SubSeq(b, 1, k), reads, t, TRUE, FALSE, inB2, f2)
       /\ Given(c, Bytes(s.q) \o Part(t, t), c \o SubSeq(b, 1, k), Bytes(v.q), f2)
       /\ Total(v) = Total(s)
       /\ (s.size = 0 => v.size = 0 /\ ~v.pollout)
       /\ Len(c) <= Len(c \o SubSeq(b, 1, k))
  <2>1. PICK m \in Int : m = k /\ m \in -1 .. Len(b)
    BY <1>8, <1>9
  <2>2. b = IF s.q # <<>> THEN Head(s.q).rest ELSE <<>>
    BY <1>7
  <2>3. (s.q = <<>> => m = 0) /\ v = Flushed(s, m) /\ (m > 0 => f) /\ (f2 => f /\ m >= 0)
    BY <1>7, <1>9, <1>13, <1>15, <2>1
  <2>4. /\ DestOK(v, c \o SubSeq(b, 1, m), reads, t, TRUE, FALSE, inB2, f2)
        /\ Given(c, Bytes(s.q) \o Part(t, t), c \o SubSeq(b, 1, m), Bytes(v.q), f2)
        /\ Total(v) = Total(s)
        /\ (s.size = 0 => v.size = 0 /\ ~v.pollout)
        /\ Len(c) <= Len(c \o SubSeq(b, 1, m))
    <3>1. t <= Len(Input)
      BY <1>2
    <3>2. PICK nr, cc : nr = reads /\ cc = c \o SubSeq(b, 1, m)
      OBVIOUS
    <3>3. DestOK(s, c, nr, t, TRUE, FALSE, inB, f)
      BY <1>11, <3>2
    <3>5. IsFlush(s, b, m, v) /\ IsGiven(c, b, m, cc) /\ m \in Int
      BY <2>1, <2>2, <2>3, <3>2 DEF IsFlush, IsGiven
    <3>6. FlushCase(s, c, nr, t, inB, f, b, m, v, cc, inB2, f2)
      BY ONLY t \in Nat, m \in Int, <3>1, <3>3, <3>5, <2>3 DEF FlushCase
    <3>4. /\ DestOK(v, cc, nr, t, TRUE, FALSE, inB2, f2)
          /\ Given(c, Bytes(s.q) \o Part(t, t), cc, Bytes(v.q), f2)
          /\ Total(v) = Total(s)
          /\ (s.size = 0 => v.size = 0 /\ ~v.pollout)
          /\ Len(c) <= Len(cc)
      <4>1. DestOK(v, cc, nr, t, TRUE, FALSE, inB2, f2)
        BY ONLY <3>6, FlushOK
      <4>2. Given(c, Bytes(s.q) \o Part(t, t), cc, Bytes(v.q), f2)
        BY ONLY <3>6, FlushOK
      <4>3. Total(v) = Total(s)
        BY ONLY <1>14
      <4>4. (s.size = 0 => v.size = 0 /\ ~v.pollout)
        BY ONLY <3>6, FlushOK
      <4>5. Len(c) <= Len(cc)
        BY ONLY <3>6, FlushOK
      <4> QED
        BY ONLY <4>1, <4>2, <4>3, <4>4, <4>5
    <3> QED
      BY ONLY <3>2, <3>4
  <2> QED
    BY ONLY <2>1, <2>4
<1>17. Dest(e)'
       /\ Given(copy[e], Owed(e) \o Part(took, took'), copy'[e], Owed(e)', e \in Fit')
  <2>1. tee' = "exited" <=> FALSE
    OBVIOUS
  <2>2. (tee' = "exited") = FALSE /\ stdinOpen' = TRUE /\ reads' = reads /\ took' = t
        /\ took = t
    BY <1>2, <1>3, <2>1 DEF TeeTyped
  <2>3. DestOK(dst'[e], copy'[e], reads', took', stdinOpen', tee' = "exited", e \in batch', e \in Fit')
    BY <1>6, <1>7, <1>10, <1>16, <2>2
  <2>4. Given(copy[e], Bytes(dst[e].q) \o Part(took, took'), copy'[e], Bytes(dst'[e].q), e \in Fit')
    BY <1>6, <1>7, <1>10, <1>16, <2>2
  <2> QED
    BY <2>3, <2>4 DEF Dest, Owed
<1>18. ASSUME NEW d \in Dests, d # e
       PROVE  Dest(d)'
              /\ Given(copy[d], Owed(d) \o Part(took, took'), copy'[d], Owed(d)', d \in Fit')
  <2>1. PICK b1, b2, f1, f3 : b1 = (d \in batch) /\ b2 = (d \in batch') /\ f1 = (d \in Fit)
             /\ f3 = (d \in Fit')
    OBVIOUS
  <2>2. DestOK(dst[d], copy[d], reads, t, TRUE, FALSE, b1, f1)
    BY <1>3, <2>1
  <2>3. (b1 => b2) /\ (f3 => f1) /\ (FALSE => FALSE)
    BY <1>5, <1>18, <2>1 DEF Fit
  <2>4. /\ DestOK(dst[d], copy[d], reads, t, TRUE, FALSE, b2, f3)
        /\ Given(copy[d], Bytes(dst[d].q) \o Part(t, t), copy[d], Bytes(dst[d].q), f3)
    <3>1. PICK open, ended : open = TRUE /\ ended = FALSE
      OBVIOUS
    <3>2. DestOK(dst[d], copy[d], reads, t, open, ended, b1, f1) /\ (ended => ended)
      BY <2>2, <3>1
    <3>3. /\ DestOK(dst[d], copy[d], reads, t, open, ended, b2, f3)
          /\ Given(copy[d], Bytes(dst[d].q) \o Part(t, t), copy[d], Bytes(dst[d].q), f3)
      BY ONLY t \in Nat, <2>3, <3>2, StillOK
    <3> QED
      BY ONLY <3>1, <3>3
  <2>5. (tee' = "exited") = FALSE /\ stdinOpen' = TRUE /\ reads' = reads /\ took' = t
        /\ took = t
    BY <1>2, <1>3 DEF TeeTyped
  <2>6. DestOK(dst'[d], copy'[d], reads', took', stdinOpen', tee' = "exited", d \in batch', d \in Fit')
    BY <1>5, <1>18, <2>1, <2>4, <2>5
  <2>7. Given(copy[d], Bytes(dst[d].q) \o Part(took, took'), copy'[d], Bytes(dst'[d].q), d \in Fit')
    BY <1>5, <1>18, <2>1, <2>4, <2>5
  <2> QED
    BY <2>6, <2>7 DEF Dest, Owed
<1>19. \A d \in Dests : Dest(d)'
  BY <1>17, <1>18
<1>20. \A d \in Dests : dst'[d].fd = dst[d].fd
  BY <1>5, <1>6, <1>14
<1>21. dst' \in [Dests -> Stream(Byte)] /\ copy' \in [Dests -> Seq(Byte)]
       /\ room' \in [Dests -> Nat]
  <2>1. \A d \in Dests : dst'[d] \in Stream(Byte) /\ copy'[d] \in Seq(Byte)
    BY <1>19 DEF Dest, DestOK, Sound, Ordered
  <2>2. \A d \in Dests : room'[d] \in Nat
    <3>1. \A d \in Dests : room[d] \in Nat
      BY <1>3 DEF TeeTyped
    <3> QED
      BY <1>5, <1>9, <3>1
  <2>3. /\ dst' = [d \in Dests |-> dst'[d]] /\ copy' = [d \in Dests |-> copy'[d]]
        /\ room' = [d \in Dests |-> room'[d]]
    <3>1. dst' = [d \in Dests |-> dst'[d]]
      BY <1>1, <1>3 DEF TeeTyped
    <3> QED
      BY <1>1, <3>1 DEF Wrote
  <2> QED
    BY <2>1, <2>2, <2>3
<1>a. Total(dst'["file"]) > 0 \/ copy'["file"] = <<>>
  <2>0. "file" \in Dests
    BY DEF Dests
  <2>1. Total(dst["file"]) > 0 \/ copy["file"] = <<>>
    BY DEF TeeKept, FileKept
  <2>2. CASE e # "file"
    BY <1>5, <2>0, <2>1, <2>2
  <2>3. CASE e = "file" /\ Total(s) > 0
    BY <1>6, <1>14, <2>3
  <2>4. CASE e = "file" /\ ~(Total(s) > 0)
    <3>1. s \in Stream(Byte) /\ c \in Seq(Byte)
      BY <1>11 DEF DestOK, Sound, Ordered
    <3>2. s.q = <<>>
      BY ONLY <2>4, <3>1, StreamFacts
    <3>3. b = <<>> /\ k = 0 /\ c = <<>>
      BY <1>6, <1>7, <2>1, <2>4, <3>2
    <3>4. SubSeq(<<>>, 1, 0) = <<>> /\ <<>> \o <<>> = <<>>
      BY SubSeqEmpty, EmptySeq, ConcatEmptySeq
    <3> QED
      BY <1>7, <2>4, <3>3, <3>4
  <2> QED
    BY <2>2, <2>3, <2>4
<1>22. FileKept'
  <2> SUFFICES ASSUME room'["file"] > 0
               PROVE  /\ dst'["file"].size = 0 /\ ~dst'["file"].pollout
                      /\ dst'["file"].fd \/ Total(dst'["file"]) > 0 => Len(copy'["file"]) = took
    BY <1>a DEF FileKept
  <2>0. "file" \in Dests
    BY DEF Dests
  <2>1. CASE e # "file"
    BY <1>5, <2>0, <2>1 DEF TeeKept, FileKept
  <2>2. CASE e = "file"
    <3>1. room["file"] > 0
      BY <1>9, <2>2
    <3>2. s.size = 0 /\ ~s.pollout /\ (s.fd \/ Total(s) > 0 => Len(c) = t)
      BY <1>2, <1>6, <2>2, <3>1 DEF TeeKept, FileKept
    <3>3. v.size = 0 /\ ~v.pollout /\ Total(v) = Total(s) /\ v.fd = s.fd
          /\ Len(c) <= Len(copy'[e])
      BY <1>7, <1>14, <1>16, <3>2
    <3>4. Len(copy'[e]) <= t /\ Len(copy'[e]) \in Nat
      <4>1. Ordered(copy'[e], Bytes(v.q), t, f2)
        BY <1>7, <1>16 DEF DestOK
      <4>2. Len(copy'[e]) + Len(Bytes(v.q)) <= t /\ Len(copy'[e]) \in Nat
            /\ Len(Bytes(v.q)) \in Nat
        BY <4>1, LenProperties DEF Ordered
      <4>3. PICK x \in Nat, y \in Nat : x = Len(copy'[e]) /\ y = Len(Bytes(v.q))
        BY <4>2
      <4>4. x + y <= t
        BY ONLY <4>2, <4>3
      <4>5. x <= t
        BY ONLY <4>4, x \in Nat, y \in Nat, t \in Nat
      <4> QED
        BY ONLY SMTT(30), <4>3, <4>5
    <3>5. Len(c) \in Nat /\ (Len(c) = t => Len(copy'[e]) = t)
      <4>1. Len(c) \in Nat
        BY <1>11, LenProperties DEF DestOK, Ordered
      <4> QED
        BY ONLY <4>1, <3>3, <3>4, t \in Nat
    <3> QED
      BY <1>2, <1>6, <2>2, <3>2, <3>3, <3>5
  <2> QED
    BY <2>1, <2>2
<1>23. Serving
  <2>1. \A d \in Dests : d \in Fit' => d \in Fit
    <3>1. e \in Fit' => e \in Fit
      BY <1>10, <1>15
    <3>2. \A d \in Dests : d # e /\ d \in Fit' => d \in Fit
      BY <1>5 DEF Fit
    <3> QED
      BY <3>1, <3>2
  <2>2. Fit' \subseteq Fit
    BY <2>1 DEF Fit
  <2>3. took <= took' /\ took' <= Len(Input)
    BY <1>2
  <2> QED
    BY <1>17, <1>18, <2>2, <2>3 DEF Serving
<1> QED
  BY <1>19, <1>20, <1>21, <1>22, <1>23

\* uv__run_pending: a destination that was fed is flushed.
LEMMA FlushPendingStep ==
  ASSUME TeeKept, PipeOK, NEW e \in Dests, FlushPending(e), UNCHANGED <<cat, pipe>>
  PROVE  TeeKept' /\ Serving
<1>1. stdinOpen
  BY DEF TeeKept, TeeTurns, FlushPending
<1>2. /\ \A d \in Dests : Dest(d)' /\ dst'[d].fd = dst[d].fd
      /\ FileKept' /\ Serving
      /\ dst' \in [Dests -> Stream(Byte)] /\ copy' \in [Dests -> Seq(Byte)]
      /\ room' \in [Dests -> Nat]
  <2>1. /\ StreamIO(e) /\ tee # "killed" /\ tee # "exited" /\ tee' # "exited"
        /\ UNCHANGED <<stdinOpen, reads, took, outGone>>
        /\ \A d \in Dests : d # e /\ d \in batch => d \in batch'
    BY DEF FlushPending
  <2> QED
    BY ONLY TeeKept, PipeOK, e \in Dests, <1>1, <2>1, StreamStep
<1>3. TeeTyped'
  BY <1>2 DEF TeeKept, TeeTyped, FlushPending, Reading
<1>4. TeeTurns'
  BY <1>1, <1>2 DEF TeeKept, TeeTurns, FlushPending, WriterGone, Dests
<1> QED
  BY <1>2, <1>3, <1>4 DEF TeeKept

\* A destination that can be written again is flushed.
LEMMA FlushEventStep ==
  ASSUME TeeKept, PipeOK, FlushEvent, UNCHANGED <<cat, pipe>>
  PROVE  TeeKept' /\ Serving
<1>1. stdinOpen
  BY DEF TeeKept, TeeTurns, FlushEvent
<1>2. /\ \A d \in Dests : Dest(d)' /\ dst'[d].fd = dst[d].fd
      /\ FileKept' /\ Serving
      /\ dst' \in [Dests -> Stream(Byte)] /\ copy' \in [Dests -> Seq(Byte)]
      /\ room' \in [Dests -> Nat]
  <2>1. PICK e \in Dests : e = "stdout"
    BY DEF Dests
  <2>2. /\ StreamIO(e) /\ tee # "killed" /\ tee # "exited" /\ tee' # "exited"
        /\ UNCHANGED <<stdinOpen, reads, took, outGone>>
        /\ \A d \in Dests : d # e /\ d \in batch => d \in batch'
    BY <2>1 DEF FlushEvent
  <2> QED
    BY ONLY TeeKept, PipeOK, e \in Dests, <1>1, <2>2, StreamStep
<1>3. TeeTyped'
  BY <1>2 DEF TeeKept, TeeTyped, FlushEvent, Reading
<1>4. TeeTurns'
  BY <1>1, <1>2 DEF TeeKept, TeeTurns, FlushEvent, WriterGone, Dests
<1> QED
  BY <1>2, <1>3, <1>4 DEF TeeKept

\* A read takes what comes next in the input, and leaves what follows it.
PipeMoves == took' + Len(pipe') = took + Len(pipe) /\ Len(pipe') <= Len(pipe)

\* Reading takes the front of the pipe, and what is left still comes next.
LEMMA PipeTaken ==
  ASSUME TeeKept, PipeOK, pipe # <<>>, NEW len, len = Least(BufLen, Len(pipe))
  PROVE  /\ len \in Nat /\ 0 < len /\ took + len \in Nat /\ took < took + len
         /\ took + len <= Len(Input)
         /\ (len < BufLen => len = Len(pipe))
         /\ SubSeq(pipe, 1, len) = Part(took, took + len) /\ Len(SubSeq(pipe, 1, len)) = len
         /\ (pipe' = SubSeq(pipe, len + 1, Len(pipe)) /\ took' = took + len => PipeOK' /\ PipeMoves)
         /\ (len < BufLen => SubSeq(pipe, len + 1, Len(pipe)) = <<>>)
<1>1. PICK t \in Nat, p \in Nat, all \in Nat : t = took /\ p = Len(pipe)
           /\ all = Len(Input) /\ t + p <= all
  BY TookType DEF PipeOK
<1>2. p # 0
  BY <1>1, EmptySeq DEF PipeOK
<1>3. /\ len \in Nat /\ 0 < len /\ len <= p /\ t + len \in Nat /\ t < t + len
      /\ t + len <= all
      /\ t + p \in Nat /\ t + len <= t + p /\ t <= t + p /\ (len < BufLen => len = p)
      /\ (t + p) - t = p /\ p <= p /\ 0 <= len /\ t + 0 = t /\ 0 + 1 = 1 /\ t <= t + len
      /\ (t + len) - t = len /\ (t + p) - (t + len) = p - len /\ p - len \in Nat
      /\ (t + len) + (p - len) = t + p
  <2>1. len = IF BufLen < p THEN BufLen ELSE p
    BY <1>1 DEF Least
  <2>2. t \in Nat /\ p \in Nat /\ all \in Nat /\ t + p <= all /\ p # 0 /\ BufLen \in Nat
        /\ BufLen # 0
    BY <1>1, <1>2, TeeAssumption
  <2>3. len \in Nat /\ len > 0 /\ len <= p /\ (len < BufLen => len = p)
    BY ONLY <2>1, <2>2
  <2> QED
    BY ONLY <2>2, <2>3
<1>4. pipe = Part(t, t + p)
  BY <1>1 DEF PipeOK
<1>5. Cut(t, t + p, 0, len) /\ Cut(t, t + p, len, p)
  <2>1. PICK u \in Nat, n \in Nat : u = t + p /\ n = len
    BY <1>3
  <2>2. t <= u /\ u <= Len(Input) /\ 0 <= n /\ n <= u - t /\ n <= p /\ p <= u - t
    BY <1>1, <1>3, <2>1
  <2>3. Cut(t, u, 0, n)
    BY ONLY t \in Nat, u \in Nat, n \in Nat, <2>2, 0 \in Nat, PartCut
  <2>4. Cut(t, u, n, p)
    BY ONLY t \in Nat, u \in Nat, n \in Nat, p \in Nat, <2>2, PartCut
  <2> QED
    BY ONLY <2>1, <2>3, <2>4
<1>6. SubSeq(pipe, 1, len) = Part(t, t + len)
      /\ SubSeq(pipe, len + 1, p) = Part(t + len, t + p)
  <2>1. SubSeq(pipe, 0 + 1, len) = Part(t + 0, t + len)
        /\ SubSeq(pipe, len + 1, p) = Part(t + len, t + p)
    BY <1>4, <1>5 DEF Cut
  <2> QED
    BY <1>3, <2>1
<1>7. Len(Part(t, t + len)) = len
  <2>1. PICK u \in Nat : u = t + len
    BY <1>3
  <2>2. t <= u /\ u <= Len(Input)
    BY <1>1, <1>3, <2>1
  <2>3. Len(Part(t, u)) = u - t
    BY ONLY t \in Nat, u \in Nat, <2>2, PartType
  <2> QED
    BY <1>3, <2>1, <2>3
<1>8. Part(t + len, t + p) \in Seq(Byte) /\ Len(Part(t + len, t + p)) = p - len
  <2>1. PICK u \in Nat, v \in Nat : u = t + len /\ v = t + p
    BY <1>3
  <2>2. u <= v /\ v <= Len(Input)
    BY <1>1, <1>3, <2>1
  <2>3. Part(u, v) \in Seq(Byte) /\ Len(Part(u, v)) = v - u
    BY ONLY u \in Nat, v \in Nat, <2>2, PartType
  <2> QED
    BY <1>3, <2>1, <2>3
<1>9. ASSUME pipe' = SubSeq(pipe, len + 1, Len(pipe)), took' = took + len PROVE PipeOK'
             /\ PipeMoves
  <2>1. pipe' = Part(t + len, t + p) /\ took' = t + len /\ Len(pipe') = p - len
    BY <1>1, <1>6, <1>8, <1>9
  <2>2. took' + Len(pipe') = t + p
    BY <1>3, <2>1
  <2>3. pipe' = Part(took', took' + Len(pipe')) /\ took' + Len(pipe') <= Len(Input)
        /\ pipe' \in Seq(Byte)
    BY <1>1, <1>8, <2>1, <2>2
  <2>4. p - len <= p
    BY <1>3
  <2> QED
    BY <1>1, <2>1, <2>2, <2>3, <2>4 DEF PipeOK, Part, PipeMoves
<1>10. len < BufLen => SubSeq(pipe, len + 1, Len(pipe)) = <<>>
  <2>1. len < BufLen => t + len = t + p
    BY <1>3
  <2>2. Part(t + p, t + p) = <<>>
    BY <1>3, PartNone
  <2> QED
    BY <1>1, <1>6, <2>1, <2>2
<1> QED
  BY <1>1, <1>3, <1>6, <1>7, <1>9, <1>10

\* What read_stdin does for one destination: the stream v after write_data.
WrittenCase(d, len, t, u, data, n, m, v, g) ==
  /\ len \in Nat /\ t \in Nat /\ u \in Nat /\ t = took /\ t < u /\ u <= Len(Input)
  /\ data = Part(t, u) /\ Len(data) = len
  /\ d \in Dests /\ n = Outcome(d, len) /\ m = (IF WritesNow(dst[d]) THEN n ELSE 0)
  /\ copy'[d] = copy[d] \o SubSeq(data, 1, m)
  /\ room'[d] = room[d] - (IF m < 0 THEN 0 ELSE m)
  /\ v = UvWrite(dst[d], [id |-> reads + 1, rest |-> data, err |-> FALSE], n)
  /\ (g <=> (dst[d].fd /\ IF d = "file" THEN room'[d] > 0 ELSE ~outGone))
\* What a destination written to has besides: an open one is counted once,
\* a file with room takes all of it, and a file not open has taken nothing.
WrittenKeeps(d, len, t, v, g) ==
  /\ (g => d \in Fit) /\ v.fd = dst[d].fd /\ room'[d] \in Nat
  /\ (d = "file" /\ room'[d] > 0 => /\ v.size = 0 /\ ~v.pollout
                                    /\ v.fd \/ Total(v) > 0 => Len(copy'[d]) = Len(copy[d]) + len
                                                               /\ Len(copy[d]) = t)
  /\ (d = "file" => Total(v) > 0 \/ copy'[d] = <<>>)

\* A destination to which the data just read is written is kept.
LEMMA WrittenTo ==
  ASSUME TeeKept, PipeOK, stdinOpen, tee # "exited", tee # "killed", batch = {},
         NEW len, NEW t, NEW u, NEW data, NEW d, NEW n, NEW m, NEW v, NEW g,
         WrittenCase(d, len, t, u, data, n, m, v, g)
  PROVE  /\ DestOK(v, copy'[d], reads + 1, u, TRUE, FALSE, FALSE, g)
         /\ Given(copy[d], Owed(d) \o data, copy'[d], Bytes(v.q), g)
         /\ WrittenKeeps(d, len, t, v, g)
<1>0. /\ len \in Nat /\ t \in Nat /\ u \in Nat /\ t = took /\ t < u /\ u <= Len(Input)
      /\ data = Part(t, u) /\ Len(data) = len
      /\ d \in Dests /\ n = Outcome(d, len) /\ m = (IF WritesNow(dst[d]) THEN n ELSE 0)
      /\ copy'[d] = copy[d] \o SubSeq(data, 1, m)
      /\ room'[d] = room[d] - (IF m < 0 THEN 0 ELSE m)
      /\ v = UvWrite(dst[d], [id |-> reads + 1, rest |-> data, err |-> FALSE], n)
      /\ (g <=> (dst[d].fd /\ IF d = "file" THEN room'[d] > 0 ELSE ~outGone))
  BY DEF WrittenCase
<1> USE <1>0
<1>1. TeeTyped /\ reads \in Nat /\ room[d] \in Nat
  BY DEF TeeKept, TeeTyped
<1>f. PICK f : f = (d \in Fit)
  OBVIOUS
<1>n. PICK nr \in Nat : nr = reads
  BY <1>1
<1>s. PICK s, c, c2 : s = dst[d] /\ c = copy[d] /\ c2 = copy'[d]
  OBVIOUS
<1>2. s = dst[d] /\ c = copy[d] /\ f = (d \in Fit) /\ nr = reads /\ c2 = copy'[d]
  BY <1>f, <1>n, <1>s
<1>3. DestOK(s, c, nr, t, TRUE, FALSE, FALSE, f)
  <2>1. (tee = "exited") = FALSE /\ stdinOpen = TRUE /\ (d \in batch) = FALSE
    BY <1>1 DEF TeeTyped
  <2>2. DestOK(dst[d], copy[d], reads, took, stdinOpen, tee = "exited", d \in batch, d \in Fit)
    BY DEF TeeKept, Dest
  <2> QED
    BY <1>2, <2>1, <2>2
<1>4. /\ n \in -1 .. len
      /\ (n > 0 => ~Unable(d) /\ room[d] > 0) /\ (~Unable(d) => n >= 0)
      /\ room[d] - (IF n < 0 THEN 0 ELSE n) \in Nat
      /\ room[d] - (IF n < 0 THEN 0 ELSE n) <= room[d]
      /\ (room[d] - (IF n < 0 THEN 0 ELSE n) > 0 /\ ~Unable(d) => n = len)
  <2>1. PICK l \in Nat, e \in Dests : l = len /\ e = d
    OBVIOUS
  <2>2. n = Outcome(e, l)
    BY <2>1
  <2>3. /\ n \in -1 .. l
        /\ (n > 0 => ~Unable(e) /\ room[e] > 0) /\ (~Unable(e) => n >= 0)
        /\ room[e] - (IF n < 0 THEN 0 ELSE n) \in Nat
        /\ room[e] - (IF n < 0 THEN 0 ELSE n) <= room[e]
        /\ (room[e] - (IF n < 0 THEN 0 ELSE n) > 0 /\ ~Unable(e) => n = l)
    BY ONLY <1>1, l \in Nat, e \in Dests, <2>2, OutcomeFacts
  <2> QED
    BY ONLY <2>1, <2>3
<1>5. m \in Int /\ n \in Int /\ room'[d] \in Nat /\ room'[d] <= room[d]
      /\ (m > 0 => n > 0 /\ s.fd) /\ (n >= 0 => m >= 0)
  <2>1. CASE WritesNow(s)
    <3>1. m = n /\ s.fd
      BY <1>2, <2>1 DEF WritesNow
    <3> QED
      BY <1>4, <3>1
  <2>2. CASE ~WritesNow(s)
    <3>1. m = 0
      BY <1>2, <2>2
    <3> QED
      BY <1>1, <1>4, <3>1
  <2> QED
    BY <2>1, <2>2
<1>6. m > 0 => f
  BY <1>2, <1>4, <1>5 DEF Fit, Unable
<1>7. g => f /\ m >= 0 /\ s.fd /\ ~Unable(d)
  <2>1. room'[d] > 0 => room[d] > 0
    BY <1>1, <1>5
  <2>2. g => ~Unable(d)
    BY <1>1, <2>1 DEF Unable
  <2> QED
    BY <1>2, <1>4, <1>5, <2>1, <2>2 DEF Fit
<1>8. IsWrite(s, nr, data, n, m, v) /\ IsGiven(c, data, m, c2)
  BY <1>2, <1>4 DEF IsWrite, IsGiven
<1>9. WriteCase(s, c, nr, t, u, FALSE, f, data, n, m, v, c2, g)
  BY <1>2, <1>3, <1>5, <1>6, <1>7, <1>8 DEF WriteCase
<1>10. DestOK(v, c2, nr + 1, u, TRUE, FALSE, FALSE, g)
  BY ONLY <1>9, WriteOK
<1>11. Given(c, Bytes(s.q) \o data, c2, Bytes(v.q), g)
  BY ONLY <1>9, WriteOK
<1>w. WriteKeeps(s, c, data, n, v, c2)
  BY ONLY <1>9, WriteOK
<1>12. v.fd = s.fd /\ (~s.fd => v = s /\ Total(v) = 0)
  BY ONLY <1>w DEF WriteKeeps
<1>13. WritesNow(s) /\ n = Len(data) => v.size = 0 /\ v.pollout = s.pollout
       /\ Len(c2) = Len(c) + Len(data)
  BY ONLY <1>w DEF WriteKeeps
<1>14. ASSUME d = "file", room'[d] > 0
       PROVE  /\ v.size = 0 /\ ~v.pollout
              /\ v.fd \/ Total(v) > 0 => Len(copy'[d]) = Len(copy[d]) + len
                 /\ Len(copy[d]) = t
  <2>1. room[d] > 0
    BY <1>1, <1>5, <1>14
  <2>2. s.size = 0 /\ ~s.pollout /\ (s.fd \/ Total(s) > 0 => Len(c) = t)
    BY <1>2, <1>14, <2>1 DEF TeeKept, FileKept
  <2>3. CASE s.fd
    <3>1. WritesNow(s) /\ m = n
      BY <1>2, <2>2, <2>3 DEF WritesNow
    <3>2. ~Unable(d)
      BY <1>1, <1>14, <2>1 DEF Unable
    <3>3. n = len
      BY <1>4, <1>14, <3>1, <3>2
    <3> QED
      BY <1>2, <1>13, <2>2, <2>3, <3>1, <3>3
  <2>4. CASE ~s.fd
    <3>1. v = s /\ Total(v) = 0 /\ ~(Total(v) > 0) /\ ~v.fd
      BY <1>12, <2>4
    <3> QED
      BY <2>2, <3>1
  <2> QED
    BY <2>3, <2>4
<1>15. ASSUME d = "file"
       PROVE  Total(v) > 0 \/ copy'[d] = <<>>
  <2>1. CASE s.fd
    <3>1. Total(v) = nr + 1
      BY <1>10, <1>12, <2>1 DEF DestOK
    <3>2. nr + 1 > 0
      BY ONLY nr \in Nat
    <3> QED
      BY <3>1, <3>2
  <2>2. CASE ~s.fd
    <3>1. ~(Total(s) > 0)
      BY <1>12, <2>2
    <3>2. copy[d] = <<>>
      BY <1>2, <1>15, <3>1 DEF TeeKept, FileKept
    <3>3. m = 0
      BY <1>2, <2>2 DEF WritesNow
    <3>4. SubSeq(data, 1, 0) = <<>> /\ <<>> \o <<>> = <<>>
      BY SubSeqEmpty, EmptySeq, ConcatEmptySeq
    <3> QED
      BY <3>2, <3>3, <3>4
  <2> QED
    BY <2>1, <2>2
<1> QED
  BY <1>2, <1>5, <1>7, <1>10, <1>11, <1>12, <1>14, <1>15 DEF Owed, WrittenKeeps

\* While uv__read runs, standard input is open and nothing is left in the
\* batch.
LEMMA WhileReading ==
  ASSUME TeeKept, Reading
  PROVE  stdinOpen /\ tee # "exited" /\ tee # "killed" /\ batch = {} /\ dst["stdout"].fd
         /\ count \in 1 .. Batch
<1>1. stdinOpen /\ tee # "exited" /\ tee # "killed" /\ batch = {} /\ dst["stdout"].fd
  BY DEF TeeKept, TeeTurns, Reading
<1>2. count \in 0 .. Batch /\ count > 0
  BY DEF TeeKept, TeeTyped
<1> QED
  BY <1>1, <1>2, TeeAssumption

\* uv__read and read_stdin with nread > 0, the end of the input behind a read
\* that did not fill the buffer included.
LEMMA ReadDataStep ==
  ASSUME TeeKept, PipeOK, ReadData(pipe, pipe', WriterGone), cat' = cat
  PROVE  TeeKept' /\ PipeOK' /\ PipeMoves /\ Serving
<1>1. /\ stdinOpen /\ tee # "exited" /\ tee # "killed" /\ batch = {} /\ dst["stdout"].fd
      /\ count \in 1 .. Batch
  BY WhileReading DEF ReadData
<1>2. PICK len, data, outs, n :
        /\ len = Least(BufLen, Len(pipe)) /\ data = SubSeq(pipe, 1, len)
        /\ outs = [d \in Dests |-> Outcome(d, len)]
        /\ n = [d \in Dests |-> IF WritesNow(dst[d]) THEN Outcome(d, len) ELSE 0]
        /\ Wrote(n, [d \in Dests |-> data])
  BY DEF ReadData
<1>3. PICK writ : writ = [d \in Dests |-> UvWrite(dst[d], [id |-> reads + 1, rest |-> data, err |-> FALSE], outs[d])]
  OBVIOUS
<1>4. /\ len \in Nat /\ 0 < len /\ took + len \in Nat /\ took < took + len
      /\ took + len <= Len(Input)
      /\ (len < BufLen => len = Len(pipe))
      /\ data = Part(took, took + len) /\ Len(data) = len
      /\ (pipe' = SubSeq(pipe, len + 1, Len(pipe)) /\ took' = took + len => PipeOK' /\ PipeMoves)
      /\ (len < BufLen => SubSeq(pipe, len + 1, Len(pipe)) = <<>>)
  <2>1. pipe # <<>>
    BY DEF ReadData
  <2> QED
    BY ONLY TeeKept, PipeOK, <1>2, <2>1, PipeTaken
<1>5. PICK t \in Nat, u \in Nat, l \in Nat : t = took /\ u = took + len /\ l = len
           /\ u = t + l
  BY <1>4, TookType
<1>6. \/ /\ len < BufLen /\ hup
         /\ dst' = [d \in Dests |-> Closed(writ[d])]
         /\ stdinOpen' = FALSE /\ evs' = {} /\ tee' = "events"
      \/ /\ dst' = writ /\ stdinOpen' = stdinOpen /\ evs' = evs \ {"stdin"}
         /\ \/ tee' = "reading" /\ count > 1
            \/ tee' = "events"
  <2>1. WriteData(data) = writ
    BY <1>2, <1>3, <1>4 DEF WriteData
  <2>2. PICK w : w = WriteData(data)
    OBVIOUS
  <2>3. \/ EndSeen(len) /\ Close(w)
        \/ /\ dst' = w /\ stdinOpen' = stdinOpen /\ evs' = evs \ {"stdin"}
           /\ tee' = IF len = BufLen /\ count > 1 THEN "reading" ELSE "events"
    BY <1>2, <2>2 DEF ReadData
  <2> QED
    BY <2>1, <2>2, <2>3 DEF EndSeen, Close
<1>7. /\ pipe' = SubSeq(pipe, len + 1, Len(pipe)) /\ reads' = reads + 1
      /\ took' = took + len
      /\ count' = count - 1 /\ UNCHANGED <<batch, hup, outGone>>
  BY <1>2 DEF ReadData
<1>8. PipeOK' /\ PipeMoves
  BY <1>4, <1>7
<1>9. \A d \in Dests : /\ copy'[d] = copy[d] \o SubSeq(data, 1, n[d])
                       /\ room'[d] = room[d] - (IF n[d] < 0 THEN 0 ELSE n[d])
  BY <1>2 DEF Wrote
<1>10. ASSUME NEW d \in Dests
       PROVE  /\ Dest(d)'
              /\ Given(copy[d], Owed(d) \o Part(took, took'), copy'[d], Owed(d)', d \in Fit')
              /\ (d \in Fit' => d \in Fit) /\ room'[d] \in Nat
              /\ ((stdinOpen' /\ dst'[d].fd = dst[d].fd) \/ (~stdinOpen' /\ ~dst'[d].fd))
              /\ (d = "file" /\ room'[d] > 0 =>
                    /\ dst'[d].size = 0 /\ ~dst'[d].pollout
                    /\ dst'[d].fd \/ Total(dst'[d]) > 0 => Len(copy'[d]) = took')
              /\ (d = "file" => Total(dst'[d]) > 0 \/ copy'[d] = <<>>)
  <2> DEFINE v == UvWrite(dst[d], [id |-> reads + 1, rest |-> data, err |-> FALSE], outs[d])
  <2>1. PICK g : g = (dst[d].fd /\ IF d = "file" THEN room'[d] > 0 ELSE ~outGone)
    OBVIOUS
  <2>2. PICK m, out : m = n[d] /\ out = outs[d]
    OBVIOUS
  <2>3. PICK w : w = v
    OBVIOUS
  <2> HIDE DEF v
  <2>4. /\ DestOK(w, copy'[d], reads + 1, u, TRUE, FALSE, FALSE, g)
        /\ Given(copy[d], Owed(d) \o data, copy'[d], Bytes(w.q), g)
        /\ (g => d \in Fit) /\ w.fd = dst[d].fd /\ room'[d] \in Nat
        /\ (d = "file" /\ room'[d] > 0 => /\ w.size = 0 /\ ~w.pollout
                                          /\ w.fd \/ Total(w) > 0 => Len(copy'[d]) = Len(copy[d]) + l
                                                                     /\ Len(copy[d]) = t)
        /\ (d = "file" => Total(w) > 0 \/ copy'[d] = <<>>)
    <3>1. /\ t = took /\ t < u /\ u <= Len(Input) /\ data = Part(t, u) /\ Len(data) = l
          /\ outGone' = outGone
      BY <1>4, <1>5, <1>7
    <3>2. out = Outcome(d, l) /\ m = (IF WritesNow(dst[d]) THEN out ELSE 0)
      BY <1>2, <1>5, <2>2
    <3>3. copy'[d] = copy[d] \o SubSeq(data, 1, m)
          /\ room'[d] = room[d] - (IF m < 0 THEN 0 ELSE m)
      BY <1>9, <2>2
    <3>4. w = UvWrite(dst[d], [id |-> reads + 1, rest |-> data, err |-> FALSE], out)
      BY <2>2, <2>3 DEF v
    <3>5. g <=> (dst[d].fd /\ IF d = "file" THEN room'[d] > 0 ELSE ~outGone)
      BY <2>1
    <3>6. WrittenCase(d, l, t, u, data, out, m, w, g)
      BY ONLY l \in Nat, t \in Nat, u \in Nat, d \in Dests, <3>1, <3>2, <3>3, <3>4, <3>5 DEF WrittenCase
    <3>7. DestOK(w, copy'[d], reads + 1, u, TRUE, FALSE, FALSE, g)
      BY ONLY TeeKept, PipeOK, <1>1, <3>6, WrittenTo
    <3>8. Given(copy[d], Owed(d) \o data, copy'[d], Bytes(w.q), g)
      BY ONLY TeeKept, PipeOK, <1>1, <3>6, WrittenTo
    <3>9. WrittenKeeps(d, l, t, w, g)
      BY ONLY TeeKept, PipeOK, <1>1, <3>6, WrittenTo
    <3> QED
      BY <3>7, <3>8, <3>9 DEF WrittenKeeps
  <2>5. writ[d] = w
    BY <1>3, <2>3 DEF v
  <2>6. took' = u /\ reads' = reads + 1 /\ data = Part(took, took')
        /\ (d \in batch') = FALSE
    BY <1>1, <1>4, <1>5, <1>7
  <2>7. d = "file" /\ room'[d] > 0 => /\ w.size = 0 /\ ~w.pollout
                                      /\ w.fd \/ Total(w) > 0 => Len(copy'[d]) = took'
    BY <1>5, <2>4, <2>6
  <2>8. CASE dst' = writ /\ stdinOpen' = stdinOpen /\ tee' \in {"reading", "events"}
    <3>1. dst'[d] = w /\ stdinOpen' = TRUE /\ (tee' = "exited") = FALSE
      BY <1>1, <2>5, <2>8 DEF TeeKept, TeeTyped
    <3>2. g = (d \in Fit')
      BY <1>7, <2>1, <2>4, <3>1 DEF Fit
    <3>3. DestOK(dst'[d], copy'[d], reads', took', stdinOpen', tee' = "exited", d \in batch', d \in Fit')
      BY <2>4, <2>6, <3>1, <3>2
    <3>4. Given(copy[d], Owed(d) \o Part(took, took'), copy'[d], Bytes(dst'[d].q), d \in Fit')
      BY <2>4, <2>6, <3>1, <3>2
    <3> QED
      BY <2>4, <2>7, <3>1, <3>2, <3>3, <3>4 DEF Dest, Owed
  <2>9. CASE dst' = [e \in Dests |-> Closed(writ[e])] /\ stdinOpen' = FALSE
             /\ tee' = "events"
    <3>1. dst'[d] = Closed(w) /\ stdinOpen' = FALSE /\ (tee' = "exited") = FALSE
      BY <2>5, <2>9
    <3>2. PICK x, c : x = dst'[d] /\ c = copy'[d]
      OBVIOUS
    <3>3. PICK no, nr : no = FALSE /\ nr = reads + 1
      OBVIOUS
    <3>4. DestOK(w, c, nr, u, TRUE, FALSE, no, g) /\ x = Closed(w)
      BY <2>4, <3>1, <3>2, <3>3
    <3>5. DestOK(x, c, nr, u, FALSE, FALSE, no, FALSE)
      BY ONLY <3>4, CloseOK
    <3>6. x.q = w.q /\ ~x.fd /\ x.size = w.size /\ ~x.pollout /\ Total(x) = Total(w)
      <4>1. Sound(w)
        BY <3>4 DEF DestOK
      <4> QED
        BY <3>4, <4>1, ClosedFacts
    <3>7. (d \in Fit') = FALSE
      BY <3>2, <3>6 DEF Fit
    <3>8. DestOK(dst'[d], copy'[d], reads', took', stdinOpen', tee' = "exited", d \in batch', d \in Fit')
      BY <2>6, <3>1, <3>2, <3>3, <3>5, <3>7
    <3>9. Given(copy[d], Owed(d) \o Part(took, took'), copy'[d], Bytes(dst'[d].q), d \in Fit')
      <4>1. PICK less : less = FALSE
        OBVIOUS
      <4>2. Given(copy[d], Owed(d) \o data, copy'[d], Bytes(w.q), less)
        BY <2>4, <4>1, GivenLess
      <4> QED
        BY <2>6, <3>2, <3>6, <3>7, <4>1, <4>2
    <3>10. d = "file" /\ room'[d] > 0 =>
                    /\ x.size = 0 /\ ~x.pollout
                    /\ x.fd \/ Total(x) > 0 => Len(copy'[d]) = took'
      BY <2>7, <3>6
    <3> QED
      BY <2>4, <3>1, <3>2, <3>6, <3>7, <3>8, <3>9, <3>10 DEF Dest, Owed
  <2> QED
    BY <1>6, <2>8, <2>9
<1>11. TeeTyped'
  <2>1. \A d \in Dests : dst'[d] \in Stream(Byte) /\ copy'[d] \in Seq(Byte)
        /\ room'[d] \in Nat
    BY <1>10 DEF Dest, DestOK, Sound, Ordered
  <2>2. /\ dst' = [d \in Dests |-> dst'[d]] /\ copy' = [d \in Dests |-> copy'[d]]
        /\ room' = [d \in Dests |-> room'[d]]
    BY <1>2, <1>3, <1>6 DEF Wrote
  <2>3. dst' \in [Dests -> Stream(Byte)] /\ copy' \in [Dests -> Seq(Byte)]
        /\ room' \in [Dests -> Nat]
    BY <2>1, <2>2
  <2>4. took' \in Nat /\ reads' \in Nat /\ count' \in 0 .. Batch
        /\ (count > 1 => count' > 0)
    <3>1. reads \in Nat /\ count \in 1 .. Batch /\ Batch \in Nat /\ took + len \in Nat
      BY <1>1, <1>4, TeeAssumption DEF TeeKept, TeeTyped
    <3> QED
      BY ONLY <1>7, <3>1
  <2>5. tee' \in TeeStates /\ stdinOpen' \in BOOLEAN /\ evs' \subseteq {"stdin", "stdout"}
    BY <1>6 DEF TeeKept, TeeTyped, TeeStates
  <2>6. batch' \subseteq Dests /\ hup' \in BOOLEAN /\ outGone' \in BOOLEAN
    BY <1>7 DEF TeeKept, TeeTyped
  <2>7. Reading' => count' > 0
    BY <1>6, <2>4 DEF Reading
  <2> QED
    BY <2>3, <2>4, <2>5, <2>6, <2>7 DEF TeeTyped
<1>12. TeeTurns'
  <2>1. batch' = {} /\ (hup' => WriterGone') /\ tee' # "exited" /\ tee' # "killed"
    BY <1>1, <1>6, <1>7 DEF TeeKept, TeeTurns, WriterGone
  <2>2. stdinOpen' => dst'["stdout"].fd
    BY <1>1, <1>10 DEF Dests
  <2>3. ~stdinOpen' => tee' \in {"events", "exited"} /\ evs' = {}
                       /\ pipe' = <<>> /\ WriterGone' /\ \A d \in Dests : ~dst'[d].fd
    BY <1>1, <1>4, <1>6, <1>7, <1>10 DEF TeeKept, TeeTurns, WriterGone
  <2> QED
    BY <2>1, <2>2, <2>3 DEF TeeTurns
<1>13. FileKept'
  <2>1. "file" \in Dests
    BY DEF Dests
  <2> QED
    BY <1>10, <2>1 DEF FileKept
<1>14. Serving
  <2>1. Fit' \subseteq Fit
    BY <1>10 DEF Fit
  <2>2. took <= took' /\ took' <= Len(Input)
    BY <1>4, <1>5, <1>7
  <2> QED
    BY <1>10, <2>1, <2>2 DEF Serving
<1> QED
  BY <1>8, <1>10, <1>11, <1>12, <1>13, <1>14 DEF TeeKept

\* The steps that give nothing to anybody: what is left to show of them is
\* each destination, and that none has become fit.
LEMMA NobodyGiven ==
  ASSUME TeeKept, PipeOK, UNCHANGED <<took, copy, outGone>>, room'["file"] = room["file"],
         \A d \in Dests : /\ Dest(d)' /\ (dst'[d].fd => dst[d].fd)
                          /\ Given(copy[d], Owed(d) \o Part(took, took), copy[d], Owed(d)', d \in Fit')
  PROVE  Serving
<1>1. took \in Nat /\ took <= Len(Input)
  BY TookType
<1>2. Fit' \subseteq Fit
  BY DEF Fit
<1> QED
  BY <1>1, <1>2 DEF Serving

\* The end of the input: every destination is closed.
LEMMA ReadEofStep ==
  ASSUME TeeKept, PipeOK, ReadEof(pipe, WriterGone), UNCHANGED <<cat, pipe>>
  PROVE  TeeKept' /\ Serving
<1>1. /\ stdinOpen /\ tee # "exited" /\ tee # "killed" /\ batch = {} /\ dst["stdout"].fd
      /\ count \in 1 .. Batch
  BY WhileReading DEF ReadEof
<1>2. /\ dst' = [d \in Dests |-> Closed(dst[d])] /\ stdinOpen' = FALSE /\ evs' = {}
      /\ tee' = "events"
      /\ pipe = <<>> /\ WriterGone
      /\ UNCHANGED <<batch, hup, count, reads, took, copy, room, outGone>>
  BY DEF ReadEof, Close
<1>3. PICK t \in Nat : t = took
  BY TookType
<1>4. ASSUME NEW d \in Dests
      PROVE  /\ Dest(d)'
             /\ Given(copy[d], Owed(d) \o Part(took, took), copy[d], Owed(d)', d \in Fit')
             /\ dst'[d].size = dst[d].size /\ ~dst'[d].pollout /\ ~dst'[d].fd
                /\ Total(dst'[d]) = Total(dst[d])
  <2>1. PICK s, c, v : s = dst[d] /\ c = copy[d] /\ v = dst'[d]
    OBVIOUS
  <2>2. PICK f, no : f = (d \in Fit) /\ no = FALSE
    <3>1. PICK f : f = (d \in Fit)
      OBVIOUS
    <3> QED
      BY <3>1
  <2>3. DestOK(s, c, reads, t, TRUE, FALSE, no, f) /\ v = Closed(s)
    <3>1. stdinOpen = TRUE /\ (tee = "exited") = FALSE /\ (d \in batch) = FALSE
      BY <1>1 DEF TeeKept, TeeTyped
    <3>2. DestOK(dst[d], copy[d], reads, took, stdinOpen, tee = "exited", d \in batch, d \in Fit)
      BY DEF TeeKept, Dest
    <3> QED
      BY <1>2, <1>3, <2>1, <2>2, <3>1, <3>2
  <2>4. DestOK(v, c, reads, t, FALSE, FALSE, no, FALSE)
    BY ONLY <2>3, CloseOK
  <2>5. Sound(s) /\ Ordered(c, Bytes(s.q), t, f)
    BY ONLY <2>3 DEF DestOK
  <2>6. v.q = s.q /\ ~v.fd /\ v.size = s.size /\ ~v.pollout /\ Total(v) = Total(s)
    BY <2>3, <2>5, ClosedFacts
  <2>7. (d \in Fit') = FALSE /\ (d \in batch') = FALSE /\ (tee' = "exited") = FALSE
    BY <1>1, <1>2, <2>1, <2>6 DEF Fit
  <2>8. DestOK(dst'[d], copy'[d], reads', took', stdinOpen', tee' = "exited", d \in batch', d \in Fit')
    BY <1>2, <1>3, <2>1, <2>2, <2>4, <2>7
  <2>9. Given(c, Bytes(s.q) \o Part(t, t), c, Bytes(s.q), FALSE)
    <3>1. PICK o, stays : o = Bytes(s.q) /\ stays = FALSE
      OBVIOUS
    <3>2. Ordered(c, o, t, f)
      BY <2>5, <3>1
    <3>3. Given(c, o \o Part(t, t), c, o, stays)
      BY ONLY t \in Nat, <3>2, NothingGiven
    <3> QED
      BY ONLY <3>1, <3>3
  <2> QED
    BY <1>3, <2>1, <2>6, <2>7, <2>8, <2>9 DEF Dest, Owed
<1>5. TeeTyped'
  <2>1. \A d \in Dests : dst'[d] \in Stream(Byte)
    BY <1>4 DEF Dest, DestOK, Sound
  <2>2. dst' \in [Dests -> Stream(Byte)]
    BY <1>2, <2>1
  <2> QED
    BY <1>2, <2>2 DEF TeeKept, TeeTyped, TeeStates, Reading
<1>6. TeeTurns'
  BY <1>1, <1>2, <1>4 DEF TeeKept, TeeTurns, WriterGone
<1>7. FileKept'
  <2>1. "file" \in Dests
    BY DEF Dests
  <2>2. room["file"] > 0 => /\ dst["file"].size = 0
                            /\ Total(dst["file"]) > 0 => Len(copy["file"]) = took
    BY DEF TeeKept, FileKept
  <2>3. Total(dst["file"]) > 0 \/ copy["file"] = <<>>
    BY <1>1 DEF TeeKept, FileKept
  <2> QED
    BY <1>2, <1>4, <2>1, <2>2, <2>3 DEF FileKept
<1>8. Serving
  BY <1>2, <1>4, NobodyGiven
<1> QED
  BY <1>4, <1>5, <1>6, <1>7, <1>8 DEF TeeKept

\* The loop goes round, and the destinations fed are its batch.
LEMMA NextTurnStep ==
  ASSUME TeeKept, PipeOK, NextTurn, UNCHANGED <<cat, pipe>>
  PROVE  TeeKept' /\ Serving
<1>2. /\ tee = "events" /\ evs = {} /\ stdinOpen /\ tee' = "pending"
      /\ batch' = {d \in Dests : dst[d].fed}
      /\ dst' = [d \in Dests |-> [dst[d] EXCEPT !.fed = FALSE]]
      /\ UNCHANGED <<stdinOpen, evs, hup, count, reads, took, copy, room, outGone>>
  BY DEF NextTurn
<1>1. batch = {} /\ dst["stdout"].fd
  BY <1>2 DEF TeeKept, TeeTurns
<1>3. PICK t \in Nat : t = took
  BY TookType
<1>4. ASSUME NEW d \in Dests
      PROVE  /\ Dest(d)'
             /\ Given(copy[d], Owed(d) \o Part(took, took), copy[d], Owed(d)', d \in Fit')
             /\ dst'[d].size = dst[d].size /\ dst'[d].pollout = dst[d].pollout
             /\ dst'[d].fd = dst[d].fd /\ Total(dst'[d]) = Total(dst[d])
  <2>1. PICK s, c, v : s = dst[d] /\ c = copy[d] /\ v = dst'[d]
    OBVIOUS
  <2>f. PICK f : f = (d \in Fit)
    OBVIOUS
  <2>g. PICK f2 : f2 = (d \in Fit')
    OBVIOUS
  <2>b. PICK inB : inB = (d \in batch')
    OBVIOUS
  <2>3. DestOK(s, c, reads, t, TRUE, FALSE, FALSE, f) /\ v = [s EXCEPT !.fed = FALSE]
    <3>1. stdinOpen = TRUE /\ (tee = "exited") = FALSE /\ (d \in batch) = FALSE
      BY <1>1, <1>2 DEF TeeKept, TeeTyped
    <3>2. DestOK(dst[d], copy[d], reads, took, stdinOpen, tee = "exited", d \in batch, d \in Fit)
      BY DEF TeeKept, Dest
    <3> QED
      BY <1>2, <1>3, <2>1, <2>f, <3>1, <3>2
  <2>5. Sound(s) /\ Ordered(c, Bytes(s.q), t, f)
    BY ONLY <2>3 DEF DestOK
  <2>6. /\ v.q = s.q /\ v.fd = s.fd /\ v.size = s.size /\ v.pollout = s.pollout
        /\ Total(v) = Total(s)
        /\ Sound(v) /\ Requests(v) = Requests(s) /\ v.done = s.done
    BY <2>3, <2>5, UnfedFacts
  <2>7. (f2 => f) /\ (inB <=> s.fed) /\ (tee' = "exited") = FALSE /\ stdinOpen' = TRUE
    BY <1>2, <2>1, <2>6, <2>f, <2>g, <2>b DEF Fit, TeeKept, TeeTyped
  <2>o. Ordered(c, Bytes(v.q), t, f2)
    BY <2>5, <2>6, <2>7 DEF Ordered
  <2>4. DestOK(v, c, reads, t, TRUE, FALSE, inB, f2)
    BY ONLY <2>3, <2>6, <2>7, <2>o DEF DestOK
  <2>8. DestOK(dst'[d], copy'[d], reads', took', stdinOpen', tee' = "exited", d \in batch', d \in Fit')
    BY <1>2, <1>3, <2>1, <2>4, <2>7, <2>b, <2>g
  <2>9. Given(c, Bytes(s.q) \o Part(t, t), c, Bytes(s.q), f2)
    <3>1. PICK o : o = Bytes(s.q)
      OBVIOUS
    <3>2. Ordered(c, o, t, f)
      BY <2>5, <3>1
    <3>3. Given(c, o \o Part(t, t), c, o, f2)
      BY ONLY t \in Nat, <3>2, NothingGiven
    <3> QED
      BY ONLY <3>1, <3>3
  <2> QED
    BY <1>3, <2>1, <2>6, <2>8, <2>9, <2>g DEF Dest, Owed
<1>5. TeeTyped'
  <2>1. \A d \in Dests : dst'[d] \in Stream(Byte)
    BY <1>4 DEF Dest, DestOK, Sound
  <2>2. dst' \in [Dests -> Stream(Byte)]
    BY <1>2, <2>1
  <2> QED
    BY <1>2, <2>2 DEF TeeKept, TeeTyped, TeeStates, Reading
<1>6. TeeTurns'
  BY <1>1, <1>2, <1>4 DEF TeeKept, TeeTurns, WriterGone, Dests
<1>7. FileKept'
  <2>1. "file" \in Dests
    BY DEF Dests
  <2> QED
    BY <1>2, <1>4, <2>1 DEF FileKept, TeeKept
<1>8. Serving
  BY <1>2, <1>4, NobodyGiven
<1> QED
  BY <1>4, <1>5, <1>6, <1>7, <1>8 DEF TeeKept

\* uv__finish_close: what is queued is cancelled, and the loop ends when
\* nothing is left to call back.
LEMMA FinishCloseStep ==
  ASSUME TeeKept, PipeOK, FinishClose, UNCHANGED <<cat, pipe>>
  PROVE  TeeKept' /\ Serving
<1>2. /\ tee = "events" /\ evs = {} /\ ~stdinOpen
      /\ dst' = [d \in Dests |-> Destroyed(dst[d])]
      /\ tee' = (IF \E d \in Dests : Requests(dst'[d]) # <<>> THEN "pending" ELSE "exited")
      /\ UNCHANGED <<stdinOpen, batch, evs, hup, count, reads, took, copy, room, outGone>>
  BY DEF FinishClose
<1>1. batch = {} /\ \A d \in Dests : ~dst[d].fd
  BY <1>2 DEF TeeKept, TeeTurns
<1>3. PICK t \in Nat : t = took /\ t <= Len(Input)
  BY TookType
<1>4. ASSUME NEW d \in Dests
      PROVE  /\ DestOK(dst'[d], copy[d], reads, took, stdinOpen, TRUE, d \in batch, d \in Fit')
             /\ Given(copy[d], Owed(d) \o Part(took, took), copy[d], Owed(d)', d \in Fit')
             /\ Requests(dst'[d]) = <<>>
             /\ dst'[d].size = 0 /\ dst'[d].pollout = dst[d].pollout
             /\ ~dst'[d].fd /\ Total(dst'[d]) = Total(dst[d])
  <2>1. PICK s, c, v : s = dst[d] /\ c = copy[d] /\ v = dst'[d]
    OBVIOUS
  <2>f. PICK f : f = (d \in Fit)
    OBVIOUS
  <2>b. PICK inB : inB = (d \in batch)
    OBVIOUS
  <2>3. DestOK(s, c, reads, t, FALSE, FALSE, inB, f) /\ ~s.fd /\ v = Destroyed(s)
        /\ t <= Len(Input)
    <3>1. stdinOpen = FALSE /\ (tee = "exited") = FALSE
      BY <1>2 DEF TeeKept, TeeTyped
    <3>2. DestOK(dst[d], copy[d], reads, took, stdinOpen, tee = "exited", d \in batch, d \in Fit)
      BY DEF TeeKept, Dest
    <3> QED
      BY <1>1, <1>2, <1>3, <2>1, <2>f, <2>b, <3>1, <3>2
  <2>4. DestOK(v, c, reads, t, FALSE, TRUE, inB, FALSE)
    BY ONLY t \in Nat, <2>3, DestroyOK
  <2>5. Given(c, Bytes(s.q) \o Part(t, t), c, Bytes(v.q), FALSE)
    BY ONLY t \in Nat, <2>3, DestroyOK
  <2>6. Sound(s)
    BY ONLY <2>3 DEF DestOK
  <2>7. Requests(v) = <<>> /\ v.size = 0 /\ v.fd = s.fd /\ v.pollout = s.pollout
        /\ Total(v) = Total(s)
    BY <2>3, <2>6, DestroyedFacts
  <2>8. (d \in Fit') = FALSE /\ stdinOpen = FALSE
    BY <1>2, <2>1, <2>3, <2>7 DEF Fit, TeeKept, TeeTyped
  <2> QED
    BY <1>3, <2>1, <2>b, <2>3, <2>4, <2>5, <2>7, <2>8 DEF Owed
<1>a. tee' = "exited"
  BY <1>2, <1>4
<1>b. \A d \in Dests : Dest(d)'
  <2>1. (tee' = "exited") = TRUE
    BY <1>a
  <2>2. \A d \in Dests : DestOK(dst'[d], copy'[d], reads', took', stdinOpen', tee' = "exited", d \in batch', d \in Fit')
    BY <1>2, <1>4, <2>1
  <2> QED
    BY <2>2 DEF Dest
<1>5. TeeTyped'
  <2>1. \A d \in Dests : dst'[d] \in Stream(Byte)
    BY <1>b DEF Dest, DestOK, Sound
  <2>2. dst' \in [Dests -> Stream(Byte)]
    BY <1>2, <2>1
  <2> QED
    BY <1>2, <1>a, <2>2 DEF TeeKept, TeeTyped, TeeStates, Reading
<1>6. TeeTurns'
  BY <1>1, <1>2, <1>a, <1>4 DEF TeeKept, TeeTurns, WriterGone
<1>7. FileKept'
  <2>1. "file" \in Dests
    BY DEF Dests
  <2> QED
    BY <1>2, <1>4, <2>1 DEF FileKept, TeeKept
<1>8. Serving
  BY <1>2, <1>4, <1>b, NobodyGiven
<1> QED
  BY <1>b, <1>5, <1>6, <1>7, <1>8 DEF TeeKept

\* A destination whose requests are gone: it keeps what it was given.
LEMMA NothingMore ==
  ASSUME NEW t \in Nat, NEW u \in Nat, t <= u, u <= Len(Input),
         NEW c, NEW o, NEW fits, Ordered(c, o, t, fits)
  PROVE  Ordered(c, <<>>, u, FALSE) /\ Given(c, o \o Part(t, u), c, <<>>, FALSE)
<1>1. c \in Seq(Byte) /\ o \in Seq(Byte) /\ c = Part(0, Len(c)) /\ Len(c) + Len(o) <= t
      /\ Len(c) \in Nat /\ Len(o) \in Nat
  BY LenProperties DEF Ordered
<1>2. Part(t, u) \in Seq(Byte) /\ Part(u, u) = <<>> /\ Len(<<>>) = 0 /\ <<>> \in Seq(Byte)
  BY PartType, PartNone, EmptySeq
<1>3. Ordered(c, <<>>, u, FALSE)
  <2>1. Len(c) + 0 <= u /\ u - 0 = u
    BY <1>1
  <2> QED
    BY <1>1, <1>2, <2>1 DEF Ordered
<1>4. PICK due : due = o \o Part(t, u) /\ due \in Seq(Byte) /\ Len(due) \in Nat
  BY <1>1, <1>2, ConcatProperties, LenProperties
<1>5. c = c \o SubSeq(due, 1, 0) /\ <<>> = SubSeq(due, Len(due) + 1, Len(due))
  <2>1. SubSeq(due, 1, 0) = <<>> /\ SubSeq(due, Len(due) + 1, Len(due)) = <<>>
    BY <1>4, SubSeqEmpty
  <2>2. c \o <<>> = c
    BY <1>1, ConcatEmptySeq
  <2> QED
    BY <2>1, <2>2
<1>6. 0 \in 0 .. Len(due) /\ Len(due) \in 0 .. Len(due)
  BY SMTT(30), <1>4
<1>7. Given(c, due, c, <<>>, FALSE)
  BY <1>5, <1>6 DEF Given
<1> QED
  BY <1>3, <1>4, <1>7

\* SIGPIPE kills uvtee: its streams are gone, what it wrote remains.
LEMMA KilledStep ==
  ASSUME TeeKept, PipeOK, Dies, Deadly,
         UNCHANGED <<hup, count, copy, room, outGone, cat, ignored>>,
         took' \in Nat, took <= took', took' <= Len(Input), reads' \in Nat
  PROVE  TeeKept' /\ Serving
<1>1. took \in Nat
  BY TookType
<1>2. /\ tee' = "killed" /\ stdinOpen' = FALSE /\ batch' = {} /\ evs' = {}
      /\ dst' = [d \in Dests |-> NewStream(FALSE)]
  BY DEF Dies
<1>3. PICK s : s = NewStream(FALSE)
  OBVIOUS
<1>4. /\ Sound(s) /\ Total(s) = 0 /\ Requests(s) = <<>> /\ s.q = <<>> /\ s.done = <<>>
      /\ s.fd = FALSE /\ s.size = 0 /\ ~s.pollout /\ s \in Stream(Byte)
  BY <1>3, NewFacts DEF Sound
<1>5. \A d \in Dests : dst'[d] = s
  BY <1>2, <1>3
<1>6. Fit' = {}
  BY <1>4, <1>5 DEF Fit
<1>7. ASSUME NEW d \in Dests
      PROVE  Dest(d)' /\ Given(copy[d], Owed(d) \o Part(took, took'), copy'[d], Owed(d)', d \in Fit')
  <2>1. PICK f : f = (d \in Fit)
    OBVIOUS
  <2>2. Ordered(copy[d], Bytes(dst[d].q), took, f)
    BY <2>1 DEF TeeKept, Dest, DestOK
  <2>a. PICK t \in Nat, u \in Nat : t = took /\ u = took'
    BY <1>1
  <2>b. PICK c, o : c = copy[d] /\ o = Bytes(dst[d].q)
    OBVIOUS
  <2>3. t = took /\ u = took' /\ c = copy[d] /\ o = Bytes(dst[d].q)
    BY <2>a, <2>b
  <2>4. Ordered(c, o, t, f) /\ t <= u /\ u <= Len(Input)
    BY <2>2, <2>3
  <2>5. Ordered(c, <<>>, u, FALSE) /\ Given(c, o \o Part(t, u), c, <<>>, FALSE)
    BY ONLY t \in Nat, u \in Nat, <2>4, NothingMore
  <2>6. Bytes(s.q) = <<>>
    BY <1>4, BytesEmpty
  <2>7. (d \in Fit') = FALSE /\ stdinOpen' = FALSE /\ dst'[d] = s /\ copy'[d] = c
    <3>1. d \notin Fit'
      BY <1>6
    <3>2. stdinOpen' = FALSE /\ dst'[d] = s /\ copy'[d] = c
      BY <1>2, <1>5, <2>3
    <3> QED
      BY <3>1, <3>2
  <2>8. DestOK(dst'[d], copy'[d], reads', took', stdinOpen', tee' = "exited", d \in batch', d \in Fit')
    BY <1>4, <2>3, <2>5, <2>6, <2>7 DEF DestOK
  <2>9. Given(copy[d], Bytes(dst[d].q) \o Part(took, took'), copy'[d], Bytes(dst'[d].q), d \in Fit')
    BY <2>3, <2>5, <2>6, <2>7
  <2> QED
    BY <2>8, <2>9 DEF Dest, Owed
<1>8. TeeTyped'
  <2>1. dst' \in [Dests -> Stream(Byte)]
    BY <1>2, <1>3, <1>4
  <2> QED
    BY <1>2, <2>1 DEF TeeKept, TeeTyped, TeeStates, Reading
<1>9. TeeTurns'
  BY <1>2, <1>4, <1>5 DEF TeeKept, TeeTurns, Deadly, WriterGone
<1>10. FileKept'
  <2>1. dst'["file"] = s /\ ~(Total(s) > 0)
    BY <1>4, <1>5 DEF Dests
  <2> QED
    BY <1>2, <1>4, <2>1 DEF FileKept
<1>11. Serving
  BY <1>6, <1>7 DEF Serving
<1> QED
  BY <1>7, <1>8, <1>9, <1>10, <1>11 DEF TeeKept

\* It dies flushing a backlog.
LEMMA FlushKillsStep ==
  ASSUME TeeKept, PipeOK, FlushKills, UNCHANGED <<cat, pipe, ignored>>
  PROVE  TeeKept' /\ Serving
<1>1. took \in Nat /\ took <= Len(Input) /\ took <= took
  BY TookType
<1>2. /\ Dies /\ Deadly /\ UNCHANGED <<hup, count, reads, took, copy, room, outGone>>
      /\ reads \in Nat
  BY DEF FlushKills, DeadlyFlush, TeeKept, TeeTyped
<1> QED
  BY <1>1, <1>2, KilledStep

\* It dies writing what it has just read.
LEMMA ReadKillsStep ==
  ASSUME TeeKept, PipeOK, ReadKills(pipe, pipe'), UNCHANGED <<cat, ignored>>
  PROVE  TeeKept' /\ PipeOK' /\ PipeMoves /\ Serving
<1>1. PICK len : len = Least(BufLen, Len(pipe))
  OBVIOUS
<1>2. /\ pipe # <<>> /\ pipe' = SubSeq(pipe, len + 1, Len(pipe)) /\ took' = took + len
      /\ reads' = reads + 1 /\ reads \in Nat
      /\ Dies /\ Deadly /\ UNCHANGED <<hup, count, copy, room, outGone>>
  BY <1>1 DEF ReadKills, DeadlyRead, TeeKept, TeeTyped
<1>3. /\ took + len \in Nat /\ took < took + len /\ took + len <= Len(Input) /\ len \in Nat
      /\ PipeOK' /\ PipeMoves
  BY ONLY TeeKept, PipeOK, <1>1, <1>2, PipeTaken
<1>4. took <= took + len /\ reads + 1 \in Nat
  BY <1>2, <1>3, TookType
<1>5. TeeKept' /\ Serving
  BY <1>2, <1>3, <1>4, KilledStep
<1> QED
  BY <1>3, <1>5

\* Every step of uvtee, and of whoever reads its output.
LEMMA TeeStep ==
  ASSUME TeeKept, PipeOK, TeeNext \/ OutNext
  PROVE  /\ TeeKept' /\ PipeOK' /\ PipeMoves /\ Serving /\ UNCHANGED <<poolVars, catVars, ignored>>
         /\ (TeeGone => TeeGone')
<1>1. UNCHANGED <<poolVars, catVars, ignored>> /\ cat' = cat
  BY DEF TeeNext, OutNext, catVars
<1>a. TeeGone => TeeGone'
  <2> SUFFICES ASSUME TeeGone PROVE tee' = tee
    BY DEF TeeGone
  <2>1. ~TeeNext
    BY DEF TeeGone, TeeNext, TeeReads, TeeLoop, PollReturns, ReadData, ReadKills, ReadNothing, ReadEof,
           FlushPending, Abort, FlushEvent, FlushKills, NextTurn, FinishClose, Reading
  <2> QED
    BY <2>1 DEF OutNext, OutIsRead, OutLeaves
<1>2. CASE pipe' = pipe /\ took' = took
  <2>1. PipeOK' /\ PipeMoves
    <3>1. Len(pipe) \in Nat
      BY TookType
    <3> QED
      BY <1>2, <3>1 DEF PipeOK, Part, PipeMoves
  <2>2. UNCHANGED <<cat, pipe, ignored>>
    BY <1>1, <1>2
  <2>3. \/ OutIsRead \/ OutLeaves
        \/ PollReturns(pipe, WriterGone) \/ ReadData(pipe, pipe', WriterGone)
        \/ ReadNothing(pipe, WriterGone) \/ ReadEof(pipe, WriterGone)
        \/ \E d \in Dests : FlushPending(d)
        \/ Abort \/ FlushEvent \/ FlushKills \/ ReadKills(pipe, pipe') \/ NextTurn \/ FinishClose
    BY DEF TeeNext, OutNext, TeeReads, TeeLoop
  <2>4. TeeKept' /\ Serving
    BY <1>1, <2>2, <2>3, OutStep, PollStep, ReadDataStep, ReadNothingStep, ReadEofStep,
       FlushPendingStep, AbortStep, FlushEventStep, FlushKillsStep, ReadKillsStep, NextTurnStep,
       FinishCloseStep
  <2> QED
    BY <1>1, <1>a, <2>1, <2>4
<1>3. CASE ReadData(pipe, pipe', WriterGone)
  BY <1>1, <1>a, <1>3, ReadDataStep
<1>4. CASE ReadKills(pipe, pipe')
  BY <1>1, <1>a, <1>4, ReadKillsStep
<1>5. (pipe' = pipe /\ took' = took) \/ ReadData(pipe, pipe', WriterGone) \/ ReadKills(pipe, pipe')
  BY DEF TeeNext, OutNext, TeeReads, TeeLoop, OutIsRead, OutLeaves, PollReturns, ReadNothing, ReadEof,
         FlushPending, Abort, FlushEvent, FlushKills, NextTurn, FinishClose
<1> QED
  BY <1>2, <1>3, <1>4, <1>5

\* uvcat's half of the invariant.
CatTyped == CatType /\ unread \in Seq(Byte) /\ buf \in Seq(Byte)
\* The same with what relates the pool to the request, and the data.
CatKept == CatTyped /\ OneRequest /\ CatCopies

\* What is in the buffer, k bytes, lies between the pipe and what is unread.
InFlight(k) ==
  LET end == Len(Input) - Len(unread)
  IN  /\ Len(unread) <= Len(Input) /\ unread = Part(end, Len(Input))
      /\ result >= 0 => took + Len(pipe) + k = end /\ SubSeq(buf, 1, k) = Part(end - k, end)

\* Where the one request is.
Idling  == cat = "start" /\ wq = <<>> /\ lwq = <<>> /\ Busy = {}
Posted  == cat = "poll" /\ (\E r \in Reqs : wq = <<r>>) /\ lwq = <<>> /\ Busy = {}
Working == cat = "poll" /\ wq = <<>> /\ lwq = <<>> /\ \E w \in Workers : Busy = {w}
Worked  == cat \in {"poll", "done"} /\ wq = <<>> /\ (\E r \in Reqs : lwq = <<r>>)
/\ Busy = {}
Leaving == cat \in {"exit", "gone"} /\ wq = <<Exit>> /\ lwq = <<>> /\ Busy = {}
Killed  == /\ cat = "gone" /\ wq = <<>> /\ lwq = <<>> /\ Busy = {}
           /\ TeeGone /\ ~ignored /\ result = -1
Woken   == efd = pending /\ pending = (cat = "poll" /\ lwq # <<>>)

\* The request is in one of five places, or uvcat was killed in it.
LEMMA Places ==
  OneRequest <=> Woken /\ (Idling \/ Posted \/ Working \/ Worked \/ Leaving \/ Killed)
BY DEF OneRequest, Woken, Idling, Posted, Working, Worked, Leaving, Killed

\* Nothing is being done unless the request is posted or at a worker.
DoingOf(q, f) == {r \in Reqs : q = <<r>> \/ \E w \in Workers : f[w] = r}
\* The workers that are at a request.
BusyOf(f) == {w \in Workers : f[w] \in Reqs}

\* In each place, what is being done.
LEMMA DoingWhere ==
  ASSUME PoolAssumption, NEW q, NEW f
  PROVE  /\ q = <<>> /\ BusyOf(f) = {} => DoingOf(q, f) = {}
         /\ q = <<Exit>> /\ BusyOf(f) = {} => DoingOf(q, f) = {}
         /\ \A r \in Reqs : q = <<r>> /\ BusyOf(f) = {} => DoingOf(q, f) = {r}
         /\ \A w \in Workers : q = <<>> /\ BusyOf(f) = {w} => DoingOf(q, f) = {f[w]}
            /\ f[w] \in Reqs
         /\ \A r \in Reqs : r # Exit /\ r \notin States
<1>1. \A r \in Reqs : r # Exit /\ r \notin States
  BY DEF PoolAssumption
<1>2. q = <<>> => \A r \in Reqs : q # <<r>>
  OBVIOUS
<1>3. \A r, x : q = <<x>> /\ q = <<r>> => r = x
  OBVIOUS
<1>4. BusyOf(f) = {} => \A w \in Workers : f[w] \notin Reqs
  BY DEF BusyOf
<1>5. \A w \in Workers : BusyOf(f) = {w} => f[w] \in Reqs
      /\ \A x \in Workers : f[x] \in Reqs => x = w
  BY DEF BusyOf
<1>6. \A r \in Reqs : r \in DoingOf(q, f) <=> q = <<r>> \/ \E w \in Workers : f[w] = r
  BY DEF DoingOf
<1>7. DoingOf(q, f) \subseteq Reqs
  BY DEF DoingOf
<1>8. ASSUME q = <<>>, BusyOf(f) = {} PROVE DoingOf(q, f) = {}
  BY <1>2, <1>4, <1>6, <1>7, <1>8
<1>9. ASSUME q = <<Exit>>, BusyOf(f) = {} PROVE DoingOf(q, f) = {}
  BY <1>1, <1>3, <1>4, <1>6, <1>7, <1>9
<1>10. ASSUME NEW r \in Reqs, q = <<r>>, BusyOf(f) = {} PROVE DoingOf(q, f) = {r}
  BY <1>3, <1>4, <1>6, <1>7, <1>10
<1>11. ASSUME NEW w \in Workers, q = <<>>, BusyOf(f) = {w} PROVE DoingOf(q, f) = {f[w]}
              /\ f[w] \in Reqs
  BY <1>2, <1>5, <1>6, <1>7, <1>11
<1> QED
  BY <1>1, <1>8, <1>9, <1>10, <1>11

\* uv_cond_signal wakes at most one that waits.
LEMMA SignalKeeps ==
  ASSUME PoolAssumption, NEW f \in [Workers -> States \union Reqs], NEW g, g \in Signalled(f) \/ g \in {f}
  PROVE  /\ g \in [Workers -> States \union Reqs]
         /\ {w \in Workers : g[w] \in Reqs} = {w \in Workers : f[w] \in Reqs}
<1>1. "wait" \in States /\ "woken" \in States /\ "wait" \notin Reqs /\ "woken" \notin Reqs
  BY DEF States, PoolAssumption
<1>2. g = f \/ \E w \in Workers : f[w] = "wait" /\ g = [f EXCEPT ![w] = "woken"]
  BY DEF Signalled
<1>3. ASSUME NEW w \in Workers, f[w] = "wait", g = [f EXCEPT ![w] = "woken"]
      PROVE  /\ g \in [Workers -> States \union Reqs]
             /\ {x \in Workers : g[x] \in Reqs} = {x \in Workers : f[x] \in Reqs}
  <2>1. g \in [Workers -> States \union Reqs]
    BY <1>1, <1>3
  <2>2. \A x \in Workers : g[x] \in Reqs <=> f[x] \in Reqs
    BY <1>1, <1>3
  <2> QED
    BY <2>1, <2>2
<1> QED
  BY <1>2, <1>3

\* post on an idle pool
LEMMA PostKeeps ==
  ASSUME PoolAssumption, PoolType, wq = <<>>, NEW r \in Reqs \union {Exit}, Post(r)
  PROVE  /\ wq' = <<r>> /\ wq' \in Seq(Reqs \union {Exit})
         /\ worker' \in [Workers -> States \union Reqs] /\ Busy' = Busy
<1>1. wq' = <<r>> /\ wq' \in Seq(Reqs \union {Exit})
  BY DEF Post
<1>2. worker \in [Workers -> States \union Reqs]
      /\ (worker' \in Signalled(worker) \/ worker' \in {worker})
  BY DEF Post, PoolType
<1>3. /\ worker' \in [Workers -> States \union Reqs]
      /\ {w \in Workers : worker'[w] \in Reqs} = {w \in Workers : worker[w] \in Reqs}
  BY ONLY PoolAssumption, <1>2, SignalKeeps
<1> QED
  BY <1>1, <1>3 DEF Busy

\* The same after a step.
LEMMA CatKeptNext ==
  ASSUME PoolAssumption, CatAssumption, CatTyped', Woken',
         Idling' \/ Posted' \/ Working' \/ Worked' \/ Leaving' \/ Killed',
         NEW doing, doing = DoingOf(wq', worker'), cat' = "start" \/ doing # {} => result' >= 0, PipeOK',
         NEW k, k = (IF "write" \in doing THEN iovlen' ELSE IF lwq' = <<"read">> /\ result' > 0 THEN result' ELSE 0),
         InFlight(k)'
  PROVE  CatKept' /\ PipeOK'
<1>1. "write" \in Reqs
  BY DEF CatAssumption
<1>2. /\ \A r \in Reqs : Unfinished(r)' <=> r \in doing
      /\ (\E r \in Reqs : Unfinished(r)') <=> doing # {}
  BY DEF DoingOf, Unfinished
<1>3. k = InBuf'
  BY <1>1, <1>2 DEF InBuf
<1>4. CatCopies'
  BY <1>2, <1>3 DEF CatCopies, InFlight, PipeOK
<1>5. OneRequest'
  BY DEF OneRequest, Woken, Idling, Posted, Working, Worked, Leaving, Killed
<1> QED
  BY <1>4, <1>5 DEF CatKept

\* What the invariant says before it.
LEMMA CatKeptNow ==
  ASSUME PoolAssumption, CatAssumption, CatKept, PipeOK
  PROVE  /\ CatTyped /\ Woken /\ (Idling \/ Posted \/ Working \/ Worked \/ Leaving \/ Killed)
         /\ cat = "start" \/ DoingOf(wq, worker) # {} => result >= 0
         /\ InFlight(IF "write" \in DoingOf(wq, worker) THEN iovlen
                     ELSE IF lwq = <<"read">> /\ result > 0 THEN result ELSE 0)
<1>1. "write" \in Reqs
  BY DEF CatAssumption
<1>2. /\ \A r \in Reqs : Unfinished(r) <=> r \in DoingOf(wq, worker)
      /\ (\E r \in Reqs : Unfinished(r)) <=> DoingOf(wq, worker) # {}
  BY DEF DoingOf, Unfinished
<1>3. InBuf = IF "write" \in DoingOf(wq, worker) THEN iovlen
              ELSE IF lwq = <<"read">> /\ result > 0 THEN result ELSE 0
  BY <1>1, <1>2 DEF InBuf
<1>4. CatCopies /\ OneRequest /\ CatTyped
  BY DEF CatKept
<1>5. Woken /\ (Idling \/ Posted \/ Working \/ Worked \/ Leaving \/ Killed)
  BY <1>4, Places
<1>6. PICK k : k = InBuf
  OBVIOUS
<1>7. InFlight(k) /\ (cat = "start" \/ DoingOf(wq, worker) # {} => result >= 0)
  BY <1>2, <1>4, <1>6 DEF CatCopies, InFlight
<1> QED
  BY <1>3, <1>4, <1>5, <1>6, <1>7

\* The bytes when nothing of them moves.
LEMMA FlightSame ==
  ASSUME NEW k, InFlight(k), UNCHANGED <<unread, buf, pipe, took>>, result' >= 0 => result >= 0
  PROVE  InFlight(k)'
BY DEF InFlight, Part

USE PoolAssumption, CatAssumption

\* uv_fs_open is posted.
LEMMA CatStartStep ==
  ASSUME CatKept, PipeOK, CatStart, took' = took
  PROVE  CatKept' /\ PipeOK'
<1>1. /\ CatTyped /\ Woken /\ Idling /\ result >= 0 /\ "open" \in Reqs /\ "write" \in Reqs
      /\ "open" # "write"
  BY CatKeptNow DEF CatStart, Posted, Working, Worked, Leaving, Killed, CatAssumption
<1>2. /\ wq' = <<"open">> /\ wq' \in Seq(Reqs \union {Exit})
      /\ worker' \in [Workers -> States \union Reqs] /\ Busy' = {}
  <2>1. PICK r \in Reqs \union {Exit} : r = "open"
    BY <1>1
  <2>2. PoolType /\ wq = <<>> /\ Busy = {} /\ Post(r)
    BY <1>1, <2>1 DEF CatTyped, CatType, Idling, CatStart
  <2> QED
    BY <2>1, <2>2, PostKeeps
<1>3. DoingOf(wq, worker) = {} /\ DoingOf(wq', worker') = {"open"}
  <2>1. wq = <<>> /\ BusyOf(worker) = {} /\ BusyOf(worker') = {}
    BY <1>1, <1>2 DEF Idling, BusyOf, Busy
  <2> QED
    BY <1>1, <1>2, <2>1, DoingWhere
<1>4. CatTyped'
  BY <1>1, <1>2 DEF CatTyped, CatType, PoolType, CatStart, CatStates
<1>5. Woken' /\ Posted'
  BY <1>1, <1>2 DEF Woken, Posted, Idling, CatStart
<1>6. PICK k : k = 0
  OBVIOUS
<1>7. InFlight(k)'
  <2>1. InFlight(k)
    BY <1>1, <1>3, <1>6, CatKeptNow DEF Idling
  <2> QED
    BY <2>1, FlightSame DEF CatStart
<1>8. PipeOK'
  BY DEF PipeOK, CatStart, Part
<1>9. PICK doing : doing = DoingOf(wq', worker')
  OBVIOUS
<1>10. k = (IF "write" \in doing THEN iovlen' ELSE IF lwq' = <<"read">> /\ result' > 0 THEN result' ELSE 0)
  BY <1>1, <1>3, <1>6, <1>9 DEF CatStart, Idling
<1>11. result' >= 0
  BY <1>1 DEF CatStart
<1> QED
  BY <1>4, <1>5, <1>7, <1>8, <1>9, <1>10, <1>11, CatKeptNext

\* The steps of a worker that is not at a request.
LEMMA PoolStepStep ==
  ASSUME CatKept, PipeOK, NEW w \in Workers, PoolStep(w),
         UNCHANGED <<catVars, pipe, took, tee, ignored>>
  PROVE  CatKept' /\ PipeOK'
<1>1. /\ CatTyped /\ Woken /\ (Idling \/ Posted \/ Working \/ Worked \/ Leaving \/ Killed)
      /\ cat = "start" \/ DoingOf(wq, worker) # {} => result >= 0
      /\ InFlight(IF "write" \in DoingOf(wq, worker) THEN iovlen
                  ELSE IF lwq = <<"read">> /\ result > 0 THEN result ELSE 0)
  BY CatKeptNow
<1>2. /\ lwq' = lwq /\ pending' = pending /\ efd' = efd
      /\ cat' = cat /\ unread' = unread /\ buf' = buf /\ iovlen' = iovlen
      /\ result' = result /\ pipe' = pipe
  BY DEF PoolStep, WorkerWaits, WorkerTakes, WorkerExits, catVars
<1>3. /\ wq \in Seq(Reqs \union {Exit}) /\ worker \in [Workers -> States \union Reqs]
      /\ worker[w] \in States /\ worker[w] \notin Reqs
      /\ "wait" \in States /\ "gone" \in States /\ "wait" \notin Reqs /\ "gone" \notin Reqs
  BY <1>1 DEF CatTyped, CatType, PoolType, PoolStep, WorkerWaits, WorkerTakes, WorkerExits, Looking,
              States, PoolAssumption
<1>4. /\ wq' \in Seq(Reqs \union {Exit}) /\ worker' \in [Workers -> States \union Reqs]
      /\ DoingOf(wq', worker') = DoingOf(wq, worker)
      /\ Idling' \/ Posted' \/ Working' \/ Worked' \/ Leaving' \/ Killed'
  <2>1. CASE WorkerWaits(w)
    <3>1. wq' = wq /\ worker' = [worker EXCEPT ![w] = "wait"]
      BY <2>1 DEF WorkerWaits
    <3>2. worker' \in [Workers -> States \union Reqs]
          /\ \A x \in Workers : worker'[x] = worker[x] \/ x = w
      BY <1>3, <3>1
    <3>3. worker'[w] = "wait"
      BY <1>3, <3>1
    <3>4. Busy' = Busy /\ DoingOf(wq', worker') = DoingOf(wq, worker)
      BY <1>3, <3>1, <3>2, <3>3 DEF Busy, DoingOf
    <3> QED
      BY <1>1, <1>2, <1>3, <3>1, <3>2, <3>4 DEF Idling, Posted, Working, Worked, Leaving, Killed, TeeGone
  <2>2. CASE WorkerTakes(w)
    <3>1. wq # <<>> /\ Head(wq) # Exit /\ wq' = Tail(wq)
          /\ worker' = [worker EXCEPT ![w] = Head(wq)]
      BY <2>2 DEF WorkerTakes
    <3>2. Posted
      <4>1. Head(<<Exit>>) = Exit
        OBVIOUS
      <4> QED
        BY <1>1, <3>1, <4>1 DEF Idling, Working, Worked, Leaving, Killed
    <3>3. PICK r \in Reqs : wq = <<r>>
      BY <3>2 DEF Posted
    <3>4. wq' = <<>> /\ worker' = [worker EXCEPT ![w] = r]
      BY <3>1, <3>3
    <3>5. worker' \in [Workers -> States \union Reqs] /\ worker'[w] = r
          /\ \A x \in Workers : x # w => worker'[x] = worker[x]
      BY <1>3, <3>4
    <3>6. BusyOf(worker) = {} /\ BusyOf(worker') = {w}
      <4>1. \A x \in Workers : worker[x] \notin Reqs
        BY <3>2 DEF Posted, Busy
      <4> QED
        BY <3>5, <4>1 DEF BusyOf
    <3>7. DoingOf(wq', worker') = {r} /\ DoingOf(wq, worker) = {r}
      <4>1. DoingOf(wq', worker') = {worker'[w]}
        <5>1. PICK q, f : q = wq' /\ f = worker'
          OBVIOUS
        <5>2. q = <<>> /\ BusyOf(f) = {w}
          BY <3>4, <3>6, <5>1
        <5>3. DoingOf(q, f) = {f[w]}
          BY ONLY PoolAssumption, w \in Workers, <5>2, DoingWhere
        <5> QED
          BY <5>1, <5>3
      <4>2. DoingOf(wq, worker) = {r}
        BY <3>3, <3>6, DoingWhere
      <4> QED
        BY <3>5, <4>1, <4>2
    <3>8. Working'
      BY <1>2, <3>2, <3>4, <3>6 DEF Posted, Working, Busy, BusyOf
    <3>9. wq' \in Seq(Reqs \union {Exit})
      BY <3>4, EmptySeq
    <3> QED
      BY <3>5, <3>7, <3>8, <3>9
  <2>3. CASE WorkerExits(w)
    <3>1. wq # <<>> /\ Head(wq) = Exit /\ wq' = wq
          /\ worker' \in Signalled([worker EXCEPT ![w] = "gone"])
      BY <2>3 DEF WorkerExits
    <3>2. Leaving
      <4>1. \A r \in Reqs : Head(<<r>>) = r /\ r # Exit
        BY DEF PoolAssumption
      <4>2. ~Posted
        BY <3>1, <4>1 DEF Posted
      <4> QED
        BY <1>1, <3>1, <4>2 DEF Idling, Working, Worked, Killed
    <3>3. PICK f : f = [worker EXCEPT ![w] = "gone"]
      OBVIOUS
    <3>4. f \in [Workers -> States \union Reqs] /\ f[w] = "gone"
          /\ \A x \in Workers : x # w => f[x] = worker[x]
      BY <1>3, <3>3
    <3>5. /\ worker' \in [Workers -> States \union Reqs]
          /\ {x \in Workers : worker'[x] \in Reqs} = {x \in Workers : f[x] \in Reqs}
      <4>1. worker' \in Signalled(f) \/ worker' \in {f}
        BY <3>1, <3>3
      <4> QED
        BY ONLY PoolAssumption, <3>4, <4>1, SignalKeeps
    <3>6. BusyOf(worker) = {} /\ BusyOf(worker') = {} /\ Busy' = {}
      <4>1. \A x \in Workers : worker[x] \notin Reqs
        BY <3>2 DEF Leaving, Busy
      <4>2. \A x \in Workers : f[x] \notin Reqs
        BY <1>3, <3>4, <4>1
      <4> QED
        BY <3>5, <4>1, <4>2 DEF BusyOf, Busy
    <3>7. DoingOf(wq', worker') = {} /\ DoingOf(wq, worker) = {}
      BY <3>1, <3>2, <3>6, DoingWhere DEF Leaving
    <3>8. Leaving'
      BY <1>2, <3>1, <3>2, <3>6 DEF Leaving
    <3> QED
      BY <1>3, <3>1, <3>5, <3>7, <3>8
  <2> QED
    BY <2>1, <2>2, <2>3 DEF PoolStep
<1>5. CatTyped'
  BY <1>1, <1>2, <1>4 DEF CatTyped, CatType, PoolType
<1>6. Woken'
  BY <1>1, <1>2 DEF Woken
<1>7. PICK doing : doing = DoingOf(wq', worker')
  OBVIOUS
<1>8. PICK k : k = IF "write" \in DoingOf(wq, worker) THEN iovlen
                  ELSE IF lwq = <<"read">> /\ result > 0 THEN result ELSE 0
  OBVIOUS
<1>9. InFlight(k)'
  <2>1. InFlight(k)
    BY <1>1, <1>8
  <2> QED
    BY <1>2, <2>1, FlightSame
<1>10. PipeOK'
  BY <1>2 DEF PipeOK, Part
<1>11. k = (IF "write" \in doing THEN iovlen' ELSE IF lwq' = <<"read">> /\ result' > 0 THEN result' ELSE 0)
  BY <1>2, <1>4, <1>7, <1>8
<1>12. cat' = "start" \/ doing # {} => result' >= 0
  BY <1>1, <1>2, <1>4, <1>7
<1> QED
  BY <1>4, <1>5, <1>6, <1>7, <1>9, <1>10, <1>11, <1>12, CatKeptNext

\* What any request has in common when a worker finishes it.
LEMMA FinishFacts ==
  ASSUME CatKept, PipeOK, NEW w \in Workers, NEW r \in Reqs, worker[w] = r, Finish(w), cat' = cat
  PROVE  /\ CatTyped /\ cat = "poll" /\ result >= 0 /\ lwq' = <<r>>
         /\ InFlight(IF r = "write" THEN iovlen ELSE 0)
         /\ PoolType' /\ Woken' /\ Worked' /\ DoingOf(wq', worker') = {}
<1>1. /\ CatTyped /\ Woken /\ (Idling \/ Posted \/ Working \/ Worked \/ Leaving \/ Killed)
      /\ cat = "start" \/ DoingOf(wq, worker) # {} => result >= 0
      /\ InFlight(IF "write" \in DoingOf(wq, worker) THEN iovlen
                  ELSE IF lwq = <<"read">> /\ result > 0 THEN result ELSE 0)
  BY CatKeptNow
<1>2. w \in Busy
  BY DEF Busy
<1>3. Working /\ Busy = {w}
  BY <1>1, <1>2 DEF Idling, Posted, Working, Worked, Leaving, Killed
<1>4. DoingOf(wq, worker) = {r}
  <2>1. PICK q, f : q = wq /\ f = worker
    OBVIOUS
  <2>2. q = <<>> /\ BusyOf(f) = {w}
    BY <1>3, <2>1 DEF Working, Busy, BusyOf
  <2>3. DoingOf(q, f) = {f[w]}
    BY ONLY PoolAssumption, w \in Workers, <2>2, DoingWhere
  <2> QED
    BY <2>1, <2>3
<1>5. InFlight(IF r = "write" THEN iovlen ELSE 0) /\ result >= 0 /\ cat = "poll"
  <2>1. lwq = <<>> /\ cat = "poll"
    BY <1>3 DEF Working
  <2>2. (IF "write" \in DoingOf(wq, worker) THEN iovlen
         ELSE IF lwq = <<"read">>
         /\ result > 0 THEN result ELSE 0) = IF r = "write" THEN iovlen ELSE 0
    BY <1>4, <2>1
  <2>3. DoingOf(wq, worker) # {}
    BY <1>4
  <2> QED
    BY <1>1, <2>1, <2>2, <2>3
<1>6. /\ wq' = <<>> /\ lwq' = <<r>> /\ worker' = [worker EXCEPT ![w] = "run"]
      /\ efd' = TRUE /\ pending' = TRUE
  <2>1. wq = <<>> /\ lwq = <<>> /\ pending = FALSE
    BY <1>1, <1>3 DEF Working, Woken
  <2>2. Append(<<>>, r) = <<r>>
    OBVIOUS
  <2>3. lwq' = <<r>>
    BY <2>1, <2>2 DEF Finish
  <2>4. efd' = (efd \/ ~pending) /\ pending' = TRUE /\ wq' = wq
        /\ worker' = [worker EXCEPT ![w] = "run"]
    BY DEF Finish
  <2> QED
    BY <2>1, <2>3, <2>4
<1>7. worker \in [Workers -> States \union Reqs] /\ "run" \in States /\ "run" \notin Reqs
  BY <1>1 DEF CatTyped, CatType, PoolType, States, PoolAssumption
<1>8. worker' \in [Workers -> States \union Reqs] /\ worker'[w] = "run"
      /\ \A x \in Workers : x # w => worker'[x] = worker[x]
  BY <1>6, <1>7
<1>9. BusyOf(worker') = {} /\ Busy' = {}
  <2>1. \A x \in Workers : x # w => worker[x] \notin Reqs
    BY <1>3 DEF Busy
  <2> QED
    BY <1>7, <1>8, <2>1 DEF BusyOf, Busy
<1>10. DoingOf(wq', worker') = {}
  BY <1>6, <1>9, DoingWhere
<1>11. PoolType'
  <2>1. wq' \in Seq(Reqs \union {Exit}) /\ lwq' \in Seq(Reqs)
    BY <1>6, EmptySeq
  <2> QED
    BY <1>6, <1>8, <2>1 DEF PoolType
<1>12. Woken' /\ Worked'
  BY <1>5, <1>6, <1>9 DEF Woken, Worked
<1> QED
  BY <1>1, <1>5, <1>6, <1>10, <1>11, <1>12

\* A worker opens the file.
LEMMA CatOpenStep ==
  ASSUME CatKept, PipeOK, NEW w \in Workers, CatOpen(w), took' = took
  PROVE  CatKept' /\ PipeOK'
<1>1. "open" \in Reqs /\ "open" # "write" /\ "open" # "read" /\ worker[w] = "open"
      /\ Finish(w)
      /\ cat' = cat /\ unread' = unread /\ buf' = buf /\ iovlen' = iovlen /\ pipe' = pipe
      /\ result' \in {0, -1}
  BY DEF CatOpen, CatAssumption
<1>2. /\ CatTyped /\ cat = "poll" /\ result >= 0 /\ lwq' = <<"open">>
      /\ InFlight(0) /\ PoolType' /\ Woken' /\ Worked' /\ DoingOf(wq', worker') = {}
  <2>1. PICK r \in Reqs : r = "open"
    BY <1>1
  <2>2. /\ CatTyped /\ cat = "poll" /\ result >= 0 /\ lwq' = <<r>>
        /\ InFlight(IF r = "write" THEN iovlen ELSE 0)
        /\ PoolType' /\ Woken' /\ Worked' /\ DoingOf(wq', worker') = {}
    BY <1>1, <2>1, FinishFacts
  <2>3. (IF r = "write" THEN iovlen ELSE 0) = 0
    BY <2>1
  <2> QED
    BY <2>1, <2>2, <2>3
<1>3. PICK k : k = 0
  OBVIOUS
<1>4. InFlight(k)'
  BY <1>1, <1>2, <1>3, FlightSame
<1>5. CatTyped'
  BY <1>1, <1>2 DEF CatTyped, CatType
<1>6. PipeOK'
  BY <1>1 DEF PipeOK, Part
<1>7. PICK doing : doing = DoingOf(wq', worker')
  OBVIOUS
<1>8. k = (IF "write" \in doing THEN iovlen' ELSE IF lwq' = <<"read">> /\ result' > 0 THEN result' ELSE 0)
  BY <1>1, <1>2, <1>3, <1>7
<1>9. cat' = "start" \/ doing # {} => result' >= 0
  BY <1>1, <1>2, <1>7
<1> QED
  BY <1>2, <1>4, <1>5, <1>6, <1>7, <1>8, <1>9, CatKeptNext

\* The bytes that a read moves from the file to the buffer.
LEMMA FlightRead ==
  ASSUME PipeOK, InFlight(0), unread \in Seq(Byte), result >= 0, NEW n \in Nat, n > 0, n <= Len(unread),
         buf' = SubSeq(unread, 1, n), unread' = SubSeq(unread, n + 1, Len(unread)),
         UNCHANGED <<pipe, took>>, took \in Nat
  PROVE  InFlight(n)' /\ buf' \in Seq(Byte) /\ unread' \in Seq(Byte)
<1>1. PICK l \in Nat, e \in Nat, x \in Nat, p \in Nat, t \in Nat :
        l = Len(Input) /\ x = Len(unread) /\ e = l - x /\ x <= l /\ p = Len(pipe)
        /\ t = took /\ t + p + 0 = e
  <2>1. Len(Input) \in Nat /\ Len(unread) \in Nat /\ Len(unread) <= Len(Input)
    BY PartAll, LenProperties DEF InFlight
  <2>2. Len(Input) - Len(unread) \in Nat
    BY <2>1
  <2>3. Len(pipe) \in Nat
    BY LenProperties DEF PipeOK
  <2> QED
    BY <2>1, <2>2, <2>3 DEF InFlight
<1>2. unread = Part(e, l) /\ l - e = x /\ e <= l
  BY <1>1 DEF InFlight
<1>3. /\ 0 <= n /\ n <= l - e /\ l - e <= l - e /\ e + n \in Nat /\ e <= e + n
      /\ e + n <= l /\ (e + n) - e = n
      /\ e + (l - e) = l /\ e + 0 = e /\ 0 + 1 = 1 /\ l - e = x /\ l - (e + n) = x - n
      /\ l - (x - n) = e + n
      /\ (e + n) - n = e /\ x - n <= l /\ t + p + n = e + n /\ l - e \in Nat
  <2>1. n \in Nat /\ l \in Nat /\ e \in Nat /\ x \in Nat /\ n <= x /\ e = l - x /\ x <= l
        /\ t \in Nat /\ p \in Nat /\ t + p + 0 = e
    BY <1>1
  <2> QED
    BY ONLY <2>1
<1>4. Cut(e, l, 0, n) /\ Cut(e, l, n, l - e)
  <2>1. PICK z \in Nat : z = l - e
    BY <1>3
  <2>2. e <= l /\ l <= Len(Input) /\ 0 <= n /\ n <= l - e /\ n <= z /\ z <= l - e
    <3>1. l <= Len(Input) /\ l \in Nat
      BY <1>1
    <3>2. z \in Nat /\ z <= z
      OBVIOUS
    <3> QED
      BY <1>2, <1>3, <2>1, <3>1, <3>2
  <2>3. Cut(e, l, 0, n)
    BY ONLY e \in Nat, l \in Nat, n \in Nat, <2>2, 0 \in Nat, PartCut
  <2>4. Cut(e, l, n, z)
    BY ONLY e \in Nat, l \in Nat, n \in Nat, z \in Nat, <2>2, PartCut
  <2> QED
    BY ONLY <2>1, <2>3, <2>4
<1>5. buf' = Part(e, e + n) /\ unread' = Part(e + n, l)
  <2>1. SubSeq(unread, 0 + 1, n) = Part(e + 0, e + n)
    BY <1>2, <1>4 DEF Cut
  <2>2. SubSeq(unread, n + 1, x) = Part(e + n, l)
    BY <1>2, <1>3, <1>4 DEF Cut
  <2> QED
    BY <1>1, <1>3, <2>1, <2>2
<1>6. /\ Part(e, e + n) \in Seq(Byte) /\ Len(Part(e, e + n)) = n
      /\ Part(e + n, l) \in Seq(Byte) /\ Len(Part(e + n, l)) = x - n
  <2>1. PICK y \in Nat : y = e + n
    BY <1>3
  <2>2. e <= y /\ y <= l /\ l <= Len(Input) /\ y <= Len(Input)
    BY <1>1, <1>3, <2>1
  <2>3. Part(e, y) \in Seq(Byte) /\ Len(Part(e, y)) = y - e
    BY ONLY e \in Nat, y \in Nat, <2>2, PartType
  <2>4. Part(y, l) \in Seq(Byte) /\ Len(Part(y, l)) = l - y
    BY ONLY l \in Nat, y \in Nat, <2>2, PartType
  <2> QED
    BY <1>3, <2>1, <2>3, <2>4
<1>7. Len(unread') = x - n /\ buf' \in Seq(Byte) /\ Len(buf') = n
  BY <1>5, <1>6
<1>8. SubSeq(buf', 1, n) = buf'
  BY ONLY <1>7, SubSeqFull
<1>9. PICK end : end = e + n /\ end = Len(Input) - Len(unread')
           /\ Len(unread') <= Len(Input)
  BY <1>1, <1>3, <1>7
<1>10. took' + Len(pipe') + n = end /\ end - n = e /\ Len(Input) = l
  BY <1>1, <1>3, <1>9
<1>11. unread' = Part(end, Len(Input)) /\ SubSeq(buf', 1, n) = Part(end - n, end)
  BY <1>5, <1>8, <1>9, <1>10
<1>12. InFlight(n)'
  BY <1>9, <1>10, <1>11 DEF InFlight, Part
<1> QED
  BY <1>5, <1>6, <1>12

\* A worker reads: what it read is in the buffer.
LEMMA CatReadStep ==
  ASSUME CatKept, PipeOK, NEW w \in Workers, CatRead(w), took' = took, took \in Nat
  PROVE  CatKept' /\ PipeOK'
<1>1. "read" \in Reqs /\ worker[w] = "read" /\ Finish(w)
      /\ cat' = cat /\ iovlen' = iovlen /\ pipe' = pipe
      /\ result' \in -1 .. iovlen /\ result' <= Len(unread)
      /\ (result' > 0 => buf' = SubSeq(unread, 1, result') /\ unread' = SubSeq(unread, result' + 1, Len(unread)))
      /\ (~(result' > 0) => buf' = buf /\ unread' = unread)
  BY DEF CatRead, CatAssumption
<1>2. /\ CatTyped /\ cat = "poll" /\ result >= 0 /\ lwq' = <<"read">>
      /\ InFlight(0) /\ PoolType' /\ Woken' /\ Worked' /\ DoingOf(wq', worker') = {}
  <2>1. PICK r \in Reqs : r = "read"
    BY <1>1
  <2>2. /\ CatTyped /\ cat = "poll" /\ result >= 0 /\ lwq' = <<r>>
        /\ InFlight(IF r = "write" THEN iovlen ELSE 0)
        /\ PoolType' /\ Woken' /\ Worked' /\ DoingOf(wq', worker') = {}
    BY <1>1, <2>1, FinishFacts
  <2>3. (IF r = "write" THEN iovlen ELSE 0) = 0
    BY <2>1
  <2> QED
    BY <2>1, <2>2, <2>3
<1>3. iovlen \in 1 .. CatBuf /\ CatBuf \in Nat /\ result' \in -1 .. CatBuf
  <2>1. iovlen \in 1 .. CatBuf /\ CatBuf \in Nat
    BY <1>2 DEF CatTyped, CatType, CatAssumption
  <2> QED
    BY <1>1, <2>1
<1>4. PICK k : k = IF result' > 0 THEN result' ELSE 0
  OBVIOUS
<1>5. InFlight(k)' /\ buf' \in Seq(Byte) /\ unread' \in Seq(Byte)
  <2>1. CASE result' > 0
    <3>1. PICK n \in Nat : n = result'
      BY <1>3, <2>1
    <3>2. InFlight(n)' /\ buf' \in Seq(Byte) /\ unread' \in Seq(Byte)
      BY <1>1, <1>2, <2>1, <3>1, FlightRead DEF CatTyped
    <3> QED
      BY <1>4, <2>1, <3>1, <3>2
  <2>2. CASE ~(result' > 0)
    <3>1. k = 0 /\ InFlight(k)
      BY <1>2, <1>4, <2>2
    <3>2. InFlight(k)'
      BY <1>1, <1>2, <2>2, <3>1, FlightSame
    <3> QED
      BY <1>1, <1>2, <2>2, <3>2 DEF CatTyped
  <2> QED
    BY <2>1, <2>2
<1>6. CatTyped'
  BY <1>1, <1>2, <1>3, <1>5 DEF CatTyped, CatType
<1>7. PipeOK'
  BY <1>1 DEF PipeOK, Part
<1>8. PICK doing : doing = DoingOf(wq', worker')
  OBVIOUS
<1>9. k = (IF "write" \in doing THEN iovlen' ELSE IF lwq' = <<"read">> /\ result' > 0 THEN result' ELSE 0)
  BY <1>2, <1>4, <1>8
<1>10. cat' = "start" \/ doing # {} => result' >= 0
  BY <1>1, <1>2, <1>8
<1> QED
  BY <1>2, <1>5, <1>6, <1>7, <1>8, <1>9, <1>10, CatKeptNext

\* The bytes that a write moves from the buffer to the pipe.
LEMMA FlightWrite ==
  ASSUME PipeOK, NEW n \in Nat, InFlight(n), buf \in Seq(Byte), unread \in Seq(Byte), result >= 0,
         pipe' = pipe \o SubSeq(buf, 1, n), UNCHANGED <<unread, buf, took>>, took \in Nat
  PROVE  InFlight(0)' /\ PipeOK' /\ Len(pipe') = Len(pipe) + n
<1>1. PICK l \in Nat, x \in Nat, p \in Nat, t \in Nat :
        l = Len(Input) /\ x = Len(unread) /\ x <= l /\ p = Len(pipe) /\ t = took
  <2>1. Len(Input) \in Nat /\ Len(unread) \in Nat /\ Len(unread) <= Len(Input)
    BY PartAll, LenProperties DEF InFlight
  <2>2. Len(pipe) \in Nat
    BY LenProperties DEF PipeOK
  <2> QED
    BY <2>1, <2>2
<1>2. PICK end \in Nat, m \in Nat : end = l - x /\ m = t + p
  <2>1. l - x \in Nat /\ t + p \in Nat
    BY <1>1
  <2> QED
    BY <2>1
<1>3. /\ t + p + n = end /\ SubSeq(buf, 1, n) = Part(end - n, end) /\ unread = Part(end, l)
      /\ pipe = Part(t, m)
  BY <1>1, <1>2 DEF InFlight, PipeOK
<1>4. end - n = m /\ t <= m /\ m <= end /\ end <= l /\ t <= end /\ end - t = p + n
      /\ t + (p + n) = end
      /\ t + (p + n) + 0 = end /\ end - 0 = end
  BY ONLY <1>1, <1>2, <1>3, n \in Nat, l \in Nat, x \in Nat, p \in Nat, t \in Nat, end \in Nat, m \in Nat
<1>5. pipe' = Part(t, end)
  <2>1. Part(t, m) \o Part(m, end) = Part(t, end)
    <3>1. t <= m /\ m <= end /\ end <= Len(Input)
      BY <1>1, <1>4
    <3> QED
      BY ONLY t \in Nat, m \in Nat, end \in Nat, <3>1, PartJoin
  <2> QED
    BY <1>3, <1>4, <2>1
<1>6. Part(t, end) \in Seq(Byte) /\ Len(Part(t, end)) = end - t
  BY <1>1, <1>4, PartType
<1>7. Len(pipe') = p + n /\ took' = t /\ pipe' \in Seq(Byte)
  BY <1>1, <1>4, <1>5, <1>6
<1>8. PipeOK'
  <2>1. took' + Len(pipe') = end
    BY <1>4, <1>7
  <2> QED
    BY <1>1, <1>4, <1>5, <1>7, <2>1 DEF PipeOK, Part
<1>9. InFlight(0)'
  <2>1. SubSeq(buf', 1, 0) = <<>> /\ Part(end, end) = <<>>
    BY SubSeqEmpty, PartNone
  <2>2. took' + Len(pipe') + 0 = end /\ Len(Input) - Len(unread') = end
        /\ Len(unread') <= Len(Input)
    BY <1>1, <1>2, <1>4, <1>7
  <2>3. unread' = Part(end, Len(Input)) /\ SubSeq(buf', 1, 0) = Part(end - 0, end)
    BY <1>1, <1>3, <1>4, <2>1
  <2> QED
    BY <2>2, <2>3 DEF InFlight, Part
<1> QED
  BY <1>1, <1>7, <1>8, <1>9

\* A worker writes: the buffer is in the pipe.
LEMMA CatWriteStep ==
  ASSUME CatKept, PipeOK, NEW w \in Workers, NEW gone, NEW ignores, CatWrite(w, gone, ignores),
         took' = took, took \in Nat
  PROVE  CatKept' /\ PipeOK'
<1>1. "write" \in Reqs /\ "write" # "read" /\ worker[w] = "write" /\ Finish(w)
      /\ cat' = cat /\ unread' = unread /\ buf' = buf /\ iovlen' = iovlen
      /\ \/ Len(pipe) + iovlen <= PipeCap /\ pipe' = pipe \o SubSeq(buf, 1, iovlen)
            /\ result' = iovlen
         \/ result' = -1 /\ pipe' = pipe
  BY DEF CatWrite, CatAssumption
<1>2. /\ CatTyped /\ cat = "poll" /\ result >= 0 /\ lwq' = <<"write">>
      /\ InFlight(iovlen) /\ PoolType' /\ Woken' /\ Worked' /\ DoingOf(wq', worker') = {}
  <2>1. PICK r \in Reqs : r = "write"
    BY <1>1
  <2>2. /\ CatTyped /\ cat = "poll" /\ result >= 0 /\ lwq' = <<r>>
        /\ InFlight(IF r = "write" THEN iovlen ELSE 0)
        /\ PoolType' /\ Woken' /\ Worked' /\ DoingOf(wq', worker') = {}
    BY <1>1, <2>1, FinishFacts
  <2>3. (IF r = "write" THEN iovlen ELSE 0) = iovlen
    BY <2>1
  <2> QED
    BY <2>1, <2>2, <2>3
<1>3. PICK n \in Nat : n = iovlen /\ n \in 1 .. CatBuf
  <2>1. iovlen \in 1 .. CatBuf /\ CatBuf \in Nat
    BY <1>2 DEF CatTyped, CatType, CatAssumption
  <2> QED
    BY <2>1
<1>4. CASE Len(pipe) + n <= PipeCap /\ pipe' = pipe \o SubSeq(buf, 1, n) /\ result' = n
  <2>1. InFlight(0)' /\ PipeOK' /\ Len(pipe') = Len(pipe) + n
    <3>1. InFlight(n) /\ buf \in Seq(Byte) /\ unread \in Seq(Byte) /\ result >= 0
          /\ UNCHANGED <<unread, buf, took>>
      BY <1>1, <1>2, <1>3 DEF CatTyped
    <3> QED
      BY ONLY PipeOK, n \in Nat, <3>1, <1>4, took \in Nat, FlightWrite
  <2>2. result' \in -1 .. CatBuf /\ Len(pipe') <= PipeCap
    BY <1>3, <1>4, <2>1
  <2>3. CatTyped'
    BY <1>1, <1>2, <2>2 DEF CatTyped, CatType
  <2>4. PICK k : k = 0
    OBVIOUS
  <2>5. PICK doing : doing = DoingOf(wq', worker')
    OBVIOUS
  <2>6. k = (IF "write" \in doing THEN iovlen' ELSE IF lwq' = <<"read">> /\ result' > 0 THEN result' ELSE 0)
    BY <1>1, <1>2, <2>4, <2>5
  <2>7. cat' = "start" \/ doing # {} => result' >= 0
    BY <1>1, <1>2, <2>5
  <2>8. InFlight(k)'
    BY <2>1, <2>4
  <2> QED
    BY <1>2, <2>1, <2>3, <2>5, <2>6, <2>7, <2>8, CatKeptNext
<1>5. CASE result' = -1 /\ pipe' = pipe
  <2>1. PICK k : k = 0
    OBVIOUS
  <2>2. InFlight(k)'
    BY <1>1, <1>2, <1>5 DEF InFlight, Part
  <2>3. CatTyped'
    <3>1. result' \in -1 .. CatBuf
      BY <1>3, <1>5
    <3> QED
      BY <1>1, <1>2, <1>5, <3>1 DEF CatTyped, CatType
  <2>4. PipeOK'
    BY <1>5 DEF PipeOK, Part
  <2>5. PICK doing : doing = DoingOf(wq', worker')
    OBVIOUS
  <2>6. k = (IF "write" \in doing THEN iovlen' ELSE IF lwq' = <<"read">> /\ result' > 0 THEN result' ELSE 0)
    BY <1>1, <1>2, <2>1, <2>5
  <2>7. cat' = "start" \/ doing # {} => result' >= 0
    BY <1>1, <1>2, <2>5
  <2> QED
    BY <1>2, <2>2, <2>3, <2>4, <2>5, <2>6, <2>7, CatKeptNext
<1> QED
  BY <1>1, <1>3, <1>4, <1>5

\* The signal kills uvcat while one worker is at its write: what was in the
\* buffer is lost, and nothing is done any more.
LEMMA CatKilledStep ==
  ASSUME CatKept, PipeOK, NEW w \in Workers, CatKilled(w, TeeGone, ignored),
         UNCHANGED <<took, tee, ignored>>
  PROVE  CatKept' /\ PipeOK'
<1>1. /\ CatTyped /\ Woken /\ (Idling \/ Posted \/ Working \/ Worked \/ Leaving \/ Killed)
      /\ cat = "start" \/ DoingOf(wq, worker) # {} => result >= 0
      /\ InFlight(IF "write" \in DoingOf(wq, worker) THEN iovlen
                  ELSE IF lwq = <<"read">> /\ result > 0 THEN result ELSE 0)
  BY CatKeptNow
<1>2. /\ worker[w] = "write" /\ "write" \in Reqs /\ TeeGone /\ ~ignored
      /\ worker' = [v \in Workers |-> "gone"] /\ cat' = "gone" /\ result' = -1
      /\ UNCHANGED <<wq, lwq, pending, efd, unread, buf, iovlen, pipe>>
  BY DEF CatKilled, CatAssumption
<1>3. wq = <<>> /\ lwq = <<>>
  <2>1. w \in Busy
    BY <1>2 DEF Busy
  <2> QED
    BY <1>1, <2>1 DEF Idling, Posted, Working, Worked, Leaving, Killed
<1>4. "gone" \in States /\ "gone" \notin Reqs
  BY DEF States, PoolAssumption
<1>5. Busy' = {} /\ BusyOf(worker') = {}
  BY <1>2, <1>4 DEF Busy, BusyOf
<1>6. Killed' /\ Woken'
  BY <1>1, <1>2, <1>3, <1>5 DEF Killed, Woken, TeeGone
<1>7. CatTyped'
  <2>1. -1 \in -1 .. CatBuf
    BY CatAssumption
  <2>2. worker' \in [Workers -> States \union Reqs]
    BY <1>2, <1>4
  <2> QED
    BY <1>1, <1>2, <2>1, <2>2 DEF CatTyped, CatType, PoolType, CatStates
<1>8. PICK doing : doing = DoingOf(wq', worker')
  OBVIOUS
<1>9. doing = {}
  BY <1>2, <1>3, <1>5, <1>8, DoingWhere
<1>10. PICK k : k = 0
  OBVIOUS
<1>11. InFlight(k)'
  BY <1>1, <1>2 DEF InFlight, Part
<1>12. PipeOK'
  BY <1>2 DEF PipeOK, Part
<1>13. k = (IF "write" \in doing THEN iovlen' ELSE IF lwq' = <<"read">> /\ result' > 0 THEN result' ELSE 0)
  BY <1>2, <1>3, <1>9, <1>10
<1>14. cat' = "start" \/ doing # {} => result' >= 0
  BY <1>2, <1>9
<1> QED
  BY <1>6, <1>7, <1>8, <1>11, <1>12, <1>13, <1>14, CatKeptNext

\* The loop is woken for the completion.
LEMMA CatWakesStep ==
  ASSUME CatKept, PipeOK, CatWakes, took' = took
  PROVE  CatKept' /\ PipeOK'
<1>1. /\ CatTyped /\ Woken /\ (Idling \/ Posted \/ Working \/ Worked \/ Leaving \/ Killed)
      /\ cat = "start" \/ DoingOf(wq, worker) # {} => result >= 0
      /\ InFlight(IF "write" \in DoingOf(wq, worker) THEN iovlen
                  ELSE IF lwq = <<"read">> /\ result > 0 THEN result ELSE 0)
  BY CatKeptNow
<1>2. /\ cat = "poll" /\ efd /\ pending /\ cat' = "done" /\ efd' = FALSE /\ pending' = FALSE
      /\ UNCHANGED <<wq, worker, lwq, unread, buf, iovlen, result, pipe>>
  BY DEF CatWakes, AsyncEvent
<1>3. Worked
  <2>1. lwq # <<>>
    BY <1>1, <1>2 DEF Woken, CatTyped, CatType, PoolType
  <2> QED
    BY <1>1, <2>1 DEF Idling, Posted, Working, Leaving, Killed
<1>4. Worked' /\ Woken'
  BY <1>2, <1>3 DEF Worked, Woken, Busy
<1>5. CatTyped'
  BY <1>1, <1>2 DEF CatTyped, CatType, PoolType, CatStates
<1>6. PICK doing : doing = DoingOf(wq', worker')
  OBVIOUS
<1>7. PICK k : k = IF "write" \in DoingOf(wq, worker) THEN iovlen
                  ELSE IF lwq = <<"read">> /\ result > 0 THEN result ELSE 0
  OBVIOUS
<1>8. InFlight(k)'
  <2>1. InFlight(k)
    BY <1>1, <1>7
  <2> QED
    BY <1>2, <2>1, FlightSame
<1>9. PipeOK'
  BY <1>2 DEF PipeOK, Part
<1>10. k = (IF "write" \in doing THEN iovlen' ELSE IF lwq' = <<"read">> /\ result' > 0 THEN result' ELSE 0)
  BY <1>2, <1>6, <1>7
<1>11. cat' = "start" \/ doing # {} => result' >= 0
  BY <1>1, <1>2, <1>6
<1> QED
  BY <1>4, <1>5, <1>6, <1>8, <1>9, <1>10, <1>11, CatKeptNext

\* Without a request the loop ends.
LEMMA CatExitsStep ==
  ASSUME CatKept, PipeOK, CatExits, took' = took
  PROVE  CatKept' /\ PipeOK'
<1>1. /\ CatTyped /\ Woken /\ (Idling \/ Posted \/ Working \/ Worked \/ Leaving \/ Killed)
      /\ cat = "start" \/ DoingOf(wq, worker) # {} => result >= 0
      /\ InFlight(IF "write" \in DoingOf(wq, worker) THEN iovlen
                  ELSE IF lwq = <<"read">> /\ result > 0 THEN result ELSE 0)
  BY CatKeptNow
<1>2. cat = "exit" /\ cat' = "gone"
      /\ UNCHANGED <<wq, worker, lwq, pending, efd, unread, buf, iovlen, result, pipe>>
  BY DEF CatExits, poolVars
<1>3. Leaving
  BY <1>1, <1>2 DEF Idling, Posted, Working, Worked, Killed
<1>4. Leaving' /\ Woken'
  BY <1>1, <1>2, <1>3 DEF Leaving, Woken, Busy
<1>5. CatTyped'
  BY <1>1, <1>2 DEF CatTyped, CatType, PoolType, CatStates
<1>6. PICK doing : doing = DoingOf(wq', worker')
  OBVIOUS
<1>7. PICK k : k = IF "write" \in DoingOf(wq, worker) THEN iovlen
                  ELSE IF lwq = <<"read">> /\ result > 0 THEN result ELSE 0
  OBVIOUS
<1>8. InFlight(k)'
  <2>1. InFlight(k)
    BY <1>1, <1>7
  <2> QED
    BY <1>2, <2>1, FlightSame
<1>9. PipeOK'
  BY <1>2 DEF PipeOK, Part
<1>10. k = (IF "write" \in doing THEN iovlen' ELSE IF lwq' = <<"read">> /\ result' > 0 THEN result' ELSE 0)
  BY <1>2, <1>6, <1>7
<1>11. cat' = "start" \/ doing # {} => result' >= 0
  BY <1>1, <1>2, <1>6
<1> QED
  BY <1>4, <1>5, <1>6, <1>8, <1>9, <1>10, <1>11, CatKeptNext

\* The callback of a completed request posts the next one.
LEMMA CatDoneStep ==
  ASSUME CatKept, PipeOK, CatDone, took' = took
  PROVE  CatKept' /\ PipeOK'
<1>1. /\ CatTyped /\ Woken /\ (Idling \/ Posted \/ Working \/ Worked \/ Leaving \/ Killed)
      /\ cat = "start" \/ DoingOf(wq, worker) # {} => result >= 0
      /\ InFlight(IF "write" \in DoingOf(wq, worker) THEN iovlen
                  ELSE IF lwq = <<"read">> /\ result > 0 THEN result ELSE 0)
  BY CatKeptNow
<1>2. cat = "done" /\ lwq # <<>>
  BY DEF CatDone
<1>3. Worked
  BY <1>1, <1>2 DEF Idling, Posted, Working, Leaving, Killed
<1>4. PICK r \in Reqs : lwq = <<r>>
  BY <1>3 DEF Worked
<1>5. PICK next : next = OnDone(r)
  OBVIOUS
<1>6. /\ Post(next) /\ cat' = (IF next = Exit THEN "exit" ELSE "poll")
      /\ iovlen' = (IF next = "write" THEN result ELSE iovlen) /\ lwq' = <<>>
      /\ UNCHANGED <<pending, efd, unread, buf, result, pipe>>
  <2>1. Head(lwq) = r
    BY <1>4
  <2> QED
    BY <1>5, <2>1 DEF CatDone
<1>7. "read" \in Reqs /\ "write" \in Reqs /\ "read" # Exit /\ "write" # Exit
      /\ "read" # "write"
  BY DEF CatAssumption, PoolAssumption
<1>8. result \in -1 .. CatBuf /\ CatBuf \in Nat /\ iovlen \in 1 .. CatBuf
  BY <1>1 DEF CatTyped, CatType, CatAssumption
<1>9. /\ next \in {"read", "write", Exit} /\ (next # Exit => result >= 0)
      /\ (next = "write" => r = "read" /\ result > 0) /\ (next = "read" => r # "read")
      /\ (next = Exit => result < 0 \/ (r = "read" /\ result = 0))
  BY <1>5, <1>7, <1>8 DEF OnDone
<1>10. /\ wq' = <<next>> /\ wq' \in Seq(Reqs \union {Exit})
       /\ worker' \in [Workers -> States \union Reqs] /\ Busy' = {}
  <2>1. PoolType /\ wq = <<>> /\ Busy = {} /\ next \in Reqs \union {Exit}
    BY <1>1, <1>3, <1>7, <1>9 DEF CatTyped, CatType, Worked
  <2> QED
    BY <1>6, <2>1, PostKeeps
<1>11. DoingOf(wq, worker) = {}
  <2>1. wq = <<>> /\ BusyOf(worker) = {}
    BY <1>3 DEF Worked, BusyOf, Busy
  <2> QED
    BY <2>1, DoingWhere
<1>12. PICK doing : doing = DoingOf(wq', worker')
  OBVIOUS
<1>13. doing = IF next = Exit THEN {} ELSE {next}
  <2>1. BusyOf(worker') = {}
    BY <1>10 DEF BusyOf, Busy
  <2>2. next # Exit => next \in Reqs
    BY <1>7, <1>9
  <2>3. next = Exit => DoingOf(wq', worker') = {}
    BY <1>10, <2>1, DoingWhere
  <2>4. next # Exit => DoingOf(wq', worker') = {next}
    BY <1>10, <2>1, <2>2, DoingWhere
  <2> QED
    BY <1>12, <2>3, <2>4
<1>14. CatTyped'
  <2>1. iovlen' \in 1 .. CatBuf
    BY <1>6, <1>8, <1>9
  <2>2. cat' \in CatStates /\ lwq' \in Seq(Reqs)
    BY <1>6, EmptySeq DEF CatStates
  <2> QED
    BY <1>1, <1>6, <1>10, <2>1, <2>2 DEF CatTyped, CatType, PoolType
<1>15. Woken' /\ (Posted' \/ Leaving')
  <2>1. Woken'
    BY <1>1, <1>2, <1>6 DEF Woken
  <2>2. Posted' \/ Leaving'
    BY <1>6, <1>7, <1>9, <1>10 DEF Posted, Leaving
  <2> QED
    BY <2>1, <2>2
<1>16. PICK k : k = IF r = "read" /\ result > 0 THEN result ELSE 0
  OBVIOUS
<1>17. InFlight(k)'
  <2>1. InFlight(k)
    <3>1. lwq = <<"read">> <=> r = "read"
      BY <1>4
    <3> QED
      BY <1>1, <1>11, <1>16, <3>1
  <2> QED
    BY <1>6, <2>1, FlightSame
<1>18. PipeOK'
  BY <1>6 DEF PipeOK, Part
<1>19. k = (IF "write" \in doing THEN iovlen' ELSE IF lwq' = <<"read">> /\ result' > 0 THEN result' ELSE 0)
       \/ result' < 0
  <2>1. lwq' # <<"read">>
    BY <1>6
  <2>2. CASE next = "write"
    BY <1>6, <1>7, <1>9, <1>13, <1>16, <2>2
  <2>3. CASE next # "write"
    <3>1. "write" \notin doing
      BY <1>13, <2>3
    <3>2. k = 0 \/ result < 0
      BY <1>7, <1>8, <1>9, <1>16, <2>3
    <3> QED
      BY <1>6, <2>1, <3>1, <3>2
  <2> QED
    BY <2>2, <2>3
<1>20. cat' = "start" \/ doing # {} => result' >= 0
  BY <1>6, <1>9, <1>13
<1>21. PICK j : j = (IF "write" \in doing THEN iovlen' ELSE IF lwq' = <<"read">> /\ result' > 0 THEN result' ELSE 0)
  OBVIOUS
<1>22. InFlight(j)'
  <2>1. CASE result' < 0
    <3>1. ~(result' >= 0)
      BY <1>6, <1>8, <2>1
    <3> QED
      BY <1>17, <3>1 DEF InFlight
  <2> QED
    BY <1>17, <1>19, <1>21, <2>1
<1> QED
  BY <1>12, <1>14, <1>15, <1>18, <1>20, <1>21, <1>22, CatKeptNext

\* Every step of uvcat.  Once it is gone it does nothing more.
LEMMA CatStep ==
  ASSUME CatKept, PipeOK, TeeKept, CatNext
  PROVE  CatKept' /\ PipeOK' /\ TeeKept' /\ UNCHANGED <<teeVars, ignored>>
<1>1. UNCHANGED <<teeVars, ignored>> /\ took' = took /\ tee' = tee
  BY DEF CatNext, teeVars
<1>2. took \in Nat
  BY TookType
<1>3. CatKept' /\ PipeOK'
  <2>1. CASE CatMain
    BY <1>1, <2>1, CatStartStep, CatWakesStep, CatDoneStep, CatExitsStep DEF CatMain
  <2>2. ASSUME NEW w \in Workers, CatWorks(w, TeeGone, ignored) PROVE CatKept' /\ PipeOK'
    <3>1. CASE PoolStep(w) /\ UNCHANGED <<catVars, pipe>>
      BY <1>1, <3>1, PoolStepStep
    <3>2. PICK gone : gone = TeeGone
      OBVIOUS
    <3>3. CASE CatOpen(w)
      BY <1>1, <3>3, CatOpenStep
    <3>4. CASE CatRead(w)
      BY <1>1, <1>2, <3>4, CatReadStep
    <3>5. CASE CatWrite(w, gone, ignored)
      BY <1>1, <1>2, <3>5, CatWriteStep
    <3>6. CASE CatKilled(w, TeeGone, ignored)
      BY <1>1, <3>6, CatKilledStep
    <3> QED
      BY <2>2, <3>1, <3>2, <3>3, <3>4, <3>5, <3>6 DEF CatWorks
  <2> QED
    BY <2>1, <2>2 DEF CatNext
<1>4. WriterGone => WriterGone' /\ pipe' = pipe
  <2> SUFFICES ASSUME cat = "gone" PROVE cat' = "gone" /\ pipe' = pipe
    BY DEF WriterGone
  <2>1. Leaving \/ Killed
    BY CatKeptNow DEF Idling, Posted, Working, Worked
  <2>2. \A w \in Workers : worker[w] \notin Reqs
    BY <2>1 DEF Leaving, Killed, Busy
  <2>3. "open" \in Reqs /\ "read" \in Reqs /\ "write" \in Reqs
    BY DEF CatAssumption
  <2> QED
    BY <2>2, <2>3 DEF CatNext, CatMain, CatWorks, CatStart, CatWakes, CatDone, CatExits, CatOpen, CatRead, CatWrite,
       CatKilled, catVars
<1>5. TeeTyped' /\ FileKept' /\ \A d \in Dests : Dest(d)'
  BY <1>1 DEF teeVars, TeeKept, TeeTyped, FileKept, Dest, DestOK, Fit, Reading
<1>6. TeeTurns'
  BY <1>1, <1>4 DEF teeVars, TeeKept, TeeTurns, Deadly
<1> QED
  BY <1>1, <1>3, <1>5, <1>6 DEF TeeKept

\* After a signal to workers of which none is busy, one looks or all are gone.
LEMMA SignalledOne ==
  ASSUME NEW f \in [Workers -> States \union Reqs], \A w \in Workers : f[w] \notin Reqs,
         NEW g, g \in Signalled(f)
  PROVE  /\ \/ \E w \in Workers : g[w] \in {"run", "woken"}
            \/ \A w \in Workers : g[w] = "gone"
         /\ \A w \in Workers : g[w] = "gone" => f[w] = "gone"
<1>1. CASE \A w \in Workers : f[w] # "wait"
  <2>1. g = f
    BY <1>1 DEF Signalled
  <2>2. \A w \in Workers : f[w] \in {"run", "woken", "gone"}
    BY <1>1 DEF States
  <2> QED
    BY <2>1, <2>2
<1>2. CASE \E w \in Workers : f[w] = "wait"
  <2>1. PICK w \in Workers : g = [f EXCEPT ![w] = "woken"]
    BY <1>2 DEF Signalled
  <2>2. g[w] = "woken" /\ \A x \in Workers : x # w => g[x] = f[x]
    BY <2>1
  <2> QED
    BY <2>2
<1> QED
  BY <1>1, <1>2

\* A post to a pool in which no worker is busy or gone finds one.
LEMMA PostIsSeen ==
  ASSUME PoolType, Busy = {}, \A w \in Workers : worker[w] # "gone", NEW r, Post(r)
  PROVE  /\ (\E w \in Workers : Looking(w)') \/ (\A w \in Workers : worker'[w] = "gone")
         /\ \A w \in Workers : worker'[w] # "gone"
<1>1. worker \in [Workers -> States \union Reqs] /\ \A w \in Workers : worker[w] \notin Reqs
  BY DEF PoolType, Busy
<1>2. CASE worker' \in Signalled(worker)
  BY <1>1, <1>2, SignalledOne DEF Looking
<1>3. CASE Idle = {} /\ worker' = worker
  <2>1. \A w \in Workers : worker[w] = "run"
    BY <1>1, <1>3 DEF Idle, States
  <2> QED
    BY <1>3, <2>1 DEF Looking
<1> QED
  BY <1>2, <1>3 DEF Post

\* uvcat's steps lose no wake-up: a request is posted when no worker is busy,
\* and the worker that leaves passes the exit message on.
LEMMA NoneForgottenKept ==
  ASSUME CatKept, PipeOK, NoneForgotten, CatNext
  PROVE  NoneForgotten'
<1>1. /\ CatTyped /\ PoolType /\ worker \in [Workers -> States \union Reqs]
      /\ Idling \/ Posted \/ Working \/ Worked \/ Leaving \/ Killed
  BY CatKeptNow DEF CatTyped, CatType, PoolType
<1>2. wq = <<>> \/ (Busy = {} /\ \E r \in Reqs \union {Exit} : wq = <<r>>)
  BY <1>1 DEF Idling, Posted, Working, Worked, Leaving, Killed
<1>3. \A r \in Reqs : r # Exit /\ r \notin States
  BY DEF PoolAssumption
<1>4. wq = <<Exit>> => cat \in {"exit", "gone"}
  BY <1>1, <1>3 DEF Idling, Posted, Working, Worked, Leaving, Killed
<1>5. ASSUME CatStart \/ CatDone PROVE NoneForgotten'
  <2>1. Busy = {} /\ wq = <<>> /\ \E r : Post(r)
    BY <1>1, <1>5 DEF CatStart, CatDone, Idling, Posted, Working, Worked, Leaving, Killed
  <2>2. \A w \in Workers : worker[w] # "gone"
    BY <1>5 DEF NoneForgotten, CatStart, CatDone
  <2>3. /\ (\E w \in Workers : Looking(w)') \/ (\A w \in Workers : worker'[w] = "gone")
        /\ \A w \in Workers : worker'[w] # "gone"
    BY <1>1, <2>1, <2>2, PostIsSeen
  <2> QED
    BY <2>3 DEF NoneForgotten
<1>6. ASSUME CatWakes \/ CatExits PROVE NoneForgotten'
  <2>1. UNCHANGED <<wq, worker>> /\ (cat \in {"exit", "gone"} => cat' \in {"exit", "gone"})
    BY <1>6 DEF CatWakes, CatExits, AsyncEvent, poolVars
  <2> QED
    BY <2>1 DEF NoneForgotten, Looking
<1>7. ASSUME NEW w \in Workers, CatWorks(w, TeeGone, ignored) PROVE NoneForgotten'
  <2>1. CatKilled(w, TeeGone, ignored) \/ cat' = cat
    BY <1>7 DEF CatWorks, CatOpen, CatRead, CatWrite, catVars
  <2>a. CASE CatKilled(w, TeeGone, ignored)
    BY <2>a DEF CatKilled, NoneForgotten
  <2>2. CASE cat' = cat /\ WorkerWaits(w)
    <3>1. wq' = <<>> /\ \A x \in Workers : worker'[x] = "gone" => worker[x] = "gone"
      BY <1>1, <2>2 DEF WorkerWaits
    <3> QED
      BY <2>2, <3>1 DEF NoneForgotten
  <2>3. CASE cat' = cat /\ WorkerTakes(w)
    <3>1. PICK r \in Reqs : wq = <<r>>
      BY <1>2, <2>3 DEF WorkerTakes
    <3>2. wq' = <<>> /\ worker' = [worker EXCEPT ![w] = r]
      BY <2>3, <3>1 DEF WorkerTakes
    <3>3. r # "gone"
      BY <1>3 DEF States
    <3>4. \A x \in Workers : worker'[x] = "gone" => worker[x] = "gone"
      BY <1>1, <3>2, <3>3
    <3> QED
      BY <2>3, <3>2, <3>4 DEF NoneForgotten
  <2>4. CASE cat' = cat /\ WorkerExits(w)
    <3>1. wq = <<Exit>> /\ Busy = {} /\ wq' = wq
      BY <1>2, <1>3, <2>4 DEF WorkerExits
    <3>2. PICK f : f = [worker EXCEPT ![w] = "gone"] /\ worker' \in Signalled(f)
      BY <2>4 DEF WorkerExits
    <3>3. f \in [Workers -> States \union Reqs] /\ \A x \in Workers : f[x] \notin Reqs
      <4>1. "gone" \in States /\ "gone" \notin Reqs
        BY <1>3 DEF States
      <4>2. \A x \in Workers : worker[x] \notin Reqs
        BY <3>1 DEF Busy
      <4> QED
        BY <1>1, <3>2, <4>1, <4>2
    <3>4. (\E x \in Workers : Looking(x)') \/ (\A x \in Workers : worker'[x] = "gone")
      <4>1. PICK g : g = worker'
        OBVIOUS
      <4>2. (\E x \in Workers : g[x] \in {"run", "woken"}) \/ \A x \in Workers : g[x] = "gone"
        <5>1. g \in Signalled(f)
          BY <3>2, <4>1
        <5> QED
          BY <3>3, <5>1, SignalledOne
      <4> QED
        BY <4>1, <4>2 DEF Looking
    <3>5. cat' \in {"exit", "gone"}
      BY <1>4, <2>4, <3>1
    <3> QED
      BY <3>4, <3>5 DEF NoneForgotten
  <2>5. CASE cat' = cat /\ worker[w] \in Reqs /\ Finish(w)
    <3>1. wq' = <<>> /\ worker' = [worker EXCEPT ![w] = "run"]
      BY <1>2, <2>5 DEF Finish, Busy
    <3>2. \A x \in Workers : worker'[x] = "gone" => worker[x] = "gone"
      BY <1>1, <3>1
    <3> QED
      BY <2>5, <3>1, <3>2 DEF NoneForgotten
  <2>6. CatOpen(w) \/ CatRead(w) \/ CatWrite(w, TeeGone, ignored) => worker[w] \in Reqs /\ Finish(w)
    BY DEF CatOpen, CatRead, CatWrite, CatAssumption
  <2> QED
    BY <1>7, <2>1, <2>a, <2>2, <2>3, <2>4, <2>5, <2>6 DEF CatWorks, PoolStep
<1> QED
  BY <1>5, <1>6, <1>7 DEF CatNext, CatMain

\* uvtee's steps leave uvcat's half alone.
LEMMA CatIsLeft ==
  ASSUME CatKept, PipeOK, UNCHANGED <<poolVars, catVars>>, PipeOK', PipeMoves, took \in Nat,
         TeeGone => TeeGone', ignored' = ignored
  PROVE  CatKept'
<1>1. /\ CatTyped /\ Woken /\ (Idling \/ Posted \/ Working \/ Worked \/ Leaving \/ Killed)
      /\ cat = "start" \/ DoingOf(wq, worker) # {} => result >= 0
      /\ InFlight(IF "write" \in DoingOf(wq, worker) THEN iovlen
                  ELSE IF lwq = <<"read">> /\ result > 0 THEN result ELSE 0)
  BY CatKeptNow
<1>2. UNCHANGED <<wq, worker, lwq, pending, efd, cat, unread, buf, iovlen, result>>
  BY DEF poolVars, catVars
<1>3. PICK k : k = IF "write" \in DoingOf(wq, worker) THEN iovlen
                  ELSE IF lwq = <<"read">> /\ result > 0 THEN result ELSE 0
  OBVIOUS
<1>4. InFlight(k)'
  <2>1. InFlight(k)
    BY <1>1, <1>3
  <2> QED
    BY <1>2, <2>1 DEF InFlight, PipeMoves, Part
<1>5. CatTyped'
  <2>1. Len(pipe') <= PipeCap
    <3>1. Len(pipe) \in Nat /\ Len(pipe') \in Nat
      BY LenProperties DEF PipeOK
    <3>2. Len(pipe) <= PipeCap /\ PipeCap \in Nat /\ Len(pipe') <= Len(pipe)
      BY <1>1, CatAssumption DEF CatTyped, CatType, PipeMoves
    <3> QED
      BY ONLY <3>1, <3>2
  <2> QED
    BY <1>1, <1>2, <2>1 DEF CatTyped, CatType, PoolType
<1>6. Woken' /\ (Idling' \/ Posted' \/ Working' \/ Worked' \/ Leaving' \/ Killed')
  BY <1>1, <1>2 DEF Woken, Idling, Posted, Working, Worked, Leaving, Killed, Busy
<1>7. PICK doing : doing = DoingOf(wq', worker')
  OBVIOUS
<1>8. k = (IF "write" \in doing THEN iovlen' ELSE IF lwq' = <<"read">> /\ result' > 0 THEN result' ELSE 0)
  BY <1>2, <1>3, <1>7
<1>9. cat' = "start" \/ doing # {} => result' >= 0
  BY <1>1, <1>2, <1>7
<1> QED
  BY <1>4, <1>5, <1>6, <1>7, <1>8, <1>9, CatKeptNext

\* Nor do they wake or stop a worker.
LEMMA ForgottenIsLeft ==
  ASSUME NoneForgotten, UNCHANGED <<poolVars, catVars>>
  PROVE  NoneForgotten'
BY DEF NoneForgotten, Looking, poolVars, catVars

\* The two halves are the invariant.
LEMMA DestParts ==
  ASSUME NEW d \in Dests, dst[d] \in Stream(Byte)
  PROVE  Dest(d) <=>
         /\ dst[d].size = SizeOf(Queued(d))
         /\ \A i \in DOMAIN dst[d].q : ~dst[d].q[i].err /\ dst[d].q[i].rest # <<>>
         /\ \A i \in DOMAIN dst[d].done : dst[d].done[i].err \/ dst[d].done[i].rest = <<>>
         /\ \A i \in DOMAIN Queued(d) : Queued(d)[i].id = dst[d].called + i
         /\ \/ dst[d].called + Len(Queued(d)) = reads
            \/ ~dst[d].fd /\ dst[d].called = 0 /\ Queued(d) = <<>>
         /\ stdinOpen /\ ~dst[d].fd => dst[d].called = 0 /\ Queued(d) = <<>>
         /\ tee = "exited" => Queued(d) = <<>>
         /\ dst[d].fd /\ Queued(d) # <<>> =>
              \/ dst[d].fed \/ d \in batch
              \/ dst[d].pollout /\ dst[d].done = <<>>
         /\ copy[d] \in Seq(Byte)
         /\ copy[d] = Part(0, Len(copy[d])) /\ Owed(d) = Part(took - Len(Owed(d)), took)
         /\ Len(copy[d]) + Len(Owed(d)) <= took
         /\ (d \in Fit => Len(copy[d]) + Len(Owed(d)) = took)
<1>1. PICK s : s = dst[d]
  OBVIOUS
<1>2. /\ Total(s) \in Nat /\ (Total(s) > 0 <=> s.called > 0 \/ Requests(s) # <<>>)
         /\ s.called \in Nat
      /\ Bytes(s.q) \in Seq(Byte)
  BY <1>1, StreamFacts
<1>3. Total(s) = 0 <=> s.called = 0 /\ Requests(s) = <<>>
  BY <1>2
<1>4. Total(s) = s.called + Len(Requests(s))
  BY DEF Total
<1> QED
  BY <1>1, <1>2, <1>3, <1>4 DEF Dest, DestOK, Sound, Ordered, Queued, Owed

\* What a run is started with.
SigType == ignored \in BOOLEAN

\* The invariant is that of the two programs and of the pipe between them.
LEMMA InvParts ==
  Inv <=> CatKept /\ NoneForgotten /\ PipeOK /\ TeeKept /\ SigType
<1>1. ASSUME Inv PROVE CatKept /\ NoneForgotten /\ PipeOK /\ TeeKept /\ SigType
  <2>1. CatKept
    BY <1>1 DEF Inv, TypeOK, CatKept, CatTyped
  <2>2. PipeOK
    BY <1>1 DEF Inv, TypeOK, CatCopies, PipeOK
  <2>3. TeeTyped
    BY <1>1 DEF Inv, TypeOK, TeeTyped
  <2>4. ASSUME NEW d \in Dests PROVE Dest(d)
    <3>1. dst[d] \in Stream(Byte) /\ copy[d] \in Seq(Byte)
      BY <2>3 DEF TeeTyped
    <3> QED
      BY <1>1, <3>1, DestParts DEF Inv, Ledger, SizeExact, Armed, InOrder
  <2>5. FileKept
    <3>1. PICK s : s = dst["file"] /\ s \in Stream(Byte)
      BY <2>3 DEF TeeTyped, Dests
    <3>2. Total(s) > 0 <=> s.called > 0 \/ Requests(s) # <<>>
      BY <3>1, StreamFacts
    <3> QED
      BY <1>1, <3>1, <3>2 DEF Inv, FileWhole, FileKept, FileOpen, Written, Queued
  <2> QED
    BY <1>1, <2>1, <2>2, <2>3, <2>4, <2>5 DEF Inv, TypeOK, TeeKept, SigType
<1>2. ASSUME CatKept, NoneForgotten, PipeOK, TeeKept, SigType PROVE Inv
  <2>1. TypeOK
    <3>1. took \in 0 .. Len(Input)
      BY <1>2, TookType
    <3> QED
      BY <1>2, <3>1 DEF TypeOK, CatKept, CatTyped, PipeOK, TeeKept, TeeTyped, SigType
  <2>2. OneRequest /\ CatCopies /\ TeeTurns
    BY <1>2 DEF CatKept, TeeKept
  <2>3. \A d \in Dests : dst[d] \in Stream(Byte) /\ Dest(d)
    BY <1>2 DEF TeeKept, TeeTyped
  <2>4. Ledger /\ SizeExact /\ Armed /\ InOrder
    BY <2>3, DestParts DEF Ledger, SizeExact, Armed, InOrder
  <2>5. FileWhole
    <3>1. PICK s : s = dst["file"] /\ s \in Stream(Byte)
      BY <2>3 DEF Dests
    <3>2. Total(s) > 0 <=> s.called > 0 \/ Requests(s) # <<>>
      BY <3>1, StreamFacts
    <3> QED
      BY <1>2, <3>1, <3>2 DEF TeeKept, FileWhole, FileKept, FileOpen, Written, Queued
  <2> QED
    BY <1>2, <2>1, <2>2, <2>4, <2>5 DEF Inv
<1> QED
  BY <1>1, <1>2

\* uvtee starts with its half.
LEMMA TeeStarts ==
  ASSUME TeeInit
  PROVE  TeeKept
<1>1. PICK opened \in BOOLEAN : dst = [d \in Dests |-> NewStream(d = "stdout" \/ opened)]
  BY DEF TeeInit
<1>2. PICK r \in Disk : room = [d \in Dests |-> IF d = "file" THEN r ELSE OutCap]
  BY DEF TeeInit
<1>3. /\ tee = "pending" /\ stdinOpen = TRUE /\ batch = {} /\ evs = {} /\ hup = FALSE
      /\ count = 0
      /\ reads = 0 /\ took = 0 /\ copy = [d \in Dests |-> <<>>] /\ outGone = FALSE
  BY DEF TeeInit
<1>4. Part(0, 0) = <<>> /\ Bytes(<<>>) = <<>> /\ Len(<<>>) = 0 /\ <<>> \in Seq(Byte)
  BY PartNone, BytesEmpty
<1>5. ASSUME NEW d \in Dests
      PROVE  Dest(d) /\ dst[d].size = 0 /\ ~dst[d].pollout /\ (d = "stdout" => dst[d].fd)
             /\ copy[d] = <<>>
  <2>1. PICK open : open = (d = "stdout" \/ opened)
    OBVIOUS
  <2>2. PICK s : s = dst[d]
    OBVIOUS
  <2>3. /\ Sound(s) /\ Total(s) = 0 /\ Requests(s) = <<>> /\ s.q = <<>> /\ s.done = <<>>
        /\ s.fd = open /\ s.size = 0 /\ ~s.pollout
    <3>1. open \in BOOLEAN /\ s = NewStream(open)
      BY <1>1, <2>1, <2>2
    <3> QED
      BY <3>1, NewFacts
  <2>4. Ordered(copy[d], Bytes(s.q), took, d \in Fit)
    <3>1. copy[d] = <<>> /\ Bytes(s.q) = <<>> /\ took = 0
      BY <1>3, <1>4, <2>3
    <3>2. <<>> = Part(0, Len(<<>>)) /\ <<>> = Part(0 - Len(<<>>), 0)
          /\ Len(<<>>) + Len(<<>>) <= 0
          /\ Len(<<>>) + Len(<<>>) = 0
      BY <1>4
    <3> QED
      BY <1>4, <3>1, <3>2 DEF Ordered
  <2> QED
    BY <1>3, <2>1, <2>2, <2>3, <2>4 DEF Dest, DestOK
<1>6. TeeTyped
  <2>1. \A d \in Dests : dst[d] \in Stream(Byte)
    BY <1>5 DEF Dest, DestOK, Sound
  <2>2. dst \in [Dests -> Stream(Byte)] /\ copy \in [Dests -> Seq(Byte)]
        /\ room \in [Dests -> Nat]
    BY <1>1, <1>2, <1>3, <1>4, <2>1, TeeAssumption
  <2>3. 0 \in 0 .. Batch
    BY TeeAssumption
  <2>4. count \in 0 .. Batch /\ ~Reading /\ tee \in TeeStates
    BY <1>3, <2>3 DEF TeeStates, Reading
  <2> QED
    BY <1>3, <2>2, <2>4 DEF TeeTyped
<1>7. TeeTurns
  BY <1>3, <1>5 DEF TeeTurns, Dests
<1>8. FileKept
  BY <1>3, <1>4, <1>5 DEF FileKept, Dests
<1> QED
  BY <1>5, <1>6, <1>7, <1>8 DEF TeeKept

\* uvcat starts with its half, and the pipe is empty.
LEMMA CatStarts ==
  ASSUME CatInit(Input), took = 0
  PROVE  CatKept /\ NoneForgotten /\ PipeOK
<1>1. /\ wq = <<>> /\ lwq = <<>> /\ worker = [w \in Workers |-> "run"] /\ pending = FALSE
      /\ efd = FALSE
      /\ cat = "start" /\ unread = Input /\ buf = <<>> /\ iovlen = CatBuf /\ result = 0
      /\ pipe = <<>>
  BY DEF CatInit, PoolInit
<1>2. "run" \in States /\ "run" \notin Reqs /\ "write" \in Reqs /\ CatBuf \in Nat \ {0}
      /\ PipeCap \in Nat
  BY DEF States, PoolAssumption, CatAssumption
<1>3. /\ Part(0, 0) = <<>> /\ Part(0, Len(Input)) = Input /\ Len(Input) \in Nat
      /\ Len(<<>>) = 0
      /\ <<>> \in Seq(Byte) /\ Input \in Seq(Byte) /\ SubSeq(<<>>, 1, 0) = <<>>
  BY PartNone, PartAll, InputAssumption, SubSeqEmpty
<1>4. CatTyped
  <2>1. PoolType
    <3>1. wq \in Seq(Reqs \union {Exit}) /\ lwq \in Seq(Reqs)
      BY <1>1, EmptySeq
    <3> QED
      BY <1>1, <1>2, <3>1 DEF PoolType
  <2>2. iovlen \in 1 .. CatBuf /\ result \in -1 .. CatBuf /\ Len(pipe) <= PipeCap
    BY <1>1, <1>2, <1>3
  <2> QED
    BY <1>1, <1>3, <2>1, <2>2 DEF CatTyped, CatType, CatStates
<1>5. OneRequest
  <2>1. Busy = {}
    BY <1>1, <1>2 DEF Busy
  <2> QED
    BY <1>1, <2>1 DEF OneRequest
<1>6. PipeOK
  BY <1>1, <1>3 DEF PipeOK
<1>7. InBuf = 0
  <2>1. ~Unfinished("write")
    BY <1>1, <1>2 DEF Unfinished
  <2> QED
    BY <1>1, <2>1 DEF InBuf
<1>8. CatCopies
  <2>1. PICK end : end = Len(Input) - Len(unread) /\ end = 0
    BY <1>1, <1>3
  <2>2. took + Len(pipe) + InBuf = 0 /\ end - InBuf = 0
    BY <1>1, <1>3, <1>7, <2>1
  <2>3. Len(unread) <= Len(Input) /\ unread = Part(end, Len(Input))
        /\ SubSeq(buf, 1, InBuf) = Part(end - InBuf, end)
    <3>1. Len(unread) <= Len(Input) /\ unread = Part(0, Len(Input))
          /\ SubSeq(buf, 1, 0) = Part(0, 0)
      <4>1. Len(Input) <= Len(Input)
        BY <1>3
      <4>2. Part(0, Len(Input)) = Input /\ SubSeq(<<>>, 1, 0) = Part(0, 0)
        BY <1>3
      <4> QED
        BY <1>1, <4>1, <4>2
    <3> QED
      BY <1>7, <2>1, <2>2, <3>1
  <2> QED
    BY <1>1, <1>6, <2>1, <2>2, <2>3 DEF CatCopies, PipeOK
<1>9. NoneForgotten
  BY <1>1 DEF NoneForgotten
<1> QED
  BY <1>4, <1>5, <1>6, <1>8, <1>9 DEF CatKept

\* So the invariant holds at the start.
LEMMA Starts == Init => Inv
<1> SUFFICES ASSUME Init PROVE Inv
  OBVIOUS
<1>1. TeeInit /\ CatInit(Input) /\ took = 0 /\ SigType
  BY DEF Init, TeeInit, SigType
<1> QED
  BY <1>1, TeeStarts, CatStarts, InvParts

\* Every step, of whichever program: the invariant is kept, and the
\* destinations are served or nothing is changed for them.
Unserved == UNCHANGED <<took, copy>> /\ Fit' = Fit /\ \A d \in Dests : Owed(d)' = Owed(d)

\* And its parts make it up after a step.
LEMMA InvPartsNext ==
  (CatKept' /\ NoneForgotten' /\ PipeOK' /\ TeeKept' /\ SigType') => Inv'
BY InvParts, PTL

\* Every step keeps the invariant, and serves the destinations or changes
\* nothing for them.
LEMMA Steps ==
  ASSUME Inv, [Next]_vars
  PROVE  Inv' /\ (Serving \/ Unserved)
<1>1. CatKept /\ NoneForgotten /\ PipeOK /\ TeeKept /\ took \in Nat /\ SigType
  BY InvParts, TookType
<1>2. CASE CatNext
  <2>1. CatKept' /\ NoneForgotten' /\ PipeOK' /\ TeeKept' /\ UNCHANGED <<teeVars, ignored>>
    BY <1>1, <1>2, CatStep, NoneForgottenKept
  <2> QED
    BY <1>1, <2>1, InvPartsNext DEF SigType, teeVars, Unserved, Fit, Owed
<1>3. CASE TeeNext \/ OutNext
  <2>1. /\ TeeKept' /\ PipeOK' /\ PipeMoves /\ Serving /\ UNCHANGED <<poolVars, catVars, ignored>>
        /\ (TeeGone => TeeGone')
    BY <1>1, <1>3, TeeStep
  <2>2. CatKept' /\ NoneForgotten'
    BY <1>1, <2>1, CatIsLeft, ForgottenIsLeft
  <2> QED
    BY <1>1, <2>1, <2>2, InvPartsNext DEF SigType
<1>4. CASE UNCHANGED vars
  <2>1. UNCHANGED <<poolVars, catVars, teeVars, pipe, ignored>> /\ tee' = tee
    BY <1>4 DEF vars, teeVars
  <2>2. PipeOK' /\ PipeMoves
    <3>1. Len(pipe) \in Nat
      BY <1>1, LenProperties DEF PipeOK
    <3> QED
      BY <1>1, <2>1, <3>1 DEF teeVars, PipeOK, PipeMoves, Part
  <2>3. CatKept' /\ NoneForgotten'
    BY <1>1, <2>1, <2>2, CatIsLeft, ForgottenIsLeft DEF TeeGone
  <2>4. TeeKept'
    <3>1. TeeTyped' /\ FileKept' /\ \A d \in Dests : Dest(d)'
      BY <1>1, <2>1 DEF teeVars, TeeKept, TeeTyped, FileKept, Dest, DestOK, Fit, Reading
    <3>2. TeeTurns'
      BY <1>1, <2>1 DEF teeVars, catVars, TeeKept, TeeTurns, WriterGone, Deadly
    <3> QED
      BY <3>1, <3>2 DEF TeeKept
  <2> QED
    BY <1>1, <2>1, <2>2, <2>3, <2>4, InvPartsNext DEF SigType, teeVars, Unserved, Fit, Owed
<1> QED
  BY <1>2, <1>3, <1>4 DEF Next, AllGone

\* The invariant holds for every input, every pool, every buffer and every
\* capacity of the pipe and the outputs: there is never more than the one
\* request of uvcat in its pool, a worker is on its way to it, and to the
\* exit message until all have seen it, no completion is missed, uvtee's
\* reads and closes come in their turn, and each destination has been given
\* and is owed what its requests, answered in the order they were made, say.
THEOREM InvHolds == Spec => []Inv
<1>1. Inv /\ [Next]_vars => Inv'
  BY Steps
<1> QED
  BY Starts, <1>1, PTL DEF Spec

\* uvtee aborts only when the disk was found full, and it stays full.
AbortMeansFull == tee = "aborted" => room["file"] = 0
\* When it is killed the file lacks at most the read that killed it.
KilledMeansShort == tee = "killed" => OneReadShort

\* A dead uvtee changes nothing any more.
LEMMA DeadIsStill ==
  ASSUME Inv, [Next]_vars, tee \in {"aborted", "killed"}
  PROVE  tee' = tee /\ room'["file"] = room["file"] /\ UNCHANGED <<took, copy>>
<1>1. ~TeeNext
  BY DEF TeeNext, TeeReads, TeeLoop, PollReturns, ReadData, ReadKills, ReadNothing, ReadEof, FlushPending,
         Abort, FlushEvent, FlushKills, NextTurn, FinishClose, Reading
<1>2. OutNext => tee' = tee /\ room'["file"] = room["file"] /\ UNCHANGED <<took, copy>>
  BY DEF OutNext, OutIsRead, OutLeaves, Inv, TypeOK, Dests
<1>3. CatNext \/ UNCHANGED vars => UNCHANGED <<tee, room, took, copy>>
  BY DEF CatNext, vars, teeVars
<1> QED
  BY <1>1, <1>2, <1>3 DEF Next, AllGone

\* While uvtee lives the file is not behind.
LEMMA KilledSteps ==
  ASSUME Inv, KilledMeansShort, [Next]_vars
  PROVE  KilledMeansShort'
<1>1. CASE tee = "killed"
  BY <1>1, DeadIsStill DEF KilledMeansShort, OneReadShort
<1>2. CASE tee # "killed" /\ tee' = "killed"
  <2>1. FlushKills \/ ReadKills(pipe, pipe')
    BY <1>2 DEF Next, AllGone, CatNext, TeeNext, OutNext, TeeReads, TeeLoop, PollReturns, ReadData, ReadNothing,
                ReadEof, Abort, FlushPending, FlushEvent, NextTurn, FinishClose, Close, OutIsRead, OutLeaves, vars,
                teeVars
  <2>2. UNCHANGED <<copy, room>> /\ (took' = took \/ took' = took + Least(BufLen, Len(pipe)))
    BY <2>1 DEF FlushKills, ReadKills
  <2>3. room["file"] > 0 /\ copy["file"] # <<>> => Len(copy["file"]) = took
    BY <1>2 DEF Inv, FileWhole, FileOpen
  <2>4. PICK t \in Nat, p \in Nat : t = took /\ p = Len(pipe)
    BY InvParts, TookType
  <2>5. PICK l : l = Least(BufLen, p)
    OBVIOUS
  <2>6. l \in Nat /\ l <= BufLen /\ t <= t + BufLen /\ t + l <= t + BufLen
    <3>1. BufLen \in Nat
      BY TeeAssumption
    <3> QED
      BY ONLY <2>5, <3>1, t \in Nat, p \in Nat DEF Least
  <2> QED
    BY <2>2, <2>3, <2>4, <2>5, <2>6 DEF KilledMeansShort, OneReadShort
<1> QED
  BY <1>1, <1>2 DEF KilledMeansShort

\* The disk that was found full stays full.
LEMMA AbortSteps ==
  ASSUME Inv, AbortMeansFull, [Next]_vars
  PROVE  AbortMeansFull'
<1>1. room["file"] \in Nat /\ (room["file"] > 0 => ~dst["file"].pollout)
  BY DEF Inv, TypeOK, FileWhole, Dests
<1>2. CASE tee = "aborted"
  BY <1>2, DeadIsStill DEF AbortMeansFull
<1>3. CASE tee # "aborted" /\ tee' = "aborted"
  <2>1. Abort
    BY <1>3 DEF Next, AllGone, CatNext, TeeNext, OutNext, TeeReads, TeeLoop, PollReturns, ReadData, ReadKills,
                ReadNothing, ReadEof, FlushPending, FlushEvent, FlushKills, Dies, NextTurn, FinishClose, Close,
                OutIsRead, OutLeaves, vars, teeVars
  <2> QED
    BY <1>1, <2>1 DEF Abort, AbortMeansFull
<1> QED
  BY <1>2, <1>3 DEF AbortMeansFull

\* What the invariant amounts to.
LEMMA InvCopies ==
  ASSUME Inv, AbortMeansFull, KilledMeansShort
  PROVE  Copies
<1>1. took \in Nat /\ Len(Input) \in Nat /\ took <= Len(Input) /\ CatKept /\ PipeOK
      /\ TeeKept
  BY InvParts, TookType
<1>2. ASSUME NEW d \in Dests PROVE IsPrefix(copy[d], SubSeq(Input, 1, took))
  <2>1. PICK t \in Nat, g \in Nat : t = took /\ g = Len(copy[d]) /\ copy[d] = Part(0, g)
             /\ g <= t
    <3>1. copy[d] \in Seq(Byte) /\ Owed(d) \in Seq(Byte)
      <4>1. dst[d] \in Stream(Byte)
        BY DEF Inv, TypeOK
      <4> QED
        BY <4>1, StreamFacts DEF Inv, TypeOK, Owed
    <3>2. PICK g \in Nat, o \in Nat, t \in Nat : g = Len(copy[d]) /\ o = Len(Owed(d))
               /\ t = took /\ g + o <= t
      BY <1>1, <3>1, LenProperties DEF Inv, InOrder
    <3>3. g <= t
      BY ONLY g \in Nat, o \in Nat, t \in Nat, <3>2
    <3>4. copy[d] = Part(0, g)
      BY <3>2 DEF Inv, InOrder
    <3> QED
      BY <3>2, <3>3, <3>4
  <2>2. Part(0, t) \in Seq(Byte) /\ Len(Part(0, t)) = t /\ Part(0, g) \in Seq(Byte)
        /\ Len(Part(0, g)) = g
    <3>1. 0 <= t /\ t <= Len(Input) /\ 0 <= g /\ g <= Len(Input) /\ t - 0 = t /\ g - 0 = g
      BY <1>1, <2>1
    <3> QED
      BY <3>1, PartType
  <2>3. SubSeq(Part(0, t), 1, g) = Part(0, g)
    <3>1. 0 <= t /\ t <= Len(Input) /\ 0 <= g /\ g <= t - 0
      BY <1>1, <2>1
    <3>2. Cut(0, t, 0, g)
      BY ONLY 0 \in Nat, t \in Nat, g \in Nat, <3>1, PartCut
    <3> QED
      BY <3>2 DEF Cut
  <2>4. Part(0, t) = SubSeq(Input, 1, took)
    BY <2>1 DEF Part
  <2>5. SubSeq(copy[d], 1, g) = copy[d]
    BY <2>1, <2>2, SubSeqFull
  <2>6. PICK c, p : c = copy[d] /\ p = Part(0, t)
    OBVIOUS
  <2>7. IsPrefix(c, p)
    BY <2>1, <2>2, <2>3, <2>5, <2>6 DEF IsPrefix
  <2> QED
    BY <2>4, <2>6, <2>7
<1>3. FileOpen /\ room["file"] > 0 => Len(copy["file"]) = took
  BY DEF Inv, FileWhole, FileOpen
<1>4. ASSUME tee = "exited", result = 0, unread = <<>> PROVE took = Len(Input)
  <2>1. pipe = <<>> /\ cat = "gone"
    BY <1>4 DEF Inv, TeeTurns, WriterGone
  <2>2. Leaving
    BY <1>1, <1>4, <2>1, CatKeptNow DEF Idling, Posted, Working, Worked, Killed
  <2>3. DoingOf(wq, worker) = {}
    <3>1. BusyOf(worker) = {} /\ wq = <<Exit>>
      BY <2>2 DEF Leaving, Busy, BusyOf
    <3> QED
      BY <3>1, DoingWhere
  <2>4. InFlight(0)
    BY <1>1, <1>4, <2>2, <2>3, CatKeptNow DEF Leaving
  <2>5. took + Len(pipe) + 0 = Len(Input) - Len(unread) /\ Len(pipe) = 0 /\ Len(unread) = 0
    BY <1>4, <2>1, <2>4 DEF InFlight
  <2> QED
    BY <1>1, <2>5
<1>5. tee = "killed" => outGone /\ ~ignored
  BY DEF Inv, TeeTurns, Deadly
<1> QED
  BY <1>2, <1>3, <1>4, <1>5 DEF Copies, AbortMeansFull, KilledMeansShort

\* Each output is a beginning of what uvtee has read.  As long as uvtee has
\* not been killed the file is all of it while the disk has room, and once
\* both programs have ended well that is the whole input.  uvtee aborts only
\* because the disk was full, and is killed only when nobody reads standard
\* output and SIGPIPE is not ignored: the file, which is written after
\* standard output, then lacks the one read that killed it, or nothing.
THEOREM CopiesHolds == Spec => []Copies
<1>1. Init => AbortMeansFull /\ KilledMeansShort
  BY DEF Init, TeeInit, AbortMeansFull, KilledMeansShort
<1>2. Inv /\ AbortMeansFull /\ KilledMeansShort /\ [Next]_vars => (AbortMeansFull /\ KilledMeansShort)'
  BY AbortSteps, KilledSteps
<1>3. Inv /\ AbortMeansFull /\ KilledMeansShort => Copies
  BY InvCopies
<1> QED
  BY <1>1, <1>2, <1>3, InvHolds, PTL DEF Spec

\* uvtee, fed by uvcat, keeps what a tee promises: its steps are those of
\* TeeSpec, with what its queues hold as what it owes.
THEOREM PromiseKept == Spec => KeepsPromise
<1>1. Init => Promise!Init
  <2> SUFFICES ASSUME Init PROVE Promise!Init
    OBVIOUS
  <2>1. took = 0 /\ copy = [d \in Dests |-> <<>>] /\ Fit \in SUBSET Dests
    BY DEF Init, TeeInit, Fit
  <2>2. \A d \in Dests : Owed(d) = <<>>
    <3>1. \A open \in BOOLEAN : NewStream(open).q = <<>>
      BY DEF NewStream
    <3>2. \A d \in Dests : dst[d].q = <<>>
      BY <3>1 DEF Init, TeeInit
    <3> QED
      BY <3>2, BytesEmpty DEF Owed
  <2>3. [d \in Dests |-> Owed(d)] = [d \in Dests |-> <<>>]
    BY <2>2
  <2> QED
    BY <2>1, <2>3 DEF Promise!Init
<1>2. Inv /\ [Next]_vars => [Promise!Next]_<<took, copy, [d \in Dests |-> Owed(d)], Fit>>
  <2> SUFFICES ASSUME Inv, [Next]_vars
               PROVE  [Promise!Next]_<<took, copy, [d \in Dests |-> Owed(d)], Fit>>
    OBVIOUS
  <2>1. CASE Unserved
    BY <2>1 DEF Unserved
  <2>2. CASE Serving
    <3>1. took \in Nat /\ Len(Input) \in Nat /\ took' \in Nat
      <4>1. Inv'
        BY Steps
      <4> QED
        BY <4>1, InvParts, TookType DEF Inv, TypeOK
    <3>2. took' \in took .. Len(Input)
      BY <2>2, <3>1 DEF Serving
    <3>3. ASSUME NEW d \in Dests
          PROVE  Promise!Give(d, [e \in Dests |-> Owed(e)][d] \o SubSeq(Input, took + 1, took'))
      <4>1. Given(copy[d], Owed(d) \o Part(took, took'), copy'[d], Owed(d)', d \in Fit')
        BY <2>2 DEF Serving
      <4>2. [e \in Dests |-> Owed(e)][d] = Owed(d)
            /\ [e \in Dests |-> Owed(e)]'[d] = Owed(d)'
        OBVIOUS
      <4> QED
        BY <4>1, <4>2 DEF Given, Promise!Give, Part
    <3>4. copy' = [d \in Dests |-> copy'[d]]
      <4>1. Inv'
        BY Steps
      <4> QED
        BY <4>1 DEF Inv, TypeOK
    <3>5. Promise!Serve(took')
      BY <2>2, <3>3, <3>4 DEF Promise!Serve, Serving
    <3> QED
      BY <3>2, <3>5 DEF Promise!Next
  <2> QED
    BY <2>1, <2>2, Steps
<1> QED
  BY <1>1, <1>2, InvHolds, PTL DEF Spec, KeepsPromise, Promise!Spec

\* d is given a part of what is due once the input is read up to u.
GivenCase(t, u, c, o, c2, o2, fits) ==
  /\ t \in Nat /\ u \in Nat /\ t <= u /\ u <= Len(Input)
  /\ c \in Seq(Byte) /\ o \in Seq(Byte)
  /\ Given(c, o \o Part(t, u), c2, o2, fits)

\* What it has then, and what it is still owed.
GivenMakes(t, u, c, o, c2, o2, fits) ==
  /\ c2 \in Seq(Byte) /\ o2 \in Seq(Byte)
  /\ fits /\ c \o o = Part(0, t) => c2 \o o2 = Part(0, u)

\* What has been given and what is owed make up what has been read, and go
\* on doing so while the destination is fit.
LEMMA GivenComplete ==
  ASSUME NEW t, NEW u, NEW c, NEW o, NEW c2, NEW o2, NEW fits,
         GivenCase(t, u, c, o, c2, o2, fits)
  PROVE  GivenMakes(t, u, c, o, c2, o2, fits)
<1> USE DEF GivenCase
<1>1. PICK more, due : more = Part(t, u) /\ due = o \o more
  OBVIOUS
<1>2. more \in Seq(Byte) /\ due \in Seq(Byte) /\ Len(due) \in Nat
  <2>1. more \in Seq(Byte)
    BY <1>1, PartType
  <2>2. due \in Seq(Byte)
    BY <1>1, <2>1, ConcatProperties
  <2> QED
    BY <2>1, <2>2, LenProperties
<1>n. PICK n \in 0 .. Len(due) :
        /\ c2 = c \o SubSeq(due, 1, n)
        /\ \E k \in n .. Len(due) : o2 = SubSeq(due, k + 1, Len(due)) /\ (fits => k = n)
  BY <1>1 DEF Given
<1>k. PICK k \in n .. Len(due) : o2 = SubSeq(due, k + 1, Len(due)) /\ (fits => k = n)
  BY <1>n
<1>3. n \in Nat /\ k \in 0 .. Len(due) /\ Len(due) \in k .. Len(due) /\ 0 \in 0 .. Len(due)
      /\ 0 + 1 = 1
  BY <1>2
<1>4. SubSeq(due, 1, n) \in Seq(Byte) /\ o2 \in Seq(Byte) /\ c2 \in Seq(Byte)
  <2>1. SubSeq(due, 0 + 1, n) \in Seq(Byte)
    BY <1>2, <1>3, SubSeqFacts
  <2>2. SubSeq(due, k + 1, Len(due)) \in Seq(Byte)
    BY <1>2, <1>3, SubSeqFacts
  <2> QED
    BY <1>3, <1>k, <1>n, <2>1, <2>2, ConcatProperties
<1>5. ASSUME fits, c \o o = Part(0, t) PROVE c2 \o o2 = Part(0, u)
  <2>1. PICK h : h = SubSeq(due, 1, n) /\ h \in Seq(Byte) /\ c2 = c \o h
    BY <1>4, <1>n
  <2>2. h \o o2 = due
    <3>1. SubSeq(due, 0 + 1, n) \o SubSeq(due, n + 1, Len(due)) = SubSeq(due, 0 + 1, Len(due))
      <4>1. Len(due) \in n .. Len(due)
        BY <1>2, <1>3
      <4> QED
        BY <1>2, <1>3, <4>1, SubSeqJoin
    <3>2. SubSeq(due, 1, Len(due)) = due
      BY <1>2, SubSeqFull
    <3> QED
      BY <1>3, <1>5, <1>k, <2>1, <3>1, <3>2
  <2>3. (c \o h) \o o2 = c \o (h \o o2) /\ (c \o o) \o more = c \o (o \o more)
    <3>1. PICK S : S = Byte
      OBVIOUS
    <3>2. PICK front, back : front = c \o h /\ back = c \o o
      OBVIOUS
    <3>3. PICK x, y, r, m : x = c /\ y = o /\ r = o2 /\ m = more
      OBVIOUS
    <3>4. x \in Seq(S) /\ h \in Seq(S) /\ r \in Seq(S) /\ front = x \o h
      BY <1>4, <2>1, <3>1, <3>2, <3>3
    <3>5. x \in Seq(S) /\ y \in Seq(S) /\ m \in Seq(S) /\ back = x \o y
      BY <1>2, <3>1, <3>2, <3>3
    <3>6. front \o r = x \o (h \o r)
      BY ONLY <3>4, SMTT(60)
    <3>7. back \o m = x \o (y \o m)
      BY ONLY <3>5, SMTT(60)
    <3> QED
      BY ONLY <3>2, <3>3, <3>6, <3>7
  <2>4. Part(0, t) \o Part(t, u) = Part(0, u)
    <3>1. 0 <= t
      OBVIOUS
    <3> QED
      BY ONLY 0 \in Nat, t \in Nat, u \in Nat, t <= u, u <= Len(Input), <3>1, PartJoin
  <2> QED
    BY <1>1, <1>5, <2>1, <2>2, <2>3, <2>4
<1> QED
  BY <1>4, <1>5 DEF GivenMakes

\* What the promise keeps: a fit destination has been given, or is owed, all
\* of what has been read.
Complete == /\ took \in Nat /\ took <= Len(Input)
            /\ \A d \in Dests : /\ copy[d] \in Seq(Byte) /\ Owed(d) \in Seq(Byte)
                                /\ d \in Fit => copy[d] \o Owed(d) = Part(0, took)

\* The promise, with nothing but the data it speaks of, makes a fit
\* destination complete.
LEMMA PromiseMeans ==
  KeepsPromise => [](\A d \in Fit : copy[d] \o Owed(d) = SubSeq(Input, 1, took))
<1>1. Promise!Init => Complete
  <2> SUFFICES ASSUME Promise!Init PROVE Complete
    OBVIOUS
  <2>1. took = 0 /\ copy = [d \in Dests |-> <<>>]
        /\ [d \in Dests |-> Owed(d)] = [d \in Dests |-> <<>>]
    BY DEF Promise!Init
  <2>2. \A d \in Dests : copy[d] = <<>> /\ [e \in Dests |-> Owed(e)][d] = <<>>
    BY <2>1
  <2>3. <<>> \in Seq(Byte) /\ <<>> \o <<>> = <<>> /\ Part(0, 0) = <<>> /\ Len(Input) \in Nat
    BY EmptySeq, ConcatEmptySeq, PartNone, PartAll
  <2>4. \A d \in Dests : copy[d] = <<>> /\ Owed(d) = <<>>
    BY <2>2
  <2>5. took = 0 /\ 0 <= Len(Input)
    BY <2>1, <2>3
  <2> QED
    BY <2>3, <2>4, <2>5 DEF Complete
<1>2. Complete /\ [Promise!Next]_<<took, copy, [d \in Dests |-> Owed(d)], Fit>> => Complete'
  <2>1. ASSUME Complete, NEW t \in took .. Len(Input), Promise!Serve(t) PROVE Complete'
    <3>1. PICK s \in Nat, u \in Nat : s = took /\ u = t /\ s <= u /\ u <= Len(Input)
      <4>1. took \in Nat /\ Len(Input) \in Nat
        BY <2>1, PartAll DEF Complete
      <4>2. t \in Nat /\ took <= t /\ t <= Len(Input)
        BY <4>1
      <4> QED
        BY <4>1, <4>2
    <3>2. took' = u /\ Fit' \subseteq Fit
      BY <2>1, <3>1 DEF Promise!Serve
    <3>3. ASSUME NEW d \in Dests
          PROVE  /\ copy'[d] \in Seq(Byte) /\ Owed(d)' \in Seq(Byte)
                 /\ d \in Fit' => copy'[d] \o Owed(d)' = Part(0, u)
      <4>1. Promise!Give(d, [e \in Dests |-> Owed(e)][d] \o SubSeq(Input, took + 1, t))
        BY <2>1 DEF Promise!Serve
      <4>2. [e \in Dests |-> Owed(e)][d] = Owed(d)
            /\ [e \in Dests |-> Owed(e)]'[d] = Owed(d)'
        OBVIOUS
      <4>3. PICK c, o, c2, o2 : c = copy[d] /\ o = Owed(d) /\ c2 = copy'[d] /\ o2 = Owed(d)'
        OBVIOUS
      <4>4. PICK f : f = (d \in Fit')
        OBVIOUS
      <4>5. Given(c, o \o Part(s, u), c2, o2, f)
        BY <3>1, <4>1, <4>2, <4>3, <4>4 DEF Given, Promise!Give, Part
      <4>6. c \in Seq(Byte) /\ o \in Seq(Byte) /\ (f => c \o o = Part(0, s))
        BY <2>1, <3>1, <3>2, <4>3, <4>4 DEF Complete
      <4>7. /\ c2 \in Seq(Byte) /\ o2 \in Seq(Byte)
            /\ f /\ c \o o = Part(0, s) => c2 \o o2 = Part(0, u)
        <5>1. PICK cc \in Seq(Byte) : cc = c
          BY <4>6
        <5>2. PICK oo \in Seq(Byte) : oo = o
          BY <4>6
        <5>3. GivenCase(s, u, cc, oo, c2, o2, f)
          BY <3>1, <4>5, <5>1, <5>2 DEF GivenCase
        <5>4. GivenMakes(s, u, cc, oo, c2, o2, f)
          BY <5>3, GivenComplete
        <5> QED
          BY <5>1, <5>2, <5>4 DEF GivenMakes
      <4> QED
        BY <4>3, <4>4, <4>6, <4>7
    <3> QED
      BY <3>1, <3>2, <3>3 DEF Complete, Part
  <2>2. ASSUME Complete, UNCHANGED <<took, copy, [d \in Dests |-> Owed(d)], Fit>> PROVE Complete'
    <3>1. \A d \in Dests : [e \in Dests |-> Owed(e)][d] = Owed(d)
          /\ [e \in Dests |-> Owed(e)]'[d] = Owed(d)'
      OBVIOUS
    <3>2. \A d \in Dests : Owed(d)' = Owed(d)
      BY <2>2, <3>1
    <3> QED
      BY <2>2, <3>2 DEF Complete, Part
  <2> QED
    BY <2>1, <2>2 DEF Promise!Next
<1>3. Complete => \A d \in Fit : copy[d] \o Owed(d) = SubSeq(Input, 1, took)
  BY DEF Complete, Fit, Part
<1> QED
  BY <1>1, <1>2, <1>3, PTL DEF KeepsPromise, Promise!Spec

\* As long as a destination of uvtee is fit it misses nothing and is told
\* nothing twice: what it has been given followed by what it is owed is the
\* input read so far, for every input.
THEOREM FitMissesNothing ==
  Spec => [](\A d \in Fit : copy[d] \o Owed(d) = SubSeq(Input, 1, took))
BY PromiseKept, PromiseMeans, PTL
=============================================================================
