-------------------------- MODULE Programs_proof ----------------------------
(***************************************************************************)
(* Three of the programs that share nothing with any other.                *)
(*                                                                         *)
(* The file responders: no request is doubled, dropped or blamed for two   *)
(* deaths, for every number of requesters and workers.  The sorting        *)
(* programs: each leaves what it was given, in order, for lists of any     *)
(* length and content; heap sort with its gap.  The graph programs: each   *)
(* answers what paths and cycles say, for every finite graph.              *)
(***************************************************************************)
EXTENDS FilerCluster, Sorting, GraphSearch, Integers, TLAPS, SequenceTheorems, FiniteSetTheorems, WellFoundedInduction
-----------------------------------------------------------------------------
(* The file responders                                                     *)

\* Division with remainder.
LEMMA Division ==
  ASSUME NEW n \in Nat, NEW L \in Nat \ {0}
  PROVE  /\ n % L \in 0..(L - 1) /\ n \div L \in Nat
         /\ n = (n \div L) * L + (n % L)
OBVIOUS

\* A share of the numbers 1..n, every L-th from the j-th on, is as long as
\* dealt says, and each of them is in one share.
LEMMA ShareLength ==
  ASSUME NEW n \in Nat, NEW L \in Nat \ {0}, NEW j \in 1..L, NEW m \in Nat \ {0}
  PROVE  m <= (n + L - j) \div L <=> j + (m - 1) * L <= n
<1> DEFINE d == (n + L - j) \div L
           e == (n + L - j) % L
           t == n + L - j
<1>1. t \in Nat
  OBVIOUS
<1>2. d \in Nat /\ e \in 0..(L - 1) /\ t = d * L + e
  BY <1>1, Division
<1>3. m * L = (m - 1) * L + L
  OBVIOUS
<1>4. ASSUME m <= d PROVE m * L <= d * L
  BY <1>2, <1>4
<1>5. ASSUME d < m PROVE d * L + L <= m * L
  <2>1. d + 1 <= m
    BY <1>2, <1>5
  <2>2. (d + 1) * L <= m * L
    BY <1>2, <2>1
  <2>3. (d + 1) * L = d * L + L
    BY <1>2
  <2> QED BY <2>2, <2>3
<1>6. m * L \in Nat /\ d * L \in Nat /\ (m - 1) * L \in Nat
  BY <1>2
<1> HIDE DEF d, e
<1>7. CASE m <= d
  BY <1>2, <1>3, <1>4, <1>6, <1>7 DEF t
<1>8. CASE d < m
  BY <1>2, <1>3, <1>5, <1>6, <1>8 DEF t
<1> QED BY <1>2, <1>7, <1>8 DEF d

LEMMA Turns ==
  ASSUME NEW x \in Nat \ {0}, NEW L \in Nat \ {0}, NEW j \in 1..L, NEW m \in Nat \ {0}
  PROVE  x = j + (m - 1) * L <=> j = ((x - 1) % L) + 1 /\ m = ((x - 1) \div L) + 1
<1> DEFINE d == (x - 1) \div L
           e == (x - 1) % L
<1>0. PICK n \in Nat : n = x - 1
  OBVIOUS
<1>1. d \in Nat /\ e \in 0..(L - 1) /\ x - 1 = d * L + e
  BY <1>0, Division
<1> HIDE DEF d, e
<1>2. ASSUME x = j + (m - 1) * L PROVE j = e + 1 /\ m = d + 1
  <2> DEFINE c == m - 1
  <2>1. c \in Nat /\ x - 1 = c * L + (j - 1)
    BY <1>2
  <2> HIDE DEF c
  <2>2. ASSUME c < d PROVE FALSE
    <3>1. (c + 1) * L <= d * L
      BY <2>1, <2>2, <1>1
    <3>2. (c + 1) * L = c * L + L
      BY <2>1
    <3>3. c * L \in Nat /\ d * L \in Nat
      BY <1>1, <2>1
    <3> QED BY <1>1, <2>1, <3>1, <3>2, <3>3
  <2>3. ASSUME d < c PROVE FALSE
    <3>1. (d + 1) * L <= c * L
      BY <2>1, <2>3, <1>1
    <3>2. (d + 1) * L = d * L + L
      BY <1>1
    <3>3. c * L \in Nat /\ d * L \in Nat
      BY <1>1, <2>1
    <3> QED BY <1>1, <2>1, <3>1, <3>2, <3>3
  <2>4. c = d
    BY <1>1, <2>1, <2>2, <2>3
  <2>5. c * L \in Nat
    BY <2>1
  <2>6. j = e + 1
    BY <1>1, <2>1, <2>4, <2>5
  <2> QED BY <2>4, <2>6 DEF c
<1>3. ASSUME j = e + 1, m = d + 1 PROVE x = j + (m - 1) * L
  BY <1>1, <1>3
<1> QED BY <1>2, <1>3 DEF d, e
LEMMA TurnOf ==
  ASSUME NEW x \in Nat \ {0}, NEW L \in Nat \ {0}
  PROVE  \E j \in 1..L, m \in Nat \ {0} :
           /\ x = j + (m - 1) * L
           /\ j = ((x - 1) % L) + 1 /\ m - 1 = (x - 1) \div L
<1>1. PICK n \in Nat : n = x - 1
  OBVIOUS
<1>2. n % L \in 0..(L - 1) /\ n \div L \in Nat /\ n = (n \div L) * L + (n % L)
  BY Division
<1>3. PICK e \in 0..(L - 1) : e = n % L
  BY <1>2
<1>4. PICK d \in Nat : d = n \div L
  BY <1>2
<1>5. d * L \in Nat /\ n = d * L + e
  BY <1>2, <1>3, <1>4
<1>6. x = (e + 1) + d * L
  BY <1>1, <1>5
<1>7. e + 1 \in 1..L /\ d + 1 \in Nat \ {0} /\ (d + 1) - 1 = d
  OBVIOUS
<1> QED BY <1>1, <1>3, <1>4, <1>6, <1>7
-----------------------------------------------------------------------------
\* The elements of a are elements of b.
Within(a, b) == \A i \in DOMAIN a : \E j \in DOMAIN b : a[i] = b[j]

\* The dealer sends the x-th of several requests to Peer(x), whose inbox it
\* reaches at place Slot(x).
Peer(x) == turn[((x - 1) % Len(turn)) + 1]
Slot(x) == Len(inbox[Peer(x)]) + ((x - 1) \div Len(turn)) + 1

Dealt(q) ==
  /\ outgoing' = <<>> /\ turn' \in Seq(Worker) /\ IsInjective(turn')
  /\ Within(turn', turn)
  /\ inbox' \in [Worker -> Seq(Requester)]
  /\ \A w \in Worker : \A i \in DOMAIN inbox[w] :
       i \in DOMAIN inbox'[w] /\ inbox'[w][i] = inbox[w][i]
  /\ \A x \in DOMAIN q : /\ Peer(x) \in Worker /\ Slot(x) \in DOMAIN inbox'[Peer(x)]
                         /\ Slot(x) \notin DOMAIN inbox[Peer(x)]
                         /\ inbox'[Peer(x)][Slot(x)] = q[x]
  /\ \A w \in Worker : \A i \in DOMAIN inbox'[w] \ DOMAIN inbox[w] :
       \E x \in DOMAIN q : w = Peer(x) /\ i = Slot(x)

LEMMA Concat ==
  ASSUME NEW S, NEW a \in Seq(S), NEW b \in Seq(S)
  PROVE  /\ a \o b \in Seq(S) /\ Len(a \o b) = Len(a) + Len(b)
         /\ Len(a) \in Nat /\ Len(b) \in Nat /\ DOMAIN a = 1..Len(a)
         /\ DOMAIN (a \o b) = 1..(Len(a) + Len(b))
         /\ \A i \in 1..Len(a) : (a \o b)[i] = a[i]
         /\ \A i \in 1..Len(b) : (a \o b)[Len(a) + i] = b[i]
OBVIOUS

LEMMA Cut ==
  ASSUME NEW S, NEW s \in Seq(S), NEW m \in Nat \ {0}, NEW n \in 0..Len(s)
  PROVE  /\ SubSeq(s, m, n) \in Seq(S)
         /\ Len(SubSeq(s, m, n)) = IF m <= n THEN n - m + 1 ELSE 0
         /\ \A i \in 1..(n - m + 1) : SubSeq(s, m, n)[i] = s[m + i - 1]
<1>1. m \in Int /\ n \in Int /\ \A i \in m..n : s[i] \in S
  OBVIOUS
<1> QED BY <1>1, SubSeqProperties

\* A rotated sequence without repetitions has none.
LEMMA Rotated ==
  ASSUME NEW S, NEW s \in Seq(S), IsInjective(s), NEW k \in 0..Len(s), NEW z,
         z = SubSeq(s, k + 1, Len(s)) \o SubSeq(s, 1, k)
  PROVE  /\ z \in Seq(S) /\ IsInjective(z)
         /\ Within(z, s)
<1>1. PICK L \in Nat : L = Len(s) /\ DOMAIN s = 1..L /\ k \in 0..L
  OBVIOUS
<1>2. /\ SubSeq(s, k + 1, L) \in Seq(S) /\ Len(SubSeq(s, k + 1, L)) = L - k
      /\ \A i \in 1..(L - k) : SubSeq(s, k + 1, L)[i] = s[k + i]
  <2>1. k + 1 \in Nat \ {0} /\ L \in 0..Len(s)
    BY <1>1
  <2>2. /\ SubSeq(s, k + 1, L) \in Seq(S)
        /\ Len(SubSeq(s, k + 1, L)) = IF k + 1 <= L THEN L - (k + 1) + 1 ELSE 0
        /\ \A i \in 1..(L - (k + 1) + 1) : SubSeq(s, k + 1, L)[i] = s[(k + 1) + i - 1]
    BY <2>1, Cut
  <2>3. \A i \in 1..(L - k) : (k + 1) + i - 1 = k + i
    BY <1>1
  <2>4. L - (k + 1) + 1 = L - k /\ (k + 1 <= L \/ L - k = 0)
    BY <1>1
  <2> QED BY <2>2, <2>3, <2>4
<1>3. /\ SubSeq(s, 1, k) \in Seq(S) /\ Len(SubSeq(s, 1, k)) = k
      /\ \A i \in 1..k : SubSeq(s, 1, k)[i] = s[i]
  <2>1. /\ SubSeq(s, 1, k) \in Seq(S)
        /\ Len(SubSeq(s, 1, k)) = IF 1 <= k THEN k - 1 + 1 ELSE 0
        /\ \A i \in 1..(k - 1 + 1) : SubSeq(s, 1, k)[i] = s[1 + i - 1]
    BY Cut
  <2>2. k - 1 + 1 = k /\ (1 <= k \/ k = 0) /\ \A i \in 1..k : 1 + i - 1 = i
    OBVIOUS
  <2> QED BY <2>1, <2>2
<1>9. PICK a \in Seq(S) : a = SubSeq(s, k + 1, L)
  BY <1>2
<1>10. PICK b \in Seq(S) : b = SubSeq(s, 1, k)
  BY <1>3
<1>11. PICK t \in Seq(S) : t = a \o b
  BY Concat
<1>4. /\ DOMAIN t = 1..L
      /\ \A i \in 1..(L - k) : t[i] = s[k + i]
      /\ \A i \in 1..k : t[(L - k) + i] = s[i]
  <2>1. (L - k) + k = L
    BY <1>1
  <2>2. Len(a) = L - k /\ \A i \in 1..(L - k) : a[i] = s[k + i]
    BY <1>2, <1>9
  <2>3. Len(b) = k /\ \A i \in 1..k : b[i] = s[i]
    BY <1>3, <1>10
  <2>4. /\ DOMAIN t = 1..L
        /\ \A i \in 1..(L - k) : t[i] = a[i]
        /\ \A i \in 1..k : t[(L - k) + i] = b[i]
    <3>1. /\ DOMAIN (a \o b) = 1..(Len(a) + Len(b))
          /\ \A i \in 1..Len(a) : (a \o b)[i] = a[i]
          /\ \A i \in 1..Len(b) : (a \o b)[Len(a) + i] = b[i]
      BY Concat
    <3> QED BY <1>11, <2>1, <2>2, <2>3, <3>1
  <2> QED BY <2>2, <2>3, <2>4
<1>5. \A i, j \in 1..L : s[i] = s[j] => i = j
  BY <1>1 DEF IsInjective
<1>6. \A i \in 1..L : t[i] = IF i <= L - k THEN s[k + i] ELSE s[i - (L - k)]
  <2> SUFFICES ASSUME NEW i \in 1..L
               PROVE  t[i] = IF i <= L - k THEN s[k + i] ELSE s[i - (L - k)]
    OBVIOUS
  <2>1. CASE i <= L - k
    BY <1>1, <1>4, <2>1
  <2>2. CASE ~(i <= L - k)
    <3>1. k \in 0..L
      BY <1>1
    <3>2. i - (L - k) \in 1..k /\ (L - k) + (i - (L - k)) = i
      BY <1>1, <2>2, <3>1
    <3>3. PICK h \in 1..k : h = i - (L - k)
      BY <3>2
    <3>4. t[(L - k) + h] = s[h]
      BY <1>4
    <3> QED BY <2>2, <3>2, <3>3, <3>4
  <2> QED BY <2>1, <2>2
<1>7. ASSUME NEW i \in 1..L, NEW j \in 1..L, t[i] = t[j] PROVE i = j
  <2>1. k \in 0..L
    BY <1>1
  <2>2. CASE i <= L - k /\ j <= L - k
    <3>1. k + i \in 1..L /\ k + j \in 1..L /\ s[k + i] = s[k + j]
      BY <1>1, <1>6, <1>7, <2>1, <2>2
    <3>2. k + i = k + j
      BY <1>5, <3>1
    <3> QED BY <2>1, <3>2
  <2>3. CASE i <= L - k /\ ~(j <= L - k)
    <3>1. k + i \in 1..L /\ j - (L - k) \in 1..L /\ s[k + i] = s[j - (L - k)]
      BY SMTT(30), <1>1, <1>6, <1>7, <2>1, <2>3
    <3>2. k + i = j - (L - k)
      BY <1>5, <3>1
    <3> QED BY <1>1, <2>1, <2>3, <3>2
  <2>4. CASE ~(i <= L - k) /\ j <= L - k
    <3>1. i - (L - k) \in 1..L /\ k + j \in 1..L
      BY <1>1, <2>1, <2>4
    <3>3. s[i - (L - k)] = s[k + j]
      BY <1>6, <1>7, <2>4
    <3>2. i - (L - k) = k + j
      BY <1>5, <3>1, <3>3
    <3> QED BY <1>1, <2>1, <2>4, <3>2
  <2>5. CASE ~(i <= L - k) /\ ~(j <= L - k)
    <3>1. i - (L - k) \in 1..L /\ j - (L - k) \in 1..L /\ s[i - (L - k)] = s[j - (L - k)]
      BY SMTT(30), <1>1, <1>6, <1>7, <2>1, <2>5
    <3>2. i - (L - k) = j - (L - k)
      BY <1>5, <3>1
    <3> QED BY <1>1, <2>1, <3>2
  <2> QED BY <2>2, <2>3, <2>4, <2>5
<1>8. IsInjective(t)
  BY <1>4, <1>7 DEF IsInjective
<1>12. \A i \in DOMAIN t : \E j \in DOMAIN s : t[i] = s[j]
  <2> SUFFICES ASSUME NEW i \in 1..L PROVE \E j \in 1..L : t[i] = s[j]
    BY ZenonT(60), <1>1, <1>4
  <2>1. CASE i <= L - k
    BY <1>1, <1>6, <2>1
  <2>2. CASE ~(i <= L - k)
    <3>1. i - (L - k) \in 1..L
      BY <1>1, <2>2
    <3> QED BY <1>6, <2>2, <3>1
  <2> QED BY <2>1, <2>2
<1> QED BY <1>1, <1>8, <1>9, <1>10, <1>11, <1>12 DEF Within

LEMMA DealerSends ==
  ASSUME TypeOK, NEW q \in Seq(Requester), turn # <<>>, DealerSend(q)
  PROVE  Dealt(q)
<1> DEFINE L == Len(turn)
           dealt(j) == [m \in 1..((Len(q) + L - j) \div L) |-> q[j + (m - 1) * L]]
           k == Len(q) % L
<1>1. L \in Nat \ {0} /\ DOMAIN turn = 1..L /\ \A j \in 1..L : turn[j] \in Worker
  BY DEF TypeOK
<1>2. \A i, j \in 1..L : turn[i] = turn[j] => i = j
  BY <1>1 DEF TypeOK, IsInjective
<1>3. Len(q) \in Nat /\ DOMAIN q = 1..Len(q) /\ \A x \in 1..Len(q) : q[x] \in Requester
  OBVIOUS
<1>4. inbox \in [Worker -> Seq(Requester)]
  BY DEF TypeOK
<1>5. /\ outgoing' = <<>>
      /\ inbox' = [w \in Worker |->
            IF \E j \in 1..L : turn[j] = w
            THEN inbox[w] \o dealt(CHOOSE j \in 1..L : turn[j] = w) ELSE inbox[w]]
      /\ turn' = SubSeq(turn, k + 1, L) \o SubSeq(turn, 1, k)
  BY DEF DealerSend
<1>6. k \in 0..L
  <2>1. Len(q) % L \in 0..(L - 1)
    BY <1>1, <1>3, Division
  <2> QED BY <1>1, <2>1
<1>7. /\ turn' \in Seq(Worker) /\ IsInjective(turn')
      /\ Within(turn', turn)
  <2>1. turn \in Seq(Worker) /\ IsInjective(turn)
    BY DEF TypeOK
  <2>2. PICK h \in 0..Len(turn) : h = k
    BY <1>6
  <2>3. turn' = SubSeq(turn, h + 1, Len(turn)) \o SubSeq(turn, 1, h)
    BY <1>5, <2>2
  <2> HIDE DEF k, L, dealt
  <2>4. turn' \in Seq(Worker)
    BY <2>1, <2>3, Rotated
  <2>5. IsInjective(turn')
    BY <2>1, <2>3, Rotated
  <2>6. Within(turn', turn)
    BY <2>1, <2>3, Rotated
  <2> QED BY <2>4, <2>5, <2>6
<1> DEFINE D(j) == (Len(q) + L - j) \div L
<1>8. \A j \in 1..L : D(j) \in Nat
  <2> SUFFICES ASSUME NEW j \in 1..L PROVE D(j) \in Nat
    OBVIOUS
  <2>1. PICK n \in Nat : n = Len(q) + L - j
    BY SMTT(30), <1>1, <1>3
  <2> QED BY <1>1, <2>1, Division
<1>9. \A j \in 1..L : dealt(j) \in Seq(Requester) /\ Len(dealt(j)) = D(j)
                       /\ \A m \in 1..D(j) : dealt(j)[m] = q[j + (m - 1) * L]
                                               /\ j + (m - 1) * L \in 1..Len(q)
  <2> SUFFICES ASSUME NEW j \in 1..L
               PROVE  dealt(j) \in Seq(Requester) /\ Len(dealt(j)) = D(j)
                       /\ \A m \in 1..D(j) : dealt(j)[m] = q[j + (m - 1) * L]
                                               /\ j + (m - 1) * L \in 1..Len(q)
    OBVIOUS
  <2>1. D(j) \in Nat
    BY <1>8
  <2>2. ASSUME NEW m \in 1..D(j) PROVE j + (m - 1) * L \in 1..Len(q)
    <3>1. m \in Nat \ {0} /\ m <= D(j)
      BY <2>1
    <3>2. j + (m - 1) * L <= Len(q)
      BY <1>1, <1>3, <3>1, ShareLength
    <3>3. (m - 1) * L \in Nat
      BY <1>1, <3>1
    <3> QED BY <1>1, <1>3, <3>2, <3>3
  <2> DEFINE d == dealt(j)
  <2>3. d = [m \in 1..D(j) |-> q[j + (m - 1) * L]]
    OBVIOUS
  <2>4. \A m \in 1..D(j) : d[m] = q[j + (m - 1) * L]
    OBVIOUS
  <2>5. \A m \in 1..D(j) : d[m] \in Requester
    BY <1>3, <2>2, <2>4
  <2>6. DOMAIN d = 1..D(j)
    OBVIOUS
  <2> HIDE DEF d, D
  <2>7. d \in [1..D(j) -> Requester]
    BY <2>3, <2>4, <2>5
  <2>8. d \in Seq(Requester) /\ Len(d) = D(j)
    BY <2>1, <2>6, <2>7
  <2> QED BY <2>2, <2>4, <2>8 DEF d
<1> HIDE DEF dealt, D, k
<1>10. \A j \in 1..L : inbox'[turn[j]] = inbox[turn[j]] \o dealt(j)
  <2> SUFFICES ASSUME NEW j \in 1..L PROVE inbox'[turn[j]] = inbox[turn[j]] \o dealt(j)
    OBVIOUS
  <2>1. (CHOOSE h \in 1..L : turn[h] = turn[j]) = j
    BY <1>2
  <2> QED BY <1>1, <1>5, <2>1
<1>11. \A w \in Worker : (\A j \in 1..L : turn[j] # w) => inbox'[w] = inbox[w]
  BY <1>5
<1> HIDE DEF L
<1>12. ASSUME NEW j \in 1..L, NEW w, w = turn[j]
       PROVE  /\ w \in Worker /\ inbox'[w] \in Seq(Requester) /\ D(j) \in Nat
              /\ DOMAIN inbox'[w] = 1..(Len(inbox[w]) + D(j))
              /\ DOMAIN inbox[w] = 1..Len(inbox[w]) /\ Len(inbox[w]) \in Nat
              /\ \A i \in 1..Len(inbox[w]) : inbox'[w][i] = inbox[w][i]
              /\ \A m \in 1..D(j) : inbox'[w][Len(inbox[w]) + m] = dealt(j)[m]
  <2>1. w \in Worker /\ inbox'[w] = inbox[w] \o dealt(j)
    BY <1>1, <1>10, <1>12
  <2>2. PICK a \in Seq(Requester) : a = inbox[w]
    BY <1>4, <2>1
  <2>3. PICK b \in Seq(Requester) : b = dealt(j) /\ Len(b) = D(j)
    BY <1>9
  <2>4. inbox'[w] = a \o b
    BY <2>1, <2>2, <2>3
  <2>5. /\ a \o b \in Seq(Requester)
        /\ DOMAIN (a \o b) = 1..(Len(a) + D(j)) /\ D(j) \in Nat
        /\ DOMAIN a = 1..Len(a) /\ Len(a) \in Nat
        /\ \A i \in 1..Len(a) : (a \o b)[i] = a[i]
        /\ \A m \in 1..D(j) : (a \o b)[Len(a) + m] = b[m]
    BY <2>3, Concat
  <2> QED BY <2>1, <2>2, <2>3, <2>4, <2>5
<1>13. inbox' \in [Worker -> Seq(Requester)]
  <2>1. \A w \in Worker : inbox'[w] \in Seq(Requester)
    BY <1>4, <1>11, <1>12
  <2>2. \E f : inbox' = [w \in Worker |-> f[w]]
    <3>1. inbox' = [w \in Worker |-> inbox'[w]]
      BY <1>5
    <3> QED BY <3>1
  <2> QED BY <2>1, <2>2
<1>14. ASSUME NEW w \in Worker, NEW i \in DOMAIN inbox[w]
       PROVE  i \in DOMAIN inbox'[w] /\ inbox'[w][i] = inbox[w][i]
  <2>1. CASE \A j \in 1..L : turn[j] # w
    BY <1>11, <2>1
  <2>2. CASE \E j \in 1..L : turn[j] = w
    <3>1. PICK j \in 1..L : turn[j] = w
      BY <2>2
    <3>2. i \in 1..Len(inbox[w]) /\ Len(inbox[w]) \in Nat /\ D(j) \in Nat
      BY <1>12, <3>1
    <3>3. inbox'[w][i] = inbox[w][i] /\ DOMAIN inbox'[w] = 1..(Len(inbox[w]) + D(j))
      BY <1>12, <3>1, <3>2
    <3>4. i \in 1..(Len(inbox[w]) + D(j))
      BY <3>2
    <3> QED BY <3>3, <3>4
  <2> QED BY <2>1, <2>2
<1>15. ASSUME NEW x \in DOMAIN q
       PROVE  /\ Peer(x) \in Worker /\ Slot(x) \in DOMAIN inbox'[Peer(x)]
              /\ Slot(x) \notin DOMAIN inbox[Peer(x)]
              /\ inbox'[Peer(x)][Slot(x)] = q[x]
  <2>1. x \in Nat \ {0} /\ x <= Len(q)
    BY <1>3
  <2>2. L \in Nat \ {0} /\ x \in Nat \ {0}
    BY <1>1, <2>1
  <2>3. PICK j \in 1..L, m \in Nat \ {0} :
          /\ x = j + (m - 1) * L
          /\ j = ((x - 1) % L) + 1 /\ m - 1 = (x - 1) \div L
    BY <2>2, TurnOf
  <2>5. x = j + (m - 1) * L
    BY <2>3
  <2>6. m <= D(j)
    BY <1>1, <1>3, <2>1, <2>5, ShareLength DEF D
  <2>7. m \in 1..D(j)
    BY <1>8, <2>6
  <2>8. Peer(x) = turn[j]
    BY <2>3 DEF Peer, L
  <2>9. Len(inbox[turn[j]]) \in Nat /\ Slot(x) = Len(inbox[turn[j]]) + m
    <3>1. Len(inbox[turn[j]]) \in Nat
      BY <1>12
    <3>2. Slot(x) = Len(inbox[turn[j]]) + ((x - 1) \div L) + 1
      BY <2>8 DEF Slot, L
    <3>3. PICK n \in Nat : n = Len(inbox[turn[j]])
      BY <3>1
    <3>4. Slot(x) = n + (m - 1) + 1
      BY <2>3, <3>2, <3>3
    <3>5. n + (m - 1) + 1 = n + m
      OBVIOUS
    <3> QED BY <3>1, <3>3, <3>4, <3>5
  <2>10. dealt(j)[m] = q[x]
    BY <1>9, <2>5, <2>7
  <2>11. PICK w \in Worker : w = turn[j]
    BY <1>1
  <2>12. /\ DOMAIN inbox'[w] = 1..(Len(inbox[w]) + D(j)) /\ D(j) \in Nat
         /\ DOMAIN inbox[w] = 1..Len(inbox[w]) /\ Len(inbox[w]) \in Nat
         /\ inbox'[w][Len(inbox[w]) + m] = dealt(j)[m]
    BY <1>12, <2>7, <2>11
  <2>13. /\ Len(inbox[w]) + m \in 1..(Len(inbox[w]) + D(j))
         /\ Len(inbox[w]) + m \notin 1..Len(inbox[w])
    BY <2>7, <2>12
  <2> QED BY <2>8, <2>9, <2>10, <2>11, <2>12, <2>13
<1>16. ASSUME NEW w \in Worker, NEW i \in DOMAIN inbox'[w] \ DOMAIN inbox[w]
       PROVE  \E x \in DOMAIN q : w = Peer(x) /\ i = Slot(x)
  <2>1. PICK j \in 1..L : turn[j] = w
    BY <1>11
  <2>2. PICK m \in 1..D(j) : i = Len(inbox[w]) + m
    <3>1. /\ DOMAIN inbox'[w] = 1..(Len(inbox[w]) + D(j)) /\ D(j) \in Nat
          /\ DOMAIN inbox[w] = 1..Len(inbox[w]) /\ Len(inbox[w]) \in Nat
      BY <1>12, <2>1
    <3>2. i - Len(inbox[w]) \in 1..D(j) /\ i = Len(inbox[w]) + (i - Len(inbox[w]))
      BY <3>1
    <3> QED BY <3>2
  <2>3. PICK x \in 1..Len(q) : x = j + (m - 1) * L
    BY <1>9, <2>2
  <2>4. m \in Nat \ {0} /\ x \in Nat \ {0}
    BY <1>8, <2>2, <2>3
  <2>5. j = ((x - 1) % L) + 1 /\ m = ((x - 1) \div L) + 1
    <3>1. L \in Nat \ {0} /\ j \in 1..L /\ m \in Nat \ {0} /\ x \in Nat \ {0} /\ x = j + (m - 1) * L
      BY <1>1, <2>3, <2>4
    <3> QED BY <3>1, Turns
  <2>6. Peer(x) = w
    BY <2>1, <2>5 DEF Peer, L
  <2>7. Slot(x) = i
    <3>1. Slot(x) = Len(inbox[w]) + ((x - 1) \div L) + 1
      BY <2>6 DEF Slot, L
    <3>2. Len(inbox[w]) \in Nat
      BY <1>12, <2>1
    <3>3. PICK n \in Nat : n = x - 1
      BY <2>4
    <3>4. PICK d \in Nat : d = (x - 1) \div L
      BY <1>1, <3>3, Division
    <3> QED BY SMTT(30), <2>2, <2>5, <3>1, <3>2, <3>4
  <2> QED BY <1>3, <2>6, <2>7
<1> QED BY <1>5, <1>7, <1>13, <1>14, <1>15, <1>16 DEF Dealt
-----------------------------------------------------------------------------
\* A request in the queues of the workers, and in no two places there.
SomeIn(queues, r) == \E w \in Worker : \E i \in DOMAIN queues[w] : queues[w][i] = r
OnceIn(queues, r) ==
  \A v, w \in Worker : \A i \in DOMAIN queues[v], j \in DOMAIN queues[w] :
    queues[v][i] = r /\ queues[w][j] = r => v = w /\ i = j

\* A request in each of the places that hold several.
InOutgoing(r) == \E i \in DOMAIN outgoing : outgoing[i] = r
InInbox(r)    == SomeIn(inbox, r)
InService(r)  == \E w \in Worker : serving[w] = r
InReplies(r)  == SomeIn(replies, r)

\* A request is under way when it is somewhere.
Somewhere(r) == asked[r] <=> \/ r \in incoming \/ InOutgoing(r) \/ InInbox(r)
                             \/ InService(r) \/ InReplies(r) \/ r \in returning

\* It is in one kind of place, and in one of that kind.
OneKind(r) ==
  /\ r \in incoming => /\ ~InOutgoing(r) /\ ~InInbox(r) /\ ~InService(r)
                       /\ ~InReplies(r) /\ r \notin returning
  /\ InOutgoing(r) => ~InInbox(r) /\ ~InService(r) /\ ~InReplies(r) /\ r \notin returning
  /\ InInbox(r) => ~InService(r) /\ ~InReplies(r) /\ r \notin returning
  /\ InService(r) => ~InReplies(r) /\ r \notin returning
  /\ InReplies(r) => r \notin returning

OutgoingOnce(r) == \A i, j \in DOMAIN outgoing : outgoing[i] = r /\ outgoing[j] = r => i = j
InboxOnce(r)   == OnceIn(inbox, r)
ServiceOnce(r) == \A v, w \in Worker : serving[v] = r /\ serving[w] = r => v = w
RepliesOnce(r) == OnceIn(replies, r)

Alone(r) == /\ Somewhere(r) /\ OneKind(r)
            /\ OutgoingOnce(r) /\ InboxOnce(r) /\ ServiceOnce(r) /\ RepliesOnce(r)

\* A worker is in turn at most once: it has not connected before.
Unconnected == \A w \in Worker : state[w] = "forked" => \A k \in DOMAIN turn : turn[k] # w

\* The inductive invariant.
Followed == /\ TypeOK /\ Unconnected
            /\ \A r \in Requester : Alone(r)
            /\ \A w \in Dead : serving[w] \in Requester \ Readable

LEMMA InitFollowed == Init => Followed
<1> SUFFICES ASSUME Init PROVE Followed
  OBVIOUS
<1>1. TypeOK
  BY SendsAssumption DEF Init, TypeOK, IsInjective
<1>2. ASSUME NEW r \in Requester PROVE Alone(r)
  <2>1. /\ incoming = {} /\ returning = {} /\ ~asked[r] /\ DOMAIN outgoing = {}
        /\ \A w \in Worker : DOMAIN inbox[w] = {} /\ DOMAIN replies[w] = {}
        /\ \A w \in Worker : serving[w] # r
    BY NoneAssumption DEF Init
  <2> QED
    BY <2>1 DEF Alone, Somewhere, OneKind, OutgoingOnce, InboxOnce, ServiceOnce, RepliesOnce,
                InOutgoing, InInbox, InService, InReplies, SomeIn, OnceIn
<1>3. Dead = {}
  BY DEF Dead, Init
<1>4. Unconnected
  BY DEF Unconnected, Init
<1> QED BY <1>1, <1>2, <1>3, <1>4 DEF Followed

\* What a step that leaves a part alone leaves true.
LEMMA SameParts ==
  ASSUME NEW r
  PROVE  /\ UNCHANGED outgoing => /\ InOutgoing(r)' <=> InOutgoing(r)
                                  /\ OutgoingOnce(r)' <=> OutgoingOnce(r)
         /\ UNCHANGED inbox => (InInbox(r)' <=> InInbox(r)) /\ (InboxOnce(r)' <=> InboxOnce(r))
         /\ UNCHANGED serving => /\ InService(r)' <=> InService(r)
                                 /\ ServiceOnce(r)' <=> ServiceOnce(r)
         /\ UNCHANGED replies => /\ InReplies(r)' <=> InReplies(r)
                                 /\ RepliesOnce(r)' <=> RepliesOnce(r)
BY DEF InOutgoing, OutgoingOnce, InInbox, InboxOnce, InService, ServiceOnce, InReplies, RepliesOnce

\* The requesters.
LEMMA RequestStep == ASSUME Followed, NEW s \in Requester, Request(s) PROVE Followed'
<1>1. TypeOK'
  <2>1. /\ unsent \in [Requester -> 0..Sends] /\ asked \in [Requester -> BOOLEAN]
        /\ incoming \subseteq Requester /\ unsent[s] > 0
    BY DEF Followed, TypeOK, Request
  <2>2. unsent[s] - 1 \in 0..Sends
    BY <2>1, SendsAssumption
  <2>3. unsent' \in [Requester -> 0..Sends]
    BY <2>1, <2>2 DEF Request
  <2>4. asked' \in [Requester -> BOOLEAN] /\ incoming' \subseteq Requester
    BY <2>1 DEF Request
  <2>5. UNCHANGED <<outgoing, turn, returning, inbox, serving, replies, state>>
    BY DEF Request
  <2> QED BY <2>3, <2>4, <2>5 DEF Followed, TypeOK
<1>2. ASSUME NEW r \in Requester PROVE Alone(r)'
  <2>1. Alone(r)
    BY DEF Followed
  <2>2. UNCHANGED <<outgoing, inbox, serving, replies, returning>>
    BY DEF Request
  <2>3. asked' = [asked EXCEPT ![s] = TRUE] /\ incoming' = incoming \union {s} /\ ~asked[s]
    BY DEF Request
  <2>4. asked \in [Requester -> BOOLEAN]
    BY DEF Followed, TypeOK
  <2>5. CASE r = s
    BY <2>1, <2>2, <2>3, <2>4, <2>5, SameParts DEF Alone, Somewhere, OneKind
  <2>6. CASE r # s
    BY <2>1, <2>2, <2>3, <2>4, <2>6, SameParts DEF Alone, Somewhere, OneKind
  <2> QED BY <2>5, <2>6
<1>3. Dead' = Dead /\ serving' = serving
  BY DEF Request, Dead
<1>4. Unconnected'
  BY DEF Request, Followed, Unconnected
<1> QED BY <1>1, <1>2, <1>3, <1>4 DEF Followed

LEMMA ReceiveStep == ASSUME Followed, NEW s \in Requester, Receive(s) PROVE Followed'
<1>1. TypeOK'
  BY DEF Followed, TypeOK, Receive
<1>2. ASSUME NEW r \in Requester PROVE Alone(r)'
  <2>1. Alone(r)
    BY DEF Followed
  <2>2. UNCHANGED <<outgoing, inbox, serving, replies, incoming>>
    BY DEF Receive
  <2>3. /\ asked' = [asked EXCEPT ![s] = FALSE] /\ returning' = returning \ {s}
        /\ s \in returning
    BY DEF Receive
  <2>4. asked \in [Requester -> BOOLEAN]
    BY DEF Followed, TypeOK
  <2>5. CASE r = s
    BY <2>1, <2>2, <2>3, <2>4, <2>5, SameParts DEF Alone, Somewhere, OneKind
  <2>6. CASE r # s
    BY <2>1, <2>2, <2>3, <2>4, <2>6, SameParts DEF Alone, Somewhere, OneKind
  <2> QED BY <2>5, <2>6
<1>3. Dead' = Dead /\ serving' = serving
  BY DEF Receive, Dead
<1>4. Unconnected'
  BY DEF Receive, Followed, Unconnected
<1> QED BY <1>1, <1>2, <1>3, <1>4 DEF Followed

\* The master.
\* Sending q leaves a request of q in an inbox, and everything else in place.
LEMMA DealtAlone ==
  ASSUME TypeOK, NEW q \in Seq(Requester), Dealt(q), NEW r \in Requester, InboxOnce(r),
         \A x, y \in DOMAIN q : q[x] = r /\ q[y] = r => x = y,
         (\E x \in DOMAIN q : q[x] = r) => ~InInbox(r)
  PROVE  /\ InInbox(r)' <=> InInbox(r) \/ \E x \in DOMAIN q : q[x] = r
         /\ InboxOnce(r)' /\ ~InOutgoing(r)' /\ OutgoingOnce(r)'
<1>1. /\ \A w \in Worker : \A i \in DOMAIN inbox[w] :
           i \in DOMAIN inbox'[w] /\ inbox'[w][i] = inbox[w][i]
      /\ \A x \in DOMAIN q : /\ Peer(x) \in Worker /\ Slot(x) \in DOMAIN inbox'[Peer(x)]
                             /\ inbox'[Peer(x)][Slot(x)] = q[x]
      /\ \A w \in Worker : \A i \in DOMAIN inbox'[w] \ DOMAIN inbox[w] :
           \E x \in DOMAIN q : w = Peer(x) /\ i = Slot(x)
  BY DEF Dealt
<1>2. ~InOutgoing(r)' /\ OutgoingOnce(r)'
  <2>1. outgoing' = <<>>
    BY DEF Dealt
  <2>2. DOMAIN outgoing' = {}
    BY <2>1
  <2> QED BY <2>2 DEF InOutgoing, OutgoingOnce
<1>3. InInbox(r) => InInbox(r)'
  BY <1>1 DEF InInbox, SomeIn
<1>4. (\E x \in DOMAIN q : q[x] = r) => InInbox(r)'
  BY <1>1 DEF InInbox, SomeIn
<1>5. ASSUME NEW w \in Worker, NEW i \in DOMAIN inbox'[w], inbox'[w][i] = r
      PROVE  \/ i \in DOMAIN inbox[w] /\ inbox[w][i] = r
             \/ \E x \in DOMAIN q : q[x] = r /\ w = Peer(x) /\ i = Slot(x)
  BY <1>1, <1>5
<1>6. InInbox(r)' => InInbox(r) \/ \E x \in DOMAIN q : q[x] = r
  BY <1>5 DEF InInbox, SomeIn
<1>7. ASSUME NEW v \in Worker, NEW w \in Worker, NEW i \in DOMAIN inbox'[v],
             NEW j \in DOMAIN inbox'[w], inbox'[v][i] = r, inbox'[w][j] = r
      PROVE  v = w /\ i = j
  <2>1. CASE \E x \in DOMAIN q : q[x] = r
    <3>1. /\ \E x \in DOMAIN q : q[x] = r /\ v = Peer(x) /\ i = Slot(x)
          /\ \E x \in DOMAIN q : q[x] = r /\ w = Peer(x) /\ j = Slot(x)
      BY <1>5, <1>7, <2>1 DEF InInbox, SomeIn
    <3> QED BY <3>1
  <2>2. CASE ~\E x \in DOMAIN q : q[x] = r
    BY <1>5, <1>7, <2>2 DEF InboxOnce, OnceIn
  <2> QED BY <2>1, <2>2
<1>8. InboxOnce(r)'
  BY <1>7 DEF InboxOnce, OnceIn
<1> QED BY <1>2, <1>3, <1>4, <1>6, <1>8

\* Sending q, with r in q when it was in outgoing or has just come in.
LEMMA SendAlone ==
  ASSUME TypeOK, NEW q \in Seq(Requester), DealerSend(q), NEW r \in Requester, Alone(r),
         UNCHANGED <<asked, returning, serving, replies>>,
         incoming' \subseteq incoming,
         \A x, y \in DOMAIN q : q[x] = r /\ q[y] = r => x = y,
         (\E x \in DOMAIN q : q[x] = r) <=> InOutgoing(r) \/ (r \in incoming /\ r \notin incoming')
  PROVE  Alone(r)'
<1> DEFINE Q == \E x \in DOMAIN q : q[x] = r
<1>1. /\ InService(r)' <=> InService(r)
      /\ InReplies(r)' <=> InReplies(r)
      /\ ServiceOnce(r)' /\ RepliesOnce(r)'
  BY SameParts DEF Alone
<1>2. Q => ~InInbox(r)
  BY DEF Alone, OneKind
<1>3. CASE turn = <<>>
  <2>1. outgoing' = q /\ inbox' = inbox
    BY <1>3 DEF DealerSend
  <2>2. (InOutgoing(r)' <=> Q) /\ OutgoingOnce(r)'
    BY <2>1 DEF InOutgoing, OutgoingOnce
  <2>3. (InInbox(r)' <=> InInbox(r)) /\ InboxOnce(r)'
    BY <2>1, SameParts DEF Alone
  <2> HIDE DEF Q
  <2> QED BY <1>1, <2>2, <2>3 DEF Alone, Somewhere, OneKind, Q
<1>4. CASE turn # <<>>
  <2>1. Dealt(q)
    BY <1>4, DealerSends
  <2>2. /\ InInbox(r)' <=> InInbox(r) \/ Q
        /\ InboxOnce(r)' /\ ~InOutgoing(r)' /\ OutgoingOnce(r)'
    BY <1>2, <2>1, DealtAlone DEF Alone
  <2> QED BY <1>1, <2>2 DEF Alone, Somewhere, OneKind
<1> QED BY <1>3, <1>4

LEMMA SendTyped ==
  ASSUME TypeOK, NEW q \in Seq(Requester), DealerSend(q)
  PROVE  /\ outgoing' \in Seq(Requester) /\ turn' \in Seq(Worker) /\ IsInjective(turn')
         /\ inbox' \in [Worker -> Seq(Requester)]
         /\ Within(turn', turn)
<1>1. CASE turn = <<>>
  BY <1>1 DEF DealerSend, TypeOK, Within
<1>2. CASE turn # <<>>
  <2>1. Dealt(q)
    BY <1>2, DealerSends
  <2> QED BY <2>1 DEF Dealt
<1> QED BY <1>1, <1>2

LEMMA RouterStep == ASSUME Followed, NEW s \in Requester, RouterMessage(s) PROVE Followed'
<1>1. TypeOK /\ outgoing \in Seq(Requester)
  BY DEF Followed, TypeOK
<1>8. Append(outgoing, s) \in Seq(Requester)
  BY <1>1
<1>2. PICK q \in Seq(Requester) : q = Append(outgoing, s)
  BY <1>8
<1>3. /\ DealerSend(q) /\ incoming' = incoming \ {s} /\ s \in incoming
      /\ UNCHANGED <<unsent, asked, returning, serving, replies, state>>
  BY <1>2 DEF RouterMessage, clients
<1>4. TypeOK'
  BY <1>1, <1>3, SendTyped DEF TypeOK
<1>5. ASSUME NEW r \in Requester PROVE Alone(r)'
  <2>1. Alone(r)
    BY DEF Followed
  <2>2. /\ DOMAIN q = DOMAIN outgoing \union {Len(outgoing) + 1}
        /\ \A x \in DOMAIN outgoing : q[x] = outgoing[x]
        /\ q[Len(outgoing) + 1] = s
    BY <1>1, <1>2
  <2>3. \A x, y \in DOMAIN q : q[x] = r /\ q[y] = r => x = y
    BY <1>3, <2>1, <2>2 DEF Alone, OutgoingOnce, OneKind, InOutgoing
  <2>4. (\E x \in DOMAIN q : q[x] = r) <=> InOutgoing(r) \/ (r \in incoming /\ r \notin incoming')
    BY <1>3, <2>2 DEF InOutgoing
  <2>5. incoming' \subseteq incoming
    BY <1>3
  <2> QED BY <1>1, <1>3, <2>1, <2>3, <2>4, <2>5, SendAlone
<1>6. Dead' = Dead /\ serving' = serving
  BY <1>3 DEF Dead
<1>7. Unconnected'
  <2>1. Within(turn', turn)
    BY <1>1, <1>3, SendTyped
  <2> QED BY <1>3, <2>1 DEF Followed, Unconnected, Within
<1> QED BY <1>4, <1>5, <1>6, <1>7 DEF Followed

LEMMA WritableStep == ASSUME Followed, DealerWritable PROVE Followed'
<1>1. TypeOK /\ outgoing \in Seq(Requester)
  BY DEF Followed, TypeOK
<1>2. PICK q \in Seq(Requester) : q = outgoing
  BY <1>1
<1>3. /\ DealerSend(q)
      /\ UNCHANGED <<unsent, asked, incoming, returning, serving, replies, state>>
  BY <1>2 DEF DealerWritable, clients
<1>4. TypeOK'
  BY <1>1, <1>3, SendTyped DEF TypeOK
<1>5. ASSUME NEW r \in Requester PROVE Alone(r)'
  <2>1. Alone(r)
    BY DEF Followed
  <2>2. \A x, y \in DOMAIN q : q[x] = r /\ q[y] = r => x = y
    BY <1>2, <2>1 DEF Alone, OutgoingOnce
  <2>3. (\E x \in DOMAIN q : q[x] = r) <=> InOutgoing(r) \/ (r \in incoming /\ r \notin incoming')
    BY <1>2, <1>3 DEF InOutgoing
  <2>4. incoming' \subseteq incoming
    BY <1>3
  <2> QED BY <1>1, <1>3, <2>1, <2>2, <2>3, <2>4, SendAlone
<1>6. Dead' = Dead /\ serving' = serving
  BY <1>3 DEF Dead
<1>7. Unconnected'
  <2>1. Within(turn', turn)
    BY <1>1, <1>3, SendTyped
  <2> QED BY <1>3, <2>1 DEF Followed, Unconnected, Within
<1> QED BY <1>4, <1>5, <1>6, <1>7 DEF Followed
-----------------------------------------------------------------------------
\* A sequence without repetitions has none when an element is taken out.
LEMMA Removed ==
  ASSUME NEW S, NEW s \in Seq(S), IsInjective(s), NEW k \in DOMAIN s, NEW z, z = RemoveAt(s, k)
  PROVE  z \in Seq(S) /\ IsInjective(z) /\ Within(z, s)
<1>1. PICK L \in Nat : L = Len(s) /\ DOMAIN s = 1..L /\ k \in 1..L
  OBVIOUS
<1>2. PICK h \in Nat : h = k - 1 /\ h + 1 = k /\ h <= L - 1
  BY <1>1
<1>15. PICK n \in Nat : n = L - k /\ h + n = L - 1
  <2>1. k \in Nat /\ k <= L /\ k = h + 1
    BY <1>1, <1>2
  <2> QED BY <2>1
<1>3. /\ SubSeq(s, 1, h) \in Seq(S) /\ Len(SubSeq(s, 1, h)) = h
      /\ \A i \in 1..h : SubSeq(s, 1, h)[i] = s[i]
  <2>1. h \in 0..Len(s)
    BY <1>1, <1>2
  <2>2. /\ SubSeq(s, 1, h) \in Seq(S)
        /\ Len(SubSeq(s, 1, h)) = IF 1 <= h THEN h - 1 + 1 ELSE 0
        /\ \A i \in 1..(h - 1 + 1) : SubSeq(s, 1, h)[i] = s[1 + i - 1]
    BY <2>1, Cut
  <2>3. h - 1 + 1 = h /\ (1 <= h \/ h = 0) /\ \A i \in 1..h : 1 + i - 1 = i
    BY <1>2
  <2> QED BY <2>2, <2>3
<1>4. /\ SubSeq(s, k + 1, L) \in Seq(S) /\ Len(SubSeq(s, k + 1, L)) = L - k
      /\ \A i \in 1..(L - k) : SubSeq(s, k + 1, L)[i] = s[k + i]
  <2>1. k + 1 \in Nat \ {0} /\ L \in 0..Len(s)
    BY <1>1
  <2>2. /\ SubSeq(s, k + 1, L) \in Seq(S)
        /\ Len(SubSeq(s, k + 1, L)) = IF k + 1 <= L THEN L - (k + 1) + 1 ELSE 0
        /\ \A i \in 1..(L - (k + 1) + 1) : SubSeq(s, k + 1, L)[i] = s[(k + 1) + i - 1]
    BY <2>1, Cut
  <2>3. \A i \in 1..(L - k) : (k + 1) + i - 1 = k + i
    BY <1>1
  <2>4. L - (k + 1) + 1 = L - k /\ (k + 1 <= L \/ L - k = 0)
    BY <1>1
  <2> QED BY <2>2, <2>3, <2>4
<1>5. PICK a \in Seq(S) : a = SubSeq(s, 1, h)
  BY <1>3
<1>6. PICK b \in Seq(S) : b = SubSeq(s, k + 1, L)
  BY <1>4
<1>7. z = a \o b
  BY <1>1, <1>2, <1>5, <1>6 DEF RemoveAt
<1>8. /\ Len(a) = h /\ \A i \in 1..h : a[i] = s[i]
      /\ Len(b) = L - k /\ \A i \in 1..(L - k) : b[i] = s[k + i]
  BY <1>3, <1>4, <1>5, <1>6
<1>9. /\ a \o b \in Seq(S)
      /\ DOMAIN (a \o b) = 1..(Len(a) + Len(b))
      /\ \A i \in 1..Len(a) : (a \o b)[i] = a[i]
      /\ \A i \in 1..Len(b) : (a \o b)[Len(a) + i] = b[i]
  BY Concat
<1>10. /\ z \in Seq(S) /\ DOMAIN z = 1..(L - 1)
       /\ \A i \in 1..h : z[i] = s[i]
       /\ \A i \in 1..(L - k) : z[h + i] = s[k + i]
  <2>1. /\ Len(a) = h /\ Len(b) = n
        /\ \A i \in 1..n : b[i] = s[k + i]
        /\ \A i \in 1..h : a[i] = s[i]
    BY <1>8, <1>15
  <2>2. /\ DOMAIN (a \o b) = 1..(L - 1)
        /\ \A i \in 1..h : (a \o b)[i] = s[i]
        /\ \A i \in 1..n : (a \o b)[h + i] = s[k + i]
    BY <1>9, <1>15, <2>1
  <2> QED BY <1>7, <1>9, <1>15, <2>2
<1>11. ASSUME NEW i \in 1..(L - 1)
       PROVE  z[i] = IF i <= h THEN s[i] ELSE s[i + 1]
  <2>1. CASE i <= h
    BY <1>2, <1>10, <2>1
  <2>2. CASE ~(i <= h)
    <3>1. i - h \in 1..(L - k) /\ h + (i - h) = i /\ k + (i - h) = i + 1
      BY <1>1, <1>2, <2>2
    <3>2. PICK m \in 1..(L - k) : m = i - h
      BY <3>1
    <3>3. z[h + m] = s[k + m]
      BY <1>10
    <3> QED BY <2>2, <3>1, <3>2, <3>3
  <2> QED BY <2>1, <2>2
<1>12. Within(z, s)
  <2> SUFFICES ASSUME NEW i \in 1..(L - 1) PROVE \E j \in 1..L : z[i] = s[j]
    BY ZenonT(60), <1>1, <1>10 DEF Within
  <2>1. i \in 1..L /\ i + 1 \in 1..L
    BY <1>1
  <2> QED BY <1>11, <2>1
<1>13. ASSUME NEW i \in 1..(L - 1), NEW j \in 1..(L - 1), z[i] = z[j] PROVE i = j
  <2>1. \A x, y \in 1..L : s[x] = s[y] => x = y
    BY <1>1 DEF IsInjective
  <2>2. i \in 1..L /\ i + 1 \in 1..L /\ j \in 1..L /\ j + 1 \in 1..L
    BY <1>1
  <2>3. (IF i <= h THEN s[i] ELSE s[i + 1]) = (IF j <= h THEN s[j] ELSE s[j + 1])
    BY <1>11, <1>13
  <2>4. CASE i <= h /\ j <= h
    BY <2>1, <2>2, <2>3, <2>4
  <2>5. CASE i <= h /\ ~(j <= h)
    <3>1. i = j + 1
      BY <2>1, <2>2, <2>3, <2>5
    <3> QED BY <1>2, <2>5, <3>1
  <2>6. CASE ~(i <= h) /\ j <= h
    <3>1. i + 1 = j
      BY <2>1, <2>2, <2>3, <2>6
    <3> QED BY <1>2, <2>6, <3>1
  <2>7. CASE ~(i <= h) /\ ~(j <= h)
    <3>1. i + 1 = j + 1
      BY <2>1, <2>2, <2>3, <2>7
    <3> QED BY <3>1
  <2> QED BY <2>4, <2>5, <2>6, <2>7
<1>14. IsInjective(z)
  BY <1>10, <1>13 DEF IsInjective
<1> QED BY <1>10, <1>12, <1>14

LEMMA Appended ==
  ASSUME NEW S, NEW s \in Seq(S), NEW x \in S, NEW z, z = Append(s, x)
  PROVE  /\ z \in Seq(S) /\ DOMAIN z = DOMAIN s \union {Len(s) + 1}
         /\ Len(s) + 1 \notin DOMAIN s /\ z[Len(s) + 1] = x
         /\ \A i \in DOMAIN s : z[i] = s[i]
OBVIOUS

LEMMA Tailed ==
  ASSUME NEW S, NEW s \in Seq(S), s # <<>>, NEW z, z = Tail(s)
  PROVE  /\ z \in Seq(S) /\ Head(s) \in S /\ s[1] = Head(s) /\ 1 \in DOMAIN s
         /\ \A i \in DOMAIN z : i \in Nat /\ i + 1 \in DOMAIN s /\ i + 1 # 1 /\ z[i] = s[i + 1]
         /\ \A i \in DOMAIN s \ {1} : i - 1 \in DOMAIN z /\ z[i - 1] = s[i]
OBVIOUS

\* A worker's queue from which the first request is taken, or to which one is
\* added.
Queues         == [Worker -> Seq(Requester)]
Taken(f, w, g) == f \in Queues /\ f[w] # <<>> /\ g = [f EXCEPT ![w] = Tail(@)]
Added(f, w, s, g) == f \in Queues /\ g = [f EXCEPT ![w] = Append(@, s)]

LEMMA QueueTaken ==
  ASSUME NEW w \in Worker, NEW f, NEW g, Taken(f, w, g), NEW r \in Requester, OnceIn(f, r)
  PROVE  /\ g \in Queues /\ Head(f[w]) \in Requester
         /\ SomeIn(g, r) <=> SomeIn(f, r) /\ Head(f[w]) # r
         /\ Head(f[w]) = r => SomeIn(f, r)
         /\ OnceIn(g, r)
<1>0. f \in [Worker -> Seq(Requester)] /\ f[w] # <<>> /\ g = [f EXCEPT ![w] = Tail(@)]
  BY DEF Taken, Queues
<1>1. f[w] \in Seq(Requester) /\ g[w] = Tail(f[w])
  BY <1>0
<1>2. /\ g[w] \in Seq(Requester) /\ Head(f[w]) \in Requester
      /\ f[w][1] = Head(f[w]) /\ 1 \in DOMAIN f[w]
      /\ \A i \in DOMAIN g[w] : i \in Nat /\ i + 1 \in DOMAIN f[w] /\ i + 1 # 1
                                  /\ g[w][i] = f[w][i + 1]
      /\ \A i \in DOMAIN f[w] \ {1} : i - 1 \in DOMAIN g[w] /\ g[w][i - 1] = f[w][i]
  BY <1>0, <1>1, Tailed
<1>3. \A v \in Worker \ {w} : g[v] = f[v]
  BY <1>0
<1>4. g \in Queues
  BY <1>0, <1>2 DEF Queues
<1>5. ASSUME NEW v \in Worker, NEW i \in DOMAIN g[v], g[v][i] = r
      PROVE  \E j \in DOMAIN f[v] : f[v][j] = r /\ (v = w => j = i + 1 /\ j # 1 /\ i \in Nat)
                                                /\ (v # w => j = i)
  <2>1. CASE v = w
    BY <1>2, <1>5, <2>1
  <2>2. CASE v # w
    BY <1>3, <1>5, <2>2
  <2> QED BY <2>1, <2>2
<1>6. ASSUME NEW v \in Worker, NEW i \in DOMAIN f[v], f[v][i] = r, Head(f[w]) # r
      PROVE  \E j \in DOMAIN g[v] : g[v][j] = r
  <2>1. CASE v = w
    <3>1. i # 1
      BY <1>2, <1>6, <2>1
    <3> QED BY <1>2, <1>6, <2>1, <3>1
  <2>2. CASE v # w
    BY <1>3, <1>6, <2>2
  <2> QED BY <2>1, <2>2
<1>7. ASSUME NEW v \in Worker, NEW i \in DOMAIN g[v], g[v][i] = r PROVE Head(f[w]) # r
  <2>1. PICK j \in DOMAIN f[v] : f[v][j] = r /\ (v = w => j # 1)
    BY <1>5, <1>7
  <2> QED BY <1>2, <2>1 DEF OnceIn
<1>8. ASSUME NEW u \in Worker, NEW v \in Worker, NEW i \in DOMAIN g[u], NEW j \in DOMAIN g[v],
             g[u][i] = r, g[v][j] = r
      PROVE  u = v /\ i = j
  <2>1. PICK x \in DOMAIN f[u] : f[u][x] = r /\ (u = w => x = i + 1 /\ i \in Nat) /\ (u # w => x = i)
    BY <1>5, <1>8
  <2>2. PICK y \in DOMAIN f[v] : f[v][y] = r /\ (v = w => y = j + 1 /\ j \in Nat) /\ (v # w => y = j)
    BY <1>5, <1>8
  <2>3. u = v /\ x = y
    BY <2>1, <2>2 DEF OnceIn
  <2>4. CASE u = w
    BY <2>1, <2>2, <2>3, <2>4
  <2>5. CASE u # w
    BY <2>1, <2>2, <2>3, <2>5
  <2> QED BY <2>3, <2>4, <2>5
<1>9. SomeIn(g, r) <=> SomeIn(f, r) /\ Head(f[w]) # r
  BY <1>5, <1>6, <1>7 DEF SomeIn
<1>10. Head(f[w]) = r => SomeIn(f, r)
  BY <1>2 DEF SomeIn
<1>11. OnceIn(g, r)
  BY <1>8 DEF OnceIn
<1> QED BY <1>2, <1>4, <1>9, <1>10, <1>11

LEMMA QueueAdded ==
  ASSUME NEW w \in Worker, NEW s \in Requester, NEW f, NEW g, Added(f, w, s, g), NEW r \in Requester,
         s = r => ~SomeIn(f, r), OnceIn(f, r)
  PROVE  /\ g \in Queues
         /\ SomeIn(g, r) <=> SomeIn(f, r) \/ s = r
         /\ OnceIn(g, r)
<1>0. f \in [Worker -> Seq(Requester)] /\ g = [f EXCEPT ![w] = Append(@, s)]
  BY DEF Added, Queues
<1>1. f[w] \in Seq(Requester) /\ g[w] = Append(f[w], s)
  BY <1>0
<1>2. /\ g[w] \in Seq(Requester) /\ DOMAIN g[w] = DOMAIN f[w] \union {Len(f[w]) + 1}
      /\ Len(f[w]) + 1 \notin DOMAIN f[w] /\ g[w][Len(f[w]) + 1] = s
      /\ \A i \in DOMAIN f[w] : g[w][i] = f[w][i]
  BY <1>1, Appended
<1>3. \A v \in Worker \ {w} : g[v] = f[v]
  BY <1>0
<1>4. g \in Queues
  BY <1>0, <1>2 DEF Queues
<1>5. PICK e : e = Len(f[w]) + 1
  OBVIOUS
<1>6. ASSUME NEW v \in Worker, NEW i \in DOMAIN g[v], g[v][i] = r
      PROVE  \/ i \in DOMAIN f[v] /\ f[v][i] = r
             \/ v = w /\ i = e /\ s = r
  <2>1. CASE v = w
    BY <1>2, <1>5, <1>6, <2>1
  <2>2. CASE v # w
    BY <1>3, <1>6, <2>2
  <2> QED BY <2>1, <2>2
<1>7. ASSUME NEW v \in Worker, NEW i \in DOMAIN f[v], f[v][i] = r
      PROVE  i \in DOMAIN g[v] /\ g[v][i] = r
  <2>1. CASE v = w
    BY <1>2, <1>7, <2>1
  <2>2. CASE v # w
    BY <1>3, <1>7, <2>2
  <2> QED BY <2>1, <2>2
<1>8. SomeIn(g, r) <=> SomeIn(f, r) \/ s = r
  BY <1>2, <1>6, <1>7 DEF SomeIn
<1>9. ASSUME NEW u \in Worker, NEW v \in Worker, NEW i \in DOMAIN g[u], NEW j \in DOMAIN g[v],
             g[u][i] = r, g[v][j] = r
      PROVE  u = v /\ i = j
  <2>1. CASE s = r
    BY <1>6, <1>9, <2>1 DEF SomeIn
  <2>2. CASE s # r
    BY <1>6, <1>9, <2>2 DEF OnceIn
  <2> QED BY <2>1, <2>2
<1>10. OnceIn(g, r)
  BY <1>9 DEF OnceIn
<1> QED BY <1>4, <1>8, <1>10
-----------------------------------------------------------------------------
\* The queues to and from the workers.
LEMMA InboxTaken ==
  ASSUME TypeOK, NEW w \in Worker, inbox[w] # <<>>, inbox' = [inbox EXCEPT ![w] = Tail(@)],
         NEW r \in Requester, InboxOnce(r)
  PROVE  /\ inbox' \in [Worker -> Seq(Requester)] /\ Head(inbox[w]) \in Requester
         /\ InInbox(r)' <=> InInbox(r) /\ Head(inbox[w]) # r
         /\ Head(inbox[w]) = r => InInbox(r)
         /\ InboxOnce(r)'
<1>1. Taken(inbox, w, inbox') /\ OnceIn(inbox, r)
  BY DEF TypeOK, InboxOnce, Taken, Queues
<1>2. inbox' \in Queues /\ Head(inbox[w]) \in Requester
  BY <1>1, QueueTaken
<1>3. SomeIn(inbox', r) <=> SomeIn(inbox, r) /\ Head(inbox[w]) # r
  BY <1>1, QueueTaken
<1>4. Head(inbox[w]) = r => SomeIn(inbox, r)
  BY <1>1, QueueTaken
<1>5. OnceIn(inbox', r)
  BY <1>1, QueueTaken
<1> QED BY <1>2, <1>3, <1>4, <1>5 DEF InInbox, InboxOnce, Queues

LEMMA RepliesTaken ==
  ASSUME TypeOK, NEW w \in Worker, replies[w] # <<>>, replies' = [replies EXCEPT ![w] = Tail(@)],
         NEW r \in Requester, RepliesOnce(r)
  PROVE  /\ replies' \in [Worker -> Seq(Requester)] /\ Head(replies[w]) \in Requester
         /\ InReplies(r)' <=> InReplies(r) /\ Head(replies[w]) # r
         /\ Head(replies[w]) = r => InReplies(r)
         /\ RepliesOnce(r)'
<1>1. Taken(replies, w, replies') /\ OnceIn(replies, r)
  BY DEF TypeOK, RepliesOnce, Taken, Queues
<1>2. replies' \in Queues /\ Head(replies[w]) \in Requester
  BY <1>1, QueueTaken
<1>3. SomeIn(replies', r) <=> SomeIn(replies, r) /\ Head(replies[w]) # r
  BY <1>1, QueueTaken
<1>4. Head(replies[w]) = r => SomeIn(replies, r)
  BY <1>1, QueueTaken
<1>5. OnceIn(replies', r)
  BY <1>1, QueueTaken
<1> QED BY <1>2, <1>3, <1>4, <1>5 DEF InReplies, RepliesOnce, Queues

LEMMA RepliesAdded ==
  ASSUME TypeOK, NEW w \in Worker, NEW s \in Requester,
         replies' = [replies EXCEPT ![w] = Append(@, s)],
         NEW r \in Requester, RepliesOnce(r), s = r => ~InReplies(r)
  PROVE  /\ replies' \in [Worker -> Seq(Requester)]
         /\ InReplies(r)' <=> InReplies(r) \/ s = r
         /\ RepliesOnce(r)'
<1>1. /\ Added(replies, w, s, replies') /\ OnceIn(replies, r)
      /\ s = r => ~SomeIn(replies, r)
  BY DEF TypeOK, RepliesOnce, InReplies, Added, Queues
<1>2. replies' \in Queues
  BY <1>1, QueueAdded
<1>3. SomeIn(replies', r) <=> SomeIn(replies, r) \/ s = r
  BY <1>1, QueueAdded
<1>4. OnceIn(replies', r)
  BY <1>1, QueueAdded
<1> QED BY <1>2, <1>3, <1>4 DEF InReplies, RepliesOnce, Queues

LEMMA DealerMessageStep == ASSUME Followed, NEW w \in Worker, DealerMessage(w) PROVE Followed'
<1>1. /\ replies[w] # <<>> /\ replies' = [replies EXCEPT ![w] = Tail(@)]
      /\ returning' = returning \union {Head(replies[w])}
      /\ UNCHANGED <<unsent, asked, incoming, outgoing, turn, inbox, serving, state>>
  BY DEF DealerMessage, clients
<1>2. TypeOK
  BY DEF Followed
<1>3. replies' \in [Worker -> Seq(Requester)] /\ Head(replies[w]) \in Requester
  <2>1. replies \in [Worker -> Seq(Requester)]
    BY <1>2 DEF TypeOK
  <2>2. replies[w] \in Seq(Requester)
    BY <2>1
  <2>3. Tail(replies[w]) \in Seq(Requester) /\ Head(replies[w]) \in Requester
    BY <1>1, <2>2
  <2> QED BY <1>1, <2>1, <2>3
<1>4. TypeOK'
  BY <1>1, <1>2, <1>3 DEF TypeOK
<1>5. ASSUME NEW r \in Requester PROVE Alone(r)'
  <2>1. Alone(r)
    BY DEF Followed
  <2>2. /\ InReplies(r)' <=> InReplies(r) /\ Head(replies[w]) # r
        /\ Head(replies[w]) = r => InReplies(r)
        /\ RepliesOnce(r)'
    BY <1>1, <1>2, <2>1, RepliesTaken DEF Alone
  <2>3. CASE Head(replies[w]) = r
    BY <1>1, <2>1, <2>2, <2>3, SameParts DEF Alone, Somewhere, OneKind
  <2>4. CASE Head(replies[w]) # r
    BY <1>1, <2>1, <2>2, <2>4, SameParts DEF Alone, Somewhere, OneKind
  <2> QED BY <2>3, <2>4
<1>6. Dead' = Dead /\ serving' = serving
  BY <1>1 DEF Dead
<1>7. Unconnected'
  BY <1>1 DEF Followed, Unconnected
<1> QED BY <1>4, <1>5, <1>6, <1>7 DEF Followed

LEMMA DisconnectStep == ASSUME Followed, NEW w \in Worker, Disconnect(w) PROVE Followed'
<1>1. UNCHANGED <<unsent, asked, incoming, outgoing, returning, inbox, serving, replies, state>>
  BY DEF Disconnect, clients
<1>2. TypeOK
  BY DEF Followed
<1>3. turn' \in Seq(Worker) /\ IsInjective(turn') /\ Within(turn', turn)
  <2>1. PICK k \in DOMAIN turn : turn' = RemoveAt(turn, k)
    BY DEF Disconnect
  <2>2. turn \in Seq(Worker) /\ IsInjective(turn)
    BY <1>2 DEF TypeOK
  <2> QED BY <2>1, <2>2, Removed
<1>4. TypeOK'
  BY <1>1, <1>2, <1>3 DEF TypeOK
<1>5. ASSUME NEW r \in Requester PROVE Alone(r)'
  <2>1. Alone(r)
    BY DEF Followed
  <2> QED BY <1>1, <2>1, SameParts DEF Alone, Somewhere, OneKind
<1>6. Dead' = Dead /\ serving' = serving
  BY <1>1 DEF Dead
<1>7. Unconnected'
  BY <1>1, <1>3 DEF Followed, Unconnected, Within
<1> QED BY <1>4, <1>5, <1>6, <1>7 DEF Followed

\* The workers.
LEMMA ConnectStep == ASSUME Followed, NEW w \in Worker, Connect(w) PROVE Followed'
<1>1. /\ state[w] = "forked" /\ state' = [state EXCEPT ![w] = "up"] /\ turn' = Append(turn, w)
      /\ UNCHANGED <<unsent, asked, incoming, outgoing, returning, inbox, serving, replies>>
  BY DEF Connect, clients
<1>2. TypeOK /\ state \in [Worker -> {"forked", "up", "dead"}]
  BY DEF Followed, TypeOK
<1>8. /\ turn' \in Seq(Worker) /\ DOMAIN turn' = DOMAIN turn \union {Len(turn) + 1}
      /\ turn'[Len(turn) + 1] = w /\ \A i \in DOMAIN turn : turn'[i] = turn[i]
  <2>1. turn \in Seq(Worker)
    BY <1>2 DEF TypeOK
  <2> QED BY <1>1, <2>1, Appended
<1>9. \A k \in DOMAIN turn : turn[k] # w
  BY <1>1 DEF Followed, Unconnected
<1>3. IsInjective(turn')
  <2>1. \A i, j \in DOMAIN turn : turn[i] = turn[j] => i = j
    BY <1>2 DEF TypeOK, IsInjective
  <2>2. \A i, j \in DOMAIN turn' : turn'[i] = turn'[j] => i = j
    BY <1>8, <1>9, <2>1
  <2> QED BY <2>2 DEF IsInjective
<1>4. TypeOK'
  BY <1>1, <1>2, <1>3, <1>8 DEF TypeOK
<1>5. ASSUME NEW r \in Requester PROVE Alone(r)'
  <2>1. Alone(r)
    BY DEF Followed
  <2> QED BY <1>1, <2>1, SameParts DEF Alone, Somewhere, OneKind
<1>6. Dead' = Dead /\ serving' = serving
  BY <1>1, <1>2 DEF Dead
<1>7. Unconnected'
  BY <1>1, <1>2, <1>8 DEF Followed, Unconnected
<1> QED BY <1>4, <1>5, <1>6, <1>7 DEF Followed

LEMMA MessageStep == ASSUME Followed, NEW w \in Worker, Message(w) PROVE Followed'
<1>1. /\ state[w] = "up" /\ serving[w] = None /\ inbox[w] # <<>>
      /\ serving' = [serving EXCEPT ![w] = Head(inbox[w])]
      /\ inbox' = [inbox EXCEPT ![w] = Tail(@)]
      /\ UNCHANGED <<unsent, asked, incoming, outgoing, turn, returning, replies, state>>
  BY DEF Message, clients, master
<1>2. TypeOK /\ serving \in [Worker -> Requester \union {None}]
  BY DEF Followed, TypeOK
<1>3. inbox' \in [Worker -> Seq(Requester)] /\ Head(inbox[w]) \in Requester
  <2>1. inbox \in [Worker -> Seq(Requester)]
    BY <1>2 DEF TypeOK
  <2>2. inbox[w] \in Seq(Requester)
    BY <2>1
  <2>3. Tail(inbox[w]) \in Seq(Requester) /\ Head(inbox[w]) \in Requester
    BY <1>1, <2>2
  <2> QED BY <1>1, <2>1, <2>3
<1>4. TypeOK'
  BY <1>1, <1>2, <1>3 DEF TypeOK
<1>5. ASSUME NEW r \in Requester PROVE Alone(r)'
  <2>1. Alone(r)
    BY DEF Followed
  <2>2. /\ InInbox(r)' <=> InInbox(r) /\ Head(inbox[w]) # r
        /\ Head(inbox[w]) = r => InInbox(r)
        /\ InboxOnce(r)'
    BY <1>1, <1>2, <2>1, InboxTaken DEF Alone
  <2>3. r # None
    BY NoneAssumption
  <2>4. CASE Head(inbox[w]) = r
    <3>1. InService(r)'
      BY <1>1, <1>2, <2>4 DEF InService
    <3>2. ~InService(r)
      BY <2>1, <2>2, <2>4 DEF Alone, OneKind
    <3>3. ServiceOnce(r)'
      BY <1>1, <1>2, <3>2 DEF InService, ServiceOnce
    <3> QED
      BY <1>1, <2>1, <2>2, <2>4, <3>1, <3>2, <3>3, SameParts DEF Alone, Somewhere, OneKind
  <2>5. CASE Head(inbox[w]) # r
    <3>1. InService(r)' <=> InService(r)
      BY <1>1, <1>2, <2>3, <2>5 DEF InService
    <3>2. ServiceOnce(r)'
      BY <1>1, <1>2, <2>1, <2>5 DEF Alone, ServiceOnce
    <3> QED BY <1>1, <2>1, <2>2, <2>5, <3>1, <3>2, SameParts DEF Alone, Somewhere, OneKind
  <2> QED BY <2>4, <2>5
<1>6. Dead' = Dead /\ \A v \in Dead : serving'[v] = serving[v]
  BY <1>1, <1>2 DEF Dead
<1>7. Unconnected'
  BY <1>1 DEF Followed, Unconnected
<1> QED BY <1>4, <1>5, <1>6, <1>7 DEF Followed

LEMMA FileReadStep == ASSUME Followed, NEW w \in Worker, FileRead(w) PROVE Followed'
<1>1. /\ state[w] = "up" /\ serving[w] # None
      /\ UNCHANGED <<unsent, asked, incoming, outgoing, turn, returning, inbox>>
  BY DEF FileRead, clients, master
<1>2. /\ TypeOK /\ serving \in [Worker -> Requester \union {None}] /\ serving[w] \in Requester
      /\ state \in [Worker -> {"forked", "up", "dead"}]
  BY <1>1 DEF Followed, TypeOK
<1>3. CASE serving[w] \in Readable
  <2>1. /\ replies' = [replies EXCEPT ![w] = Append(@, serving[w])]
        /\ serving' = [serving EXCEPT ![w] = None] /\ state' = state
    BY <1>3 DEF FileRead
  <2>2. replies' \in [Worker -> Seq(Requester)]
    <3>1. replies \in [Worker -> Seq(Requester)]
      BY <1>2 DEF TypeOK
    <3>2. replies[w] \in Seq(Requester)
      BY <3>1
    <3>3. Append(replies[w], serving[w]) \in Seq(Requester)
      BY <1>2, <3>2
    <3> QED BY <2>1, <3>1, <3>3
  <2>3. TypeOK'
    BY <1>1, <1>2, <2>1, <2>2 DEF TypeOK
  <2>4. ASSUME NEW r \in Requester PROVE Alone(r)'
    <3>1. Alone(r)
      BY DEF Followed
    <3>2. serving[w] = r => ~InReplies(r) /\ InService(r)
      BY <3>1 DEF Alone, OneKind, InService
    <3>3. /\ InReplies(r)' <=> InReplies(r) \/ serving[w] = r
          /\ RepliesOnce(r)'
      BY <1>2, <2>1, <3>1, <3>2, RepliesAdded DEF Alone
    <3>4. r # None
      BY NoneAssumption
    <3>5. CASE serving[w] = r
      <4>1. ~InService(r)'
        BY <1>2, <2>1, <3>1, <3>4, <3>5 DEF Alone, ServiceOnce, InService
      <4>2. ServiceOnce(r)'
        BY <4>1 DEF InService, ServiceOnce
      <4> QED BY <1>1, <3>1, <3>2, <3>3, <3>5, <4>1, <4>2, SameParts DEF Alone, Somewhere, OneKind
    <3>6. CASE serving[w] # r
      <4>1. InService(r)' <=> InService(r)
        BY <1>2, <2>1, <3>4, <3>6 DEF InService
      <4>2. ServiceOnce(r)'
        BY <1>2, <2>1, <3>1, <3>4, <3>6 DEF Alone, ServiceOnce
      <4> QED BY <1>1, <3>1, <3>3, <3>6, <4>1, <4>2, SameParts DEF Alone, Somewhere, OneKind
    <3> QED BY <3>5, <3>6
  <2>5. Dead' = Dead /\ \A v \in Dead : serving'[v] = serving[v]
    BY <1>1, <1>2, <2>1 DEF Dead
  <2>6. Unconnected'
    BY <1>1, <2>1 DEF Followed, Unconnected
  <2> QED BY <2>3, <2>4, <2>5, <2>6 DEF Followed
<1>4. CASE serving[w] \notin Readable
  <2>1. state' = [state EXCEPT ![w] = "dead"] /\ UNCHANGED <<replies, serving>>
    BY <1>4 DEF FileRead
  <2>2. TypeOK'
    BY <1>1, <1>2, <2>1 DEF TypeOK
  <2>3. ASSUME NEW r \in Requester PROVE Alone(r)'
    <3>1. Alone(r)
      BY DEF Followed
    <3> QED BY <1>1, <2>1, <3>1, SameParts DEF Alone, Somewhere, OneKind
  <2>4. Dead' = Dead \union {w}
    BY <1>2, <2>1 DEF Dead
  <2>5. Unconnected'
    BY <1>1, <1>2, <2>1 DEF Followed, Unconnected
  <2> QED BY <1>2, <1>4, <2>1, <2>2, <2>3, <2>4, <2>5 DEF Followed
<1> QED BY <1>3, <1>4

LEMMA NextFollowed == Followed /\ [Next]_vars => Followed'
<1> SUFFICES ASSUME Followed, [Next]_vars PROVE Followed'
  OBVIOUS
<1>1. ASSUME NEW r \in Requester, ClientStep(r) PROVE Followed'
  BY <1>1, RequestStep, ReceiveStep, RouterStep DEF ClientStep
<1>2. ASSUME NEW w \in Worker, WorkerStep(w) PROVE Followed'
  BY <1>2, ConnectStep, MessageStep, FileReadStep, DealerMessageStep, DisconnectStep DEF WorkerStep
<1>3. CASE DealerWritable
  BY <1>3, WritableStep
<1>4. CASE UNCHANGED vars
  <2>1. UNCHANGED <<unsent, asked, incoming, outgoing, turn, returning, inbox, serving, replies, state>>
    BY <1>4 DEF vars, clients, master
  <2>2. TypeOK'
    BY <2>1 DEF Followed, TypeOK
  <2>3. ASSUME NEW r \in Requester PROVE Alone(r)'
    <3>1. Alone(r)
      BY DEF Followed
    <3> QED BY <2>1, <3>1, SameParts DEF Alone, Somewhere, OneKind
  <2>4. Dead' = Dead
    BY <2>1 DEF Dead
  <2>5. Unconnected'
    BY <2>1 DEF Followed, Unconnected
  <2> QED BY <2>1, <2>2, <2>3, <2>4, <2>5 DEF Followed
<1> QED BY <1>1, <1>2, <1>3, <1>4 DEF Next

\* The places of one kind of queue.
LEMMA SlotsOnce ==
  ASSUME NEW kind, NEW queues, NEW r, OnceIn(queues, r)
  PROVE  /\ Slots(kind, queues, r) # {} <=> SomeIn(queues, r)
         /\ \A p, q \in Slots(kind, queues, r) : p = q
<1> DEFINE X(w) == {<<kind, w, i>> : i \in {j \in DOMAIN queues[w] : queues[w][j] = r}}
<1>1. \A p : p \in Slots(kind, queues, r) <=> \E w \in Worker : p \in X(w)
  BY DEF Slots
<1>2. \A p, w : p \in X(w) <=> \E i \in DOMAIN queues[w] : queues[w][i] = r /\ p = <<kind, w, i>>
  OBVIOUS
<1> HIDE DEF X
<1>3. \A p : p \in Slots(kind, queues, r) <=>
        \E w \in Worker : \E i \in DOMAIN queues[w] : queues[w][i] = r /\ p = <<kind, w, i>>
  BY <1>1, <1>2
<1>4. Slots(kind, queues, r) # {} <=> SomeIn(queues, r)
  BY <1>3 DEF SomeIn
<1>5. \A p, q \in Slots(kind, queues, r) : p = q
  BY <1>3 DEF OnceIn
<1> QED BY <1>4, <1>5

\* A request that is alone is in one place.
LEMMA AloneOne ==
  ASSUME TypeOK, NEW r \in Requester, Alone(r)
  PROVE  Cardinality(Places(r)) = IF asked[r] THEN 1 ELSE 0
<1>1. /\ \A p, q \in Places(r) : p = q
      /\ Places(r) # {} <=> asked[r]
  <2> DEFINE A == {<<"incoming">> : x \in incoming \intersect {r}}
             B == {<<"outgoing", i>> : i \in {j \in DOMAIN outgoing : outgoing[j] = r}}
             C == Slots("inbox", inbox, r)
             D == {<<"serving", w>> : w \in {v \in Worker : serving[v] = r}}
             E == Slots("replies", replies, r)
             F == {<<"returning">> : x \in returning \intersect {r}}
  <2>1. (A # {} <=> r \in incoming) /\ \A p, q \in A : p = q
    OBVIOUS
  <2>2. (B # {} <=> InOutgoing(r)) /\ \A p, q \in B : p = q
    BY DEF Alone, InOutgoing, OutgoingOnce
  <2>3. (C # {} <=> InInbox(r)) /\ \A p, q \in C : p = q
    BY SlotsOnce DEF Alone, InInbox, InboxOnce
  <2>4. (D # {} <=> InService(r)) /\ \A p, q \in D : p = q
    BY DEF Alone, InService, ServiceOnce
  <2>5. (E # {} <=> InReplies(r)) /\ \A p, q \in E : p = q
    BY SlotsOnce DEF Alone, InReplies, RepliesOnce
  <2>6. (F # {} <=> r \in returning) /\ \A p, q \in F : p = q
    OBVIOUS
  <2>7. Places(r) = A \union B \union C \union D \union E \union F
    BY DEF Places
  <2> HIDE DEF A, B, C, D, E, F
  <2> QED BY <2>1, <2>2, <2>3, <2>4, <2>5, <2>6, <2>7 DEF Alone, OneKind, Somewhere
<1>2. CASE asked[r]
  <2>1. PICK p : p \in Places(r)
    BY <1>1, <1>2
  <2>2. Places(r) = {p}
    BY <1>1, <2>1
  <2>3. Cardinality({p}) = 1
    BY FS_Singleton
  <2> QED BY <1>2, <2>2, <2>3
<1>3. CASE ~asked[r]
  <2>1. Places(r) = {}
    BY <1>1, <1>3
  <2> QED BY <1>3, <2>1, FS_EmptySet
<1> QED BY <1>2, <1>3

LEMMA FollowedInv == Followed => Inv
<1> SUFFICES ASSUME Followed PROVE Inv
  OBVIOUS
<1>1. TypeOK
  BY DEF Followed
<1>2. OnePlace
  BY <1>1, AloneOne DEF Followed, OnePlace
<1>3. OneDeathEach
  BY DEF Followed, OneDeathEach, Alone, ServiceOnce, Dead
<1> QED BY <1>1, <1>2, <1>3 DEF Inv

\* In every state the cluster can reach a request under way is in exactly one
\* of its places, and each dead worker holds the unreadable request that killed
\* it, each such request one worker: whatever the numbers of workers and
\* requesters, and wherever workers join, die and are found gone.
THEOREM FilerInvHolds == Spec => []Inv
<1>1. Spec => []Followed
  BY InitFollowed, NextFollowed, PTL DEF Spec
<1> QED BY <1>1, FollowedInv, PTL

-----------------------------------------------------------------------------
(* The inductive invariant of the sorting programs.                         *)

\* The indexes of the list.
N == Length(given)
Cells == 0..(N - 1)
Whole   == Sort(0, N - 1)

\* a is b in another order.
Rearranged(a, b, X) ==
  \E f \in [X -> X] : /\ \A k, m \in X : f[k] = f[m] => k = m
                      /\ \A m \in X : \E k \in X : f[k] = m
                      /\ \A k \in X : a[k] = b[f[k]]

\* What the list would be with the key, or what is left to merge, put down.
Unmerged(k) == IF k \notin Top.p..Top.r THEN copy[k]
               ELSE IF k < lo + (hi - Mid(Top)) THEN ls[k]
               ELSE IF k < hi THEN copy[k - (hi - Mid(Top))] ELSE copy[k]
View == IF at = "merge" THEN [k \in Cells |-> Unmerged(k)]
        ELSE IF at = "shift" THEN [ls EXCEPT ![hi + 1] = pivot] ELSE ls

\* A call that has yet to put x and y in order.
Covers(c, x, y) == /\ x \in c.p..c.r /\ y \in c.p..c.r
                   /\ c.f = "merge" => x < Mid(c) /\ Mid(c) <= y
Covered(s, x, y) == \E n \in DOMAIN s : Covers(s[n], x, y)
InOrder(v, s) == \A x, y \in Cells : x < y => v[x] <= v[y] \/ Covered(s, x, y)

\* What a call leaves alone, or has in one half.
Apart(c, d) == \/ c.r < d.p \/ d.r < c.p
               \/ /\ d.f = "merge" /\ d.p <= c.p /\ c.r <= d.r
                  /\ c.r < Mid(d) \/ Mid(d) <= c.p
Stacked(s) == \A m, n \in DOMAIN s : n < m => Apart(s[m], s[n])

Frame == {c \in [f : {"sort", "merge"}, p : Int, r : Int] :
            /\ 0 <= c.p /\ c.p <= c.r + 1 /\ c.r <= N - 1
            /\ c.f = "merge" => c.p < c.r}

Before == IF at = "merge" THEN copy ELSE ls

ListOK(v) == v \in [Cells -> Int]
Typed == /\ N \in Nat /\ ListOK(given) /\ ListOK(ls) /\ prog \in Programs
         /\ lo \in Int /\ hi \in Int /\ edge \in Int /\ pivot \in Int
         /\ prog = "heap" => N >= 1
         /\ calls \in Seq(Frame)
         /\ prog # "merge" => \A n \in DOMAIN calls : calls[n].f = "sort"
         /\ at # "call" => calls # <<>>
         /\ at \in {"call", "merge", "next", "shift", "down", "up", "scan", "gather", "move",
                    "build", "extract", "heapify", "reheap"}
         /\ prog \in {"insertion", "heap"} => calls = <<>> \/ calls = <<Whole>>

\* The loops.
MergeInv ==
  /\ prog = "merge" /\ Top.f = "merge" /\ ListOK(copy)
  /\ Top.p <= lo /\ lo <= Mid(Top) /\ Mid(Top) <= hi /\ hi <= Top.r + 1
  /\ \A k \in Cells \ (Top.p..Top.r) : ls[k] = copy[k]
  /\ \A k \in Top.p..(lo + (hi - Mid(Top)) - 1) : \E m \in Top.p..Top.r : ls[k] = copy[m]
  /\ \A k, m \in Top.p..(lo + (hi - Mid(Top)) - 1) : k < m => ls[k] <= ls[m]
  /\ \A k \in Top.p..(lo + (hi - Mid(Top)) - 1) :
       /\ \A m \in lo..(Mid(Top) - 1) : ls[k] <= copy[m]
       /\ \A m \in hi..Top.r : ls[k] <= copy[m]

NextInv == /\ prog = "insertion" /\ 1 <= lo
           /\ \A k, m \in 0..(lo - 1) : k < m /\ m < N => ls[k] <= ls[m]
ShiftInv == /\ prog = "insertion" /\ 1 <= lo /\ lo < N /\ -1 <= hi /\ hi < lo
            /\ \A k, m \in 0..lo \ {hi + 1} : k < m => ls[k] <= ls[m]
            /\ \A k \in (hi + 2)..lo : pivot <= ls[k]

HoareInv ==
  /\ prog = "hoare" /\ Top.p - 1 <= lo /\ lo <= Top.r
  /\ \A k \in Top.p..lo : ls[k] <= pivot
  /\ \E k \in (lo + 1)..Top.r : ls[k] >= pivot
DownInv == /\ HoareInv /\ lo < hi /\ hi <= Top.r + 1
           /\ \A k \in hi..Top.r : ls[k] >= pivot
           /\ \E k \in Top.p..(hi - 1) : ls[k] <= pivot
UpInv == /\ HoareInv /\ Top.p <= hi /\ hi <= Top.r /\ ls[hi] <= pivot
         /\ \A k \in (hi + 1)..Top.r : ls[k] >= pivot

ScanInv ==
  /\ prog = "simple" /\ Top.p - 1 <= lo /\ lo < hi /\ hi <= Top.r /\ ls[Top.r] = pivot
  /\ \A k \in Top.p..lo : ls[k] <= pivot
  /\ \A k \in (lo + 1)..(hi - 1) : ls[k] > pivot

GatherInv ==
  /\ prog = "equal" /\ Top.p - 1 <= lo /\ lo < hi /\ hi <= edge /\ edge <= Top.r
  /\ \A k \in Top.p..lo : ls[k] < pivot
  /\ \A k \in (lo + 1)..(hi - 1) : ls[k] > pivot
  /\ \A k \in edge..Top.r : ls[k] = pivot
MoveInv ==
  /\ prog = "equal" /\ Top.p - 1 <= lo /\ lo < hi /\ hi <= edge /\ edge <= Top.r + 1
  /\ \A k \in Top.p..lo : ls[k] < pivot
  /\ \A k \in (lo + 1)..(hi - 1) : ls[k] = pivot
  /\ \A k \in hi..(edge - 1) : ls[k] > pivot
  /\ \A k \in edge..Top.r : ls[k] = pivot

\* A heap from place i on, but for the children of node.
Fits == N % 2 = 0 \/ given[N - 1] <= given[N \div 2]
HeapBut(i, size, node) ==
  /\ \A d \in 2..(size - 1) : d \div 2 >= i /\ d \div 2 # node => ls[d] <= ls[d \div 2]
  /\ \A d \in 2..(size - 1) : d \div 2 = node /\ node \div 2 >= i => ls[d] <= ls[node \div 2]
HeapFrom(i, size) == \A d \in 2..(size - 1) : d \div 2 >= i => ls[d] <= ls[d \div 2]
Behind(i) == /\ \A k, m \in i..(N - 1) : k < m => ls[k] <= ls[m]
             /\ \A k \in 1..(i - 1), m \in i..(N - 1) : ls[k] <= ls[m]

BuildInv == /\ prog = "heap" /\ lo >= -1 /\ lo < N /\ (lo >= 1 => lo <= N \div 2 - 1)
            /\ Fits => HeapFrom(lo + 1, N)
HeapifyInv == /\ prog = "heap" /\ 1 <= lo /\ lo <= N \div 2 - 1 /\ lo <= hi /\ hi < edge /\ edge = N
              /\ Fits => HeapBut(lo, N, hi)
ExtractInv == /\ prog = "heap" /\ 0 <= lo /\ lo <= N - 1
              /\ Fits => HeapFrom(1, lo + 1) /\ Behind(lo + 1)
ReheapInv == /\ prog = "heap" /\ 2 <= lo /\ lo <= N - 1 /\ edge = lo /\ 1 <= hi /\ hi < edge
             /\ Fits => HeapBut(1, lo, hi) /\ Behind(lo)

LoopInv == /\ at = "merge"  => MergeInv
           /\ at = "next"   => NextInv
           /\ at = "shift"  => ShiftInv
           /\ at = "down"   => DownInv
           /\ at = "up"     => UpInv
           /\ at = "scan"   => ScanInv
           /\ at = "gather" => GatherInv
           /\ at = "move"   => MoveInv
           /\ at = "build"  => BuildInv
           /\ at = "extract" => ExtractInv
           /\ at = "heapify" => HeapifyInv
           /\ at = "reheap" => ReheapInv

\* The heap sort before it begins and when it has ended.
HeapInv == prog = "heap" => /\ ls[0] = given[0]
                            /\ at = "call" /\ calls # <<>> => ls = given
                            /\ calls = <<>> /\ Fits => \A k \in 2..(N - 1) : ls[k - 1] <= ls[k]

Kept    == Rearranged(View, given, Cells)
Ordered == prog # "heap" => Stacked(calls) /\ InOrder(Before, calls)

\* The inductive invariant.
IndInv == Typed /\ Kept /\ Ordered /\ LoopInv /\ HeapInv
-----------------------------------------------------------------------------
(* Lists in another order.                                                  *)

\* Lists in another order.
LEMMA SameOrder == ASSUME NEW X, NEW a PROVE Rearranged(a, a, X)
<1> DEFINE f == [k \in X |-> k]
<1> f \in [X -> X]
  OBVIOUS
<1> QED BY DEF Rearranged

LEMMA Reordered ==
  ASSUME NEW X, NEW a, NEW b, NEW c, Rearranged(a, b, X), Rearranged(b, c, X)
  PROVE  Rearranged(a, c, X)
<1>1. PICK f \in [X -> X] : /\ \A k, m \in X : f[k] = f[m] => k = m
                            /\ \A m \in X : \E k \in X : f[k] = m
                            /\ \A k \in X : a[k] = b[f[k]]
  BY DEF Rearranged
<1>2. PICK g \in [X -> X] : /\ \A k, m \in X : g[k] = g[m] => k = m
                            /\ \A m \in X : \E k \in X : g[k] = m
                            /\ \A k \in X : b[k] = c[g[k]]
  BY DEF Rearranged
<1> DEFINE h == [k \in X |-> g[f[k]]]
<1>3. \A k \in X : f[k] \in X
  OBVIOUS
<1>4. h \in [X -> X] /\ \A k \in X : h[k] = g[f[k]]
  BY <1>3
<1> HIDE DEF h
<1>5. \A k, m \in X : h[k] = h[m] => k = m
  BY <1>1, <1>2, <1>3, <1>4
<1>6. \A m \in X : \E k \in X : h[k] = m
  BY <1>1, <1>2, <1>4
<1>7. ASSUME NEW k \in X PROVE a[k] = c[h[k]]
  <2>1. a[k] = b[f[k]] /\ f[k] \in X /\ h[k] = g[f[k]]
    BY <1>1, <1>3, <1>4
  <2>2. b[f[k]] = c[g[f[k]]]
    BY <1>2, <2>1
  <2> QED BY <2>1, <2>2
<1> QED BY <1>4, <1>5, <1>6, <1>7 DEF Rearranged

\* Pointwise equal lists.
LEMMA EqualLists ==
  ASSUME NEW X, NEW a, NEW b, NEW c, Rearranged(a, c, X), \A k \in X : b[k] = a[k]
  PROVE  Rearranged(b, c, X)
BY DEF Rearranged

LEMMA Exchanged ==
  ASSUME NEW X, NEW a, NEW b, NEW i \in X, NEW j \in X,
         b[i] = a[j], b[j] = a[i], \A k \in X \ {i, j} : b[k] = a[k]
  PROVE  Rearranged(b, a, X)
<1> DEFINE f == [k \in X |-> IF k = i THEN j ELSE IF k = j THEN i ELSE k]
<1>1. f \in [X -> X] /\ \A k \in X : f[k] = IF k = i THEN j ELSE IF k = j THEN i ELSE k
  OBVIOUS
<1> HIDE DEF f
<1>2. \A k, m \in X : f[k] = f[m] => k = m
  BY <1>1
<1>3. \A m \in X : f[f[m]] = m
  BY <1>1
<1>4. \A m \in X : \E k \in X : f[k] = m
  BY <1>1, <1>3
<1>5. \A k \in X : b[k] = a[f[k]]
  BY <1>1
<1> QED BY <1>1, <1>2, <1>4, <1>5 DEF Rearranged

\* The element at j goes to i, those from i on move up by one.
LEMMA Turned ==
  ASSUME NEW X \in SUBSET Int, NEW a, NEW b, NEW i \in Int, NEW j \in Int, i..j \subseteq X, i <= j,
         b[i] = a[j], \A k \in (i + 1)..j : b[k] = a[k - 1], \A k \in X \ (i..j) : b[k] = a[k]
  PROVE  Rearranged(b, a, X)
<1> DEFINE f == [k \in X |-> IF k = i THEN j ELSE IF k \in (i + 1)..j THEN k - 1 ELSE k]
<1>1. /\ f \in [X -> X]
      /\ \A k \in X : f[k] = IF k = i THEN j ELSE IF k \in (i + 1)..j THEN k - 1 ELSE k
  <2>1. \A k \in (i + 1)..j : k - 1 \in i..j
    OBVIOUS
  <2>2. j \in i..j
    OBVIOUS
  <2> QED BY <2>1, <2>2
<1> HIDE DEF f
<1>2. ASSUME NEW k \in X, NEW m \in X, f[k] = f[m] PROVE k = m
  <2>0. k \in Int /\ m \in Int
    OBVIOUS
  <2>1. CASE k = i
    BY <1>1, <1>2, <2>0, <2>1
  <2>2. CASE m = i
    BY <1>1, <1>2, <2>0, <2>2
  <2>3. CASE k # i /\ m # i
    BY <1>1, <1>2, <2>0, <2>3
  <2> QED BY <2>1, <2>2, <2>3
<1>3. ASSUME NEW m \in X PROVE \E k \in X : f[k] = m
  <2>0. m \in Int
    OBVIOUS
  <2>1. CASE m = j
    <3>1. i \in X
      BY DEF Rearranged
    <3> QED BY <1>1, <2>1, <3>1
  <2>2. CASE m \in i..(j - 1)
    <3>1. m + 1 \in (i + 1)..j /\ m + 1 \in i..j /\ m + 1 # i /\ (m + 1) - 1 = m
      BY <2>0, <2>2
    <3>2. f[m + 1] = m
      BY <1>1, <3>1
    <3> QED BY <3>1, <3>2
  <2>3. CASE m \notin i..j
    <3>1. m # i /\ m \notin (i + 1)..j
      BY <2>0, <2>3
    <3> QED BY <1>1, <3>1
  <2> QED BY <2>0, <2>1, <2>2, <2>3
<1>4. ASSUME NEW k \in X PROVE b[k] = a[f[k]]
  <2>0. k \in Int
    OBVIOUS
  <2>1. CASE k = i
    BY <1>1, <2>1
  <2>2. CASE k \in (i + 1)..j
    BY <1>1, <2>0, <2>2
  <2>3. CASE k \notin i..j
    BY <1>1, <2>0, <2>3
  <2> QED BY <2>0, <2>1, <2>2, <2>3
<1> QED BY <1>1, <1>2, <1>3, <1>4 DEF Rearranged

\* What is in a list as often as in another.
LEMMA AsOften ==
  ASSUME NEW n \in Nat, NEW a, NEW b, DOMAIN a = 0..(n - 1), DOMAIN b = 0..(n - 1),
         Rearranged(a, b, 0..(n - 1)), NEW x
  PROVE  Times(a, x) = Times(b, x)
<1> DEFINE X == 0..(n - 1)
           A == {k \in X : a[k] = x}
           B == {k \in X : b[k] = x}
<1>1. PICK f \in [X -> X] : /\ \A k, m \in X : f[k] = f[m] => k = m
                            /\ \A m \in X : \E k \in X : f[k] = m
                            /\ \A k \in X : a[k] = b[f[k]]
  BY DEF Rearranged
<1> DEFINE g == [k \in A |-> f[k]]
<1>2. g \in [A -> B]
  BY <1>1
<1>3. \A k, m \in A : g[k] = g[m] => k = m
  BY <1>1
<1>4. \A m \in B : \E k \in A : g[k] = m
  BY <1>1
<1>5. g \in Bijection(A, B)
  <2> HIDE DEF g, A, B
  <2>1. g \in Injection(A, B)
    BY <1>2, <1>3 DEF Injection, IsInjective
  <2>2. g \in Surjection(A, B)
    BY <1>2, <1>4 DEF Surjection
  <2> QED BY <2>1, <2>2 DEF Bijection
<1>6. IsFiniteSet(A)
  <2>1. IsFiniteSet(X)
    BY FS_Interval
  <2> QED BY <2>1, FS_Subset
<1>7. Cardinality(A) = Cardinality(B)
  <2>1. ExistsBijection(A, B)
    BY <1>5 DEF ExistsBijection
  <2> HIDE DEF A, B
  <2> QED BY <1>6, <2>1, FS_Bijection
<1> QED BY <1>7 DEF Times

-----------------------------------------------------------------------------
(* The stack of calls.                                                      *)

\* The stack without its top, and with other calls in its place.
CallsLeft(s, t, u) == u = SubSeq(s, 1, Len(s) - 1) \o t

LEMMA Replaced ==
  ASSUME NEW F, NEW s \in Seq(F), s # <<>>, NEW t \in Seq(F), NEW u,
         CallsLeft(s, t, u)
  PROVE  /\ u \in Seq(F) /\ Len(s) \in Nat \ {0} /\ Len(t) \in Nat
         /\ DOMAIN s = 1..Len(s) /\ DOMAIN t = 1..Len(t)
         /\ DOMAIN u = 1..((Len(s) - 1) + Len(t))
         /\ \A n \in 1..(Len(s) - 1) : u[n] = s[n]
         /\ \A n \in 1..Len(t) : u[(Len(s) - 1) + n] = t[n]
<1>1. PICK h \in Nat : h = Len(s) - 1 /\ Len(s) = h + 1
  <2>1. Len(s) - 1 \in Nat /\ Len(s) = (Len(s) - 1) + 1
    OBVIOUS
  <2> QED BY <2>1
<1>2. PICK a \in Seq(F) : a = SubSeq(s, 1, h) /\ Len(a) = h /\ \A n \in 1..h : a[n] = s[n]
  <2>1. 1 \in Int /\ h \in Int /\ \A i \in 1..h : s[i] \in F
    BY <1>1
  <2>2. /\ SubSeq(s, 1, h) \in Seq(F)
        /\ Len(SubSeq(s, 1, h)) = IF 1 <= h THEN h - 1 + 1 ELSE 0
        /\ \A n \in 1..(h - 1 + 1) : SubSeq(s, 1, h)[n] = s[1 + n - 1]
    BY <2>1, SubSeqProperties
  <2>3. (IF 1 <= h THEN h - 1 + 1 ELSE 0) = h /\ h - 1 + 1 = h /\ \A n \in 1..h : 1 + n - 1 = n
    OBVIOUS
  <2> QED BY <2>2, <2>3
<1>3. u = a \o t
  BY <1>1, <1>2 DEF CallsLeft
<1>4. /\ a \o t \in Seq(F) /\ Len(t) \in Nat /\ DOMAIN t = 1..Len(t)
      /\ DOMAIN (a \o t) = 1..(Len(a) + Len(t))
      /\ \A n \in 1..Len(a) : (a \o t)[n] = a[n]
      /\ \A n \in 1..Len(t) : (a \o t)[Len(a) + n] = t[n]
  OBVIOUS
<1>5. DOMAIN s = 1..Len(s) /\ Len(s) \in Nat \ {0}
  BY <1>1
<1> QED BY <1>1, <1>2, <1>3, <1>4, <1>5

\* Parts of a call are as far from others as it is.
LEMMA PartApart ==
  ASSUME NEW c \in Frame, NEW d \in Frame, NEW e \in Frame, Apart(c, d),
         c.p <= e.p, e.r <= c.r
  PROVE  Apart(e, d)
<1>1. /\ c.p \in Int /\ c.r \in Int /\ d.p \in Int /\ d.r \in Int /\ e.p \in Int /\ e.r \in Int
  BY DEF Frame
<1>2. PICK m \in Int : m = Mid(d)
  BY <1>1 DEF Mid
<1> QED BY <1>1, <1>2 DEF Apart

LEMMA SameSide ==
  ASSUME NEW c \in Frame, NEW d \in Frame, Apart(c, d),
         NEW x \in c.p..c.r, NEW y \in c.p..c.r, NEW z \in Int
  PROVE  /\ ~(Covers(d, x, y))
         /\ z \notin c.p..c.r => (Covers(d, x, z) <=> Covers(d, y, z))
         /\ z \notin c.p..c.r => (Covers(d, z, x) <=> Covers(d, z, y))
<1>1. /\ c.p \in Int /\ c.r \in Int /\ d.p \in Int /\ d.r \in Int /\ x \in Int /\ y \in Int
      /\ x \in c.p..c.r /\ y \in c.p..c.r
  BY DEF Frame
<1>2. PICK m \in Int : m = Mid(d)
  BY <1>1 DEF Mid
<1>3. \/ c.r < d.p \/ d.r < c.p
      \/ /\ d.f = "merge" /\ d.p <= c.p /\ c.r <= d.r
         /\ c.r < m \/ m <= c.p
  BY <1>2 DEF Apart
<1> QED BY <1>1, <1>2, <1>3 DEF Covers

\* A call is replaced by parts of it that cover what is not in order in it.
LEMMA Resplit ==
  ASSUME N \in Nat, NEW s \in Seq(Frame), s # <<>>, NEW c, c = s[Len(s)], Stacked(s),
         NEW v, InOrder(v, s), NEW t \in Seq(Frame), Stacked(t),
         \A n \in DOMAIN t : c.p <= t[n].p /\ t[n].r <= c.r,
         \A x, y \in c.p..c.r : x < y => v[x] <= v[y] \/ Covered(t, x, y),
         NEW u, CallsLeft(s, t, u)
  PROVE  u \in Seq(Frame) /\ Stacked(u) /\ InOrder(v, u)
<1>1. /\ u \in Seq(Frame) /\ Len(s) \in Nat \ {0} /\ Len(t) \in Nat
      /\ DOMAIN s = 1..Len(s) /\ DOMAIN t = 1..Len(t)
      /\ DOMAIN u = 1..((Len(s) - 1) + Len(t))
      /\ \A n \in 1..(Len(s) - 1) : u[n] = s[n]
      /\ \A n \in 1..Len(t) : u[(Len(s) - 1) + n] = t[n]
  BY Replaced
<1>2. PICK h \in Nat : h = Len(s) - 1 /\ Len(s) = h + 1
  <2>1. Len(s) - 1 \in Nat /\ Len(s) = (Len(s) - 1) + 1
    BY SMTT(30), <1>1
  <2> QED BY <2>1
<1>3. PICK l \in Nat : l = Len(t)
  BY <1>1
<1>4. /\ DOMAIN s = 1..(h + 1) /\ DOMAIN t = 1..l /\ DOMAIN u = 1..(h + l)
      /\ \A n \in 1..h : u[n] = s[n]
      /\ \A n \in 1..l : u[h + n] = t[n]
      /\ c = s[h + 1]
  BY <1>1, <1>2, <1>3
<1>5. \A n \in 1..(h + 1) : s[n] \in Frame
  BY <1>4
<1>6. \A n \in 1..l : t[n] \in Frame
  BY <1>4
<1>7. c \in Frame
  BY <1>4, <1>5
<1>8. ASSUME NEW n \in DOMAIN u PROVE n \in 1..h \/ \E k \in 1..l : n = h + k
  <2>1. n \in 1..(h + l)
    BY <1>4
  <2>2. CASE n <= h
    BY <2>1, <2>2
  <2>3. CASE n > h
    <3>1. n - h \in 1..l /\ n = h + (n - h)
      BY <2>1, <2>3
    <3> QED BY <3>1
  <2> QED BY <2>1, <2>2, <2>3
<1>9. Stacked(u)
  <2> SUFFICES ASSUME NEW m \in DOMAIN u, NEW n \in DOMAIN u, n < m PROVE Apart(u[m], u[n])
    BY DEF Stacked
  <2>1. CASE m \in 1..h /\ n \in 1..h
    <3>1. m \in DOMAIN s /\ n \in DOMAIN s
      BY <1>4, <2>1
    <3>2. Apart(s[m], s[n])
      BY <3>1 DEF Stacked
    <3> QED BY <1>4, <2>1, <3>2
  <2>2. CASE n \in 1..h /\ \E k \in 1..l : m = h + k
    <3>1. PICK k \in 1..l : m = h + k
      BY <2>2
    <3>2. n \in DOMAIN s /\ h + 1 \in DOMAIN s /\ n < h + 1
      BY <1>4, <2>2
    <3>3. Apart(c, s[n])
      BY <1>4, <3>2 DEF Stacked
    <3>4. c.p <= t[k].p /\ t[k].r <= c.r
      BY <1>4
    <3>5. t[k] \in Frame /\ s[n] \in Frame
      BY <1>4, <1>5, <1>6, <3>2
    <3>6. Apart(t[k], s[n])
      BY <1>7, <3>3, <3>4, <3>5, PartApart
    <3> QED BY <1>4, <2>2, <3>1, <3>6
  <2>3. CASE m \in 1..h /\ \E k \in 1..l : n = h + k
    BY <2>3
  <2>4. CASE (\E k \in 1..l : m = h + k) /\ (\E k \in 1..l : n = h + k)
    <3>1. PICK i \in 1..l : m = h + i
      BY <2>4
    <3>2. PICK j \in 1..l : n = h + j
      BY <2>4
    <3>3. j < i
      BY <3>1, <3>2
    <3>4. Apart(t[i], t[j])
      BY <1>4, <3>3 DEF Stacked
    <3> QED BY <1>4, <3>1, <3>2, <3>4
  <2> QED BY <1>8, <2>1, <2>2, <2>3, <2>4
<1>10. InOrder(v, u)
  <2> SUFFICES ASSUME NEW x \in Cells, NEW y \in Cells, x < y, ~(v[x] <= v[y])
               PROVE  \E n \in DOMAIN u : Covers(u[n], x, y)
    BY DEF InOrder, Covered
  <2>1. PICK n \in DOMAIN s : Covers(s[n], x, y)
    BY DEF InOrder, Covered
  <2>2. CASE n \in 1..h
    <3>1. n \in DOMAIN u
      BY <1>4, <2>2
    <3> QED BY <1>4, <2>1, <2>2, <3>1
  <2>3. CASE n = h + 1
    <3>1. x \in c.p..c.r /\ y \in c.p..c.r
      BY <1>4, <2>1, <2>3 DEF Covers
    <3>2. PICK k \in 1..l : Covers(t[k], x, y)
      BY <1>4, <3>1 DEF Covered
    <3>3. h + k \in DOMAIN u
      BY <1>4
    <3> QED BY <1>4, <3>2, <3>3
  <2>4. n \in 1..h \/ n = h + 1
    BY <1>4, <2>1
  <2> QED BY <2>2, <2>3, <2>4
<1> QED BY <1>1, <1>9, <1>10

\* A call has moved what is in its part.
Moved(c, v, w) == /\ \A x \in c.p..c.r : \E z \in c.p..c.r : w[x] = v[z]
                  /\ \A x \in Cells \ (c.p..c.r) : w[x] = v[x]
                  /\ \A x, y \in c.p..c.r : x < y => w[x] <= w[y] \/ Covers(c, x, y)

LEMMA MovedWithin ==
  ASSUME N \in Nat, NEW s \in Seq(Frame), s # <<>>, NEW c, c = s[Len(s)], Stacked(s),
         NEW v, InOrder(v, s), NEW w, Moved(c, v, w)
  PROVE  InOrder(w, s)
<1> USE DEF Moved
<1>1. PICK h \in Nat : Len(s) = h + 1 /\ DOMAIN s = 1..(h + 1)
  <2>1. Len(s) - 1 \in Nat /\ Len(s) = (Len(s) - 1) + 1 /\ DOMAIN s = 1..Len(s)
    OBVIOUS
  <2> QED BY <2>1
<1>2. c \in Frame /\ c = s[h + 1] /\ h + 1 \in DOMAIN s
  BY <1>1
<1>3. c.p \in Int /\ c.r \in Int /\ c.p..c.r \subseteq Cells
  <2>1. c.p \in Int /\ c.r \in Int /\ 0 <= c.p /\ c.r <= N - 1
    BY <1>2 DEF Frame
  <2> QED BY <2>1 DEF Cells
<1>4. \A n \in DOMAIN s \ {h + 1} : s[n] \in Frame /\ Apart(c, s[n])
  <2> SUFFICES ASSUME NEW n \in 1..h PROVE s[n] \in Frame /\ Apart(c, s[n])
    BY <1>1
  <2>1. n \in DOMAIN s /\ n < h + 1
    BY <1>1
  <2>2. Apart(s[h + 1], s[n])
    BY <1>2, <2>1 DEF Stacked
  <2> QED BY <1>2, <2>1, <2>2
<1> SUFFICES ASSUME NEW x \in Cells, NEW y \in Cells, x < y, ~(w[x] <= w[y])
             PROVE  \E n \in DOMAIN s : Covers(s[n], x, y)
  BY DEF InOrder, Covered
<1>0. x \in Int /\ y \in Int
  BY DEF Cells
<1>5. CASE x \in c.p..c.r /\ y \in c.p..c.r
  BY <1>2, <1>5
<1>6. CASE x \notin c.p..c.r /\ y \notin c.p..c.r
  BY <1>6 DEF InOrder, Covered
<1>7. CASE x \in c.p..c.r /\ y \notin c.p..c.r
  <2>1. PICK z \in c.p..c.r : w[x] = v[z]
    BY <1>7
  <2>2. w[y] = v[y] /\ z \in Cells /\ z \in Int
    BY <1>3, <1>7
  <2>3. z < y
    <3>1. PICK p \in Int, r \in Int : p = c.p /\ r = c.r
      BY <1>3
    <3>2. x \in p..r /\ y \notin p..r /\ z \in p..r /\ x < y
      BY <1>7, <3>1
    <3> QED BY <1>0, <2>2, <3>2
  <2>4. PICK n \in DOMAIN s : Covers(s[n], z, y)
    BY <2>1, <2>2, <2>3 DEF InOrder, Covered
  <2>5. n # h + 1
    BY <1>2, <1>7, <2>4 DEF Covers
  <2>6. Covers(s[n], x, y)
    BY <1>0, <1>2, <1>4, <1>7, <2>4, <2>5, SameSide
  <2> QED BY <2>6
<1>8. CASE x \notin c.p..c.r /\ y \in c.p..c.r
  <2>1. PICK z \in c.p..c.r : w[y] = v[z]
    BY <1>8
  <2>2. w[x] = v[x] /\ z \in Cells /\ z \in Int
    BY <1>3, <1>8
  <2>3. x < z
    <3>1. PICK p \in Int, r \in Int : p = c.p /\ r = c.r
      BY <1>3
    <3>2. x \notin p..r /\ y \in p..r /\ z \in p..r /\ x < y
      BY <1>8, <3>1
    <3> QED BY <1>0, <2>2, <3>2
  <2>4. PICK n \in DOMAIN s : Covers(s[n], x, z)
    BY <2>1, <2>2, <2>3 DEF InOrder, Covered
  <2>5. n # h + 1
    BY <1>2, <1>8, <2>4 DEF Covers
  <2>6. Covers(s[n], x, y)
    BY <1>0, <1>2, <1>4, <1>8, <2>4, <2>5, SameSide
  <2> QED BY <2>6
<1> QED BY SMTT(60), <1>5, <1>6, <1>7, <1>8

-----------------------------------------------------------------------------
(* What a step keeps.                                                       *)

LEMMA Half ==
  ASSUME NEW p \in Int, NEW r \in Int
  PROVE  /\ (p + r + 1) \div 2 \in Int
         /\ p < r => p < (p + r + 1) \div 2 /\ (p + r + 1) \div 2 <= r
<1>1. PICK m \in Int : m = (p + r + 1) \div 2
  OBVIOUS
<1>2. 2 * m <= p + r + 1 /\ p + r + 1 < 2 * m + 2
  BY <1>1
<1> QED BY <1>1, <1>2

\* The call on top.
LEMMA OnTop ==
  ASSUME Typed, calls # <<>>
  PROVE  /\ Top \in Frame /\ Len(calls) \in Nat \ {0} /\ DOMAIN calls = 1..Len(calls)
         /\ Top.p \in Int /\ Top.r \in Int /\ Mid(Top) \in Int /\ Top.f \in {"sort", "merge"}
         /\ 0 <= Top.p /\ Top.p <= Top.r + 1 /\ Top.r <= N - 1 /\ N \in Nat
         /\ Top.f = "merge" => Top.p < Top.r
         /\ Top.p < Top.r => Top.p < Mid(Top) /\ Mid(Top) <= Top.r
         /\ \A k \in Top.p..Top.r : k \in Cells /\ k \in Int
<1>1. calls \in Seq(Frame) /\ N \in Nat
  BY DEF Typed
<1>2. Len(calls) \in Nat \ {0} /\ DOMAIN calls = 1..Len(calls)
  BY <1>1
<1>3. calls[Len(calls)] \in Frame
  BY <1>1, <1>2
<1>4. Top \in Frame
  BY <1>3 DEF Top
<1>5. /\ Top.p \in Int /\ Top.r \in Int /\ Top.f \in {"sort", "merge"}
      /\ 0 <= Top.p /\ Top.p <= Top.r + 1 /\ Top.r <= N - 1
      /\ Top.f = "merge" => Top.p < Top.r
  BY <1>4 DEF Frame
<1>6. /\ Mid(Top) \in Int
      /\ Top.p < Top.r => Top.p < Mid(Top) /\ Mid(Top) <= Top.r
  BY <1>5, Half DEF Mid
<1>7. \A k \in Top.p..Top.r : k \in Cells /\ k \in Int
  <2> SUFFICES ASSUME NEW p \in Int, NEW r \in Int, 0 <= p, r <= N - 1
               PROVE  \A k \in p..r : k \in Cells /\ k \in Int
    BY <1>5
  <2> QED BY <1>1 DEF Cells
<1> QED BY <1>1, <1>2, <1>4, <1>5, <1>6, <1>7

LEMMA Steady ==
  ASSUME given' = given
  PROVE  /\ N' = N /\ Cells' = Cells /\ Frame' = Frame /\ Whole' = Whole
<1>1. N' = N
  BY DEF N, Length
<1>2. Cells' = Cells
  BY <1>1 DEF Cells
<1>3. Frame' = Frame
  BY <1>1 DEF Frame
<1>4. Whole' = Whole
  BY <1>1 DEF Whole, Sort
<1> QED BY <1>1, <1>2, <1>3, <1>4

\* A loop goes on.
LEMMA TypedOn ==
  ASSUME Typed, calls # <<>>, calls' = calls, given' = given, prog' = prog,
         ls' \in [Cells -> Int], lo' \in Int, hi' \in Int, edge' \in Int, pivot' \in Int,
         at' \in {"merge", "next", "shift", "down", "up", "scan", "gather", "move",
                  "build", "extract", "heapify", "reheap"}
  PROVE  Typed'
BY Steady DEF Typed, ListOK

\* Two elements of the part on top are exchanged.
LEMMA Swapped ==
  ASSUME IndInv, calls # <<>>, Top.f = "sort", at \notin {"merge", "shift"},
         NEW i \in Top.p..Top.r, NEW j \in Top.p..Top.r, Swaps(i, j)
  PROVE  /\ ls' \in [Cells -> Int]
         /\ \A k \in Cells : ls'[k] = IF k = i THEN ls[j] ELSE IF k = j THEN ls[i] ELSE ls[k]
         /\ Rearranged(ls', given, Cells)
         /\ prog # "heap" => InOrder(ls', calls)
<1> USE DEF IndInv
<1>1. /\ ls \in [Cells -> Int] /\ i \in Cells /\ j \in Cells /\ i \in Int /\ j \in Int
      /\ calls \in Seq(Frame) /\ N \in Nat
  BY OnTop DEF Typed, ListOK
<1>2. ls' \in [Cells -> Int]
  BY <1>1 DEF Swaps
<1>3. \A k \in Cells : ls'[k] = IF k = i THEN ls[j] ELSE IF k = j THEN ls[i] ELSE ls[k]
  BY <1>1 DEF Swaps
<1>4. View = ls /\ Before = ls
  BY DEF View, Before
<1>5. Rearranged(ls', given, Cells)
  <2>1. ls'[i] = ls[j] /\ ls'[j] = ls[i] /\ \A k \in Cells \ {i, j} : ls'[k] = ls[k]
    BY <1>1, <1>3
  <2>2. Rearranged(ls', ls, Cells)
    BY <1>1, <2>1, Exchanged
  <2>3. Rearranged(ls, given, Cells)
    BY <1>4 DEF Kept
  <2> QED BY <2>2, <2>3, Reordered
<1>6. ASSUME prog # "heap" PROVE InOrder(ls', calls)
  <2>1. Stacked(calls) /\ InOrder(ls, calls)
    BY <1>4, <1>6 DEF Ordered
  <2>2. \A x \in Top.p..Top.r : \E z \in Top.p..Top.r : ls'[x] = ls[z]
    <3> TAKE x \in Top.p..Top.r
    <3>1. x \in Cells
      BY OnTop
    <3> QED BY <1>3, <3>1
  <2>3. \A x \in Cells \ (Top.p..Top.r) : ls'[x] = ls[x]
    BY <1>3
  <2>4. \A x, y \in Top.p..Top.r : x < y => ls'[x] <= ls'[y] \/ Covers(Top, x, y)
    BY DEF Covers
  <2>5. Top = calls[Len(calls)]
    BY DEF Top
  <2>6. Moved(Top, ls, ls')
    BY <2>2, <2>3, <2>4 DEF Moved
  <2> QED BY <1>1, <2>1, <2>5, <2>6, MovedWithin
<1> QED BY <1>2, <1>3, <1>5, <1>6

\* The call on top ends and leaves others.
LEMMA Left ==
  ASSUME Typed, calls # <<>>, prog # "heap", Stacked(calls), NEW t \in Seq(Frame), Leaves(t),
         given' = given, prog' = prog, ls' \in [Cells -> Int],
         Rearranged(ls', given, Cells), InOrder(ls', calls), Stacked(t),
         \A n \in DOMAIN t : Top.p <= t[n].p /\ t[n].r <= Top.r,
         \A x, y \in Top.p..Top.r : x < y => ls'[x] <= ls'[y] \/ Covered(t, x, y),
         prog # "merge" => \A n \in DOMAIN t : t[n].f = "sort",
         prog = "insertion" => t = <<>>
  PROVE  IndInv'
<1>0. PICK u, w, c : u = calls' /\ w = ls' /\ c = Top
  OBVIOUS
<1>1. /\ calls \in Seq(Frame) /\ N \in Nat /\ CallsLeft(calls, t, u) /\ c = calls[Len(calls)]
      /\ calls # <<>>
  BY <1>0 DEF Typed, Leaves, Rest, Top, CallsLeft
<1>2. /\ u \in Seq(Frame) /\ Len(calls) \in Nat \ {0} /\ Len(t) \in Nat
      /\ DOMAIN calls = 1..Len(calls) /\ DOMAIN t = 1..Len(t)
      /\ DOMAIN u = 1..((Len(calls) - 1) + Len(t))
      /\ \A n \in 1..(Len(calls) - 1) : u[n] = calls[n]
      /\ \A n \in 1..Len(t) : u[(Len(calls) - 1) + n] = t[n]
  <2>1. calls \in Seq(Frame) /\ calls # <<>> /\ CallsLeft(calls, t, u)
    BY <1>1
  <2> QED BY <2>1, Replaced, SMTT(60)
<1>3. Stacked(u) /\ InOrder(w, u)
  <2>1. /\ InOrder(w, calls)
        /\ \A n \in DOMAIN t : c.p <= t[n].p /\ t[n].r <= c.r
        /\ \A x, y \in c.p..c.r : x < y => w[x] <= w[y] \/ Covered(t, x, y)
    BY <1>0
  <2> QED BY <1>1, <2>1, Resplit
<1>4. at' = "call" /\ lo' = 0 /\ hi' = 0 /\ edge' = 0 /\ pivot' = 0
  BY DEF Leaves, Locals
<1>5. prog # "merge" => \A n \in DOMAIN u : u[n].f = "sort"
  <2> SUFFICES ASSUME prog # "merge", NEW n \in DOMAIN u PROVE u[n].f = "sort"
    OBVIOUS
  <2>1. PICK h \in Nat : h = Len(calls) - 1 /\ Len(calls) = h + 1
    <3>1. Len(calls) - 1 \in Nat /\ Len(calls) = (Len(calls) - 1) + 1
      BY <1>2
    <3> QED BY <3>1
  <2>2. PICK l \in Nat : l = Len(t)
    BY <1>2
  <2>3. n \in 1..(h + l)
    BY <1>2, <2>1, <2>2
  <2>4. CASE n <= h
    <3>1. n \in 1..h /\ n \in DOMAIN calls
      BY <1>2, <2>1, <2>3, <2>4
    <3>2. u[n] = calls[n]
      BY <1>2, <2>1, <3>1
    <3> QED BY <3>1, <3>2 DEF Typed
  <2>5. CASE n > h
    <3>1. n - h \in 1..l /\ h + (n - h) = n
      BY <2>3, <2>5
    <3>2. u[n] = t[n - h]
      BY <1>2, <2>1, <2>2, <3>1
    <3> QED BY <1>2, <2>2, <3>1, <3>2
  <2> QED BY <2>3, <2>4, <2>5
<1>6. prog = "insertion" => u = <<>>
  <2> SUFFICES ASSUME prog = "insertion" PROVE u = <<>>
    OBVIOUS
  <2>1. t = <<>> /\ Len(calls) = 1
    BY DEF Typed
  <2>2. DOMAIN u = 1..0
    BY <1>2, <2>1
  <2>3. Len(u) = 0
    BY <1>2, <2>2
  <2> QED BY <1>2, <2>3
<1>7. Typed'
  BY <1>0, <1>2, <1>4, <1>5, <1>6, Steady DEF Typed, ListOK
<1>8. View' = ls' /\ Before' = ls'
  BY <1>4 DEF View, Before
<1>9. Kept'
  BY <1>8, Steady DEF Kept
<1>10. Ordered'
  <2>1. Stacked(calls)' /\ InOrder(Before, calls)'
    BY <1>0, <1>3, <1>8, Steady DEF Stacked, InOrder, Covered, Covers, Mid, Apart
  <2> QED BY <2>1 DEF Ordered
<1>11. LoopInv' /\ HeapInv'
  BY <1>4 DEF LoopInv, HeapInv
<1> QED BY <1>7, <1>9, <1>10, <1>11 DEF IndInv

LEMMA Unmoved ==
  ASSUME IndInv, at \notin {"merge", "shift"}, ls' = ls
  PROVE  /\ ls' \in [Cells -> Int] /\ Rearranged(ls', given, Cells)
         /\ prog # "heap" => Stacked(calls) /\ InOrder(ls', calls)
BY DEF IndInv, Typed, Kept, Ordered, View, Before, ListOK

LEMMA Continued ==
  ASSUME IndInv, calls # <<>>, prog # "heap", calls' = calls, given' = given, prog' = prog,
         ls' \in [Cells -> Int], Rearranged(ls', given, Cells), InOrder(ls', calls),
         lo' \in Int, hi' \in Int, edge' \in Int, pivot' \in Int,
         at' \in {"next", "down", "up", "scan", "gather", "move"}, LoopInv'
  PROVE  IndInv'
<1>1. Typed'
  BY TypedOn DEF IndInv
<1>2. View' = ls' /\ Before' = ls'
  BY DEF View, Before
<1>3. Kept'
  BY <1>2, Steady DEF Kept
<1>4. Ordered'
  <2>1. Stacked(calls)
    BY DEF IndInv, Ordered
  <2>2. Stacked(calls)' /\ InOrder(Before, calls)'
    BY <1>2, <2>1, Steady DEF Stacked, InOrder, Covered, Covers, Mid, Apart
  <2> QED BY <2>2 DEF Ordered
<1>5. HeapInv'
  BY DEF HeapInv
<1> QED BY <1>1, <1>3, <1>4, <1>5 DEF IndInv

\* What is left of a part when its middle is in place.
LEMMA TwoParts ==
  ASSUME N \in Nat, NEW p \in Int, NEW r \in Int, NEW a \in Int, NEW b \in Int,
         0 <= p, r <= N - 1, p <= a + 1, a < b, b <= r + 1,
         NEW t, t = <<Sort(b, r), Sort(p, a)>>
  PROVE  /\ t \in Seq(Frame) /\ Stacked(t)
         /\ \A n \in DOMAIN t : p <= t[n].p /\ t[n].r <= r /\ t[n].f = "sort"
         /\ \A x, y \in p..r : (x <= a /\ y <= a) \/ (b <= x /\ b <= y) => Covered(t, x, y)
<1>1. /\ DOMAIN t = {1, 2} /\ t[1] = [f |-> "sort", p |-> b, r |-> r]
      /\ t[2] = [f |-> "sort", p |-> p, r |-> a]
  BY DEF Sort
<1>2. Sort(b, r) \in Frame /\ Sort(p, a) \in Frame
  <2>1. 0 <= b /\ a <= N - 1
    OBVIOUS
  <2> QED BY <2>1 DEF Frame, Sort
<1>3. t \in Seq(Frame)
  BY <1>2
<1>4. Stacked(t)
  BY <1>1 DEF Stacked, Apart
<1>5. \A n \in DOMAIN t : p <= t[n].p /\ t[n].r <= r /\ t[n].f = "sort"
  BY <1>1
<1>6. ASSUME NEW x \in p..r, NEW y \in p..r, (x <= a /\ y <= a) \/ (b <= x /\ b <= y)
      PROVE  Covered(t, x, y)
  <2>1. CASE x <= a /\ y <= a
    <3>1. Covers(t[2], x, y)
      BY <1>1, <2>1 DEF Covers
    <3> QED BY <1>1, <3>1 DEF Covered
  <2>2. CASE b <= x /\ b <= y
    <3>1. Covers(t[1], x, y)
      BY <1>1, <2>2 DEF Covers
    <3> QED BY <1>1, <3>1 DEF Covered
  <2> QED BY <1>6, <2>1, <2>2
<1> QED BY <1>3, <1>4, <1>5, <1>6

\* A part is left in two, with its middle in place.
LEMMA LeftInTwo ==
  ASSUME IndInv, calls # <<>>, prog \in {"hoare", "simple", "equal"},
         NEW a \in Int, NEW b \in Int, Top.p <= a + 1, a < b, b <= Top.r + 1,
         Leaves(<<Sort(b, Top.r), Sort(Top.p, a)>>), given' = given, prog' = prog,
         ls' \in [Cells -> Int], Rearranged(ls', given, Cells), InOrder(ls', calls),
         \A x, y \in Top.p..Top.r : x < y /\ x < b /\ a < y => ls'[x] <= ls'[y]
  PROVE  IndInv'
<1>1. Typed /\ Stacked(calls) /\ N \in Nat
  BY DEF IndInv, Typed, Ordered
<1>0. PICK t : t = <<Sort(b, Top.r), Sort(Top.p, a)>>
  OBVIOUS
<1>2. PICK p \in Int, r \in Int : p = Top.p /\ r = Top.r /\ t = <<Sort(b, Top.r), Sort(Top.p, a)>>
  BY <1>0, <1>1, OnTop
<1>3. 0 <= p /\ r <= N - 1
  BY <1>1, <1>2, OnTop
<1>4. t = <<Sort(b, r), Sort(p, a)>> /\ p <= a + 1 /\ b <= r + 1
  BY <1>2
<1>5. /\ t \in Seq(Frame) /\ Stacked(t)
      /\ \A n \in DOMAIN t : p <= t[n].p /\ t[n].r <= r /\ t[n].f = "sort"
      /\ \A x, y \in p..r : (x <= a /\ y <= a) \/ (b <= x /\ b <= y) => Covered(t, x, y)
  BY <1>1, <1>3, <1>4, TwoParts
<1>6. \A x, y \in Top.p..Top.r : x < y => ls'[x] <= ls'[y] \/ Covered(t, x, y)
  <2> SUFFICES ASSUME NEW x \in p..r, NEW y \in p..r, x < y PROVE ls'[x] <= ls'[y] \/ Covered(t, x, y)
    BY <1>2
  <2>1. CASE x < b /\ a < y
    BY <1>2, <2>1
  <2>2. CASE ~(x < b /\ a < y)
    <3>1. (x <= a /\ y <= a) \/ (b <= x /\ b <= y)
      BY <2>2
    <3> QED BY <1>5, <3>1
  <2> QED BY <2>1, <2>2
<1>7. Leaves(t)
  BY <1>2
<1>8. /\ \A n \in DOMAIN t : Top.p <= t[n].p /\ t[n].r <= Top.r
      /\ prog # "merge" => \A n \in DOMAIN t : t[n].f = "sort"
      /\ prog = "insertion" => t = <<>>
  BY <1>2, <1>5
<1> QED BY <1>1, <1>5, <1>6, <1>7, <1>8, Left

LEMMA LeftEmpty ==
  ASSUME IndInv, calls # <<>>, prog # "heap", Leaves(<<>>), given' = given, prog' = prog,
         ls' \in [Cells -> Int], Rearranged(ls', given, Cells), InOrder(ls', calls),
         \A x, y \in Top.p..Top.r : x < y => ls'[x] <= ls'[y]
  PROVE  IndInv'
<1>1. Typed /\ Stacked(calls)
  BY DEF IndInv, Ordered
<1>2. PICK t : t = <<>>
  OBVIOUS
<1>3. t \in Seq(Frame) /\ DOMAIN t = {} /\ Leaves(t)
  BY <1>2
<1>4. /\ Stacked(t) /\ \A n \in DOMAIN t : Top.p <= t[n].p /\ t[n].r <= Top.r
      /\ \A x, y \in Top.p..Top.r : x < y => ls'[x] <= ls'[y] \/ Covered(t, x, y)
      /\ prog # "merge" => \A n \in DOMAIN t : t[n].f = "sort"
      /\ prog = "insertion" => t = <<>>
  BY <1>2, <1>3 DEF Stacked
<1> QED BY <1>1, <1>3, <1>4, Left
-----------------------------------------------------------------------------
LEMMA ReturnKept ==
  ASSUME IndInv, Return, given' = given, prog' = prog
  PROVE  IndInv'
<1>1. calls # <<>> /\ at = "call" /\ prog # "heap" /\ Top.p >= Top.r /\ Leaves(<<>>) /\ ls' = ls
  BY DEF Return, Calls
<1>2. Top.p \in Int /\ Top.r \in Int
  BY <1>1, OnTop DEF IndInv
<1>3. \A x, y \in Top.p..Top.r : x < y => ls'[x] <= ls'[y]
  BY <1>1, <1>2
<1> QED BY <1>1, <1>3, Unmoved, LeftEmpty

-----------------------------------------------------------------------------
(* hoare_partition.                                                         *)

LEMMA SameTop == ASSUME calls' = calls PROVE Top' = Top
BY DEF Top

LEMMA HoarePartitionKept ==
  ASSUME IndInv, HoarePartition, given' = given, prog' = prog
  PROVE  IndInv'
<1>1. /\ calls # <<>> /\ at = "call" /\ prog = "hoare" /\ Top.p < Top.r /\ calls' = calls /\ ls' = ls
      /\ at' = "down" /\ lo' = Top.p - 1 /\ hi' = Top.r + 1 /\ edge' = 0 /\ pivot' = ls[Top.p]
  BY DEF HoarePartition, Calls, Loops, Locals
<1>2. /\ Top.p \in Int /\ Top.r \in Int /\ \A k \in Top.p..Top.r : k \in Cells /\ k \in Int
  BY <1>1, OnTop DEF IndInv
<1>3. ls \in [Cells -> Int]
  BY DEF IndInv, Typed, ListOK
<1>4. PICK p \in Int, r \in Int : p = Top.p /\ r = Top.r
  BY <1>2
<1>5. p \in p..r /\ p \in Cells /\ ls[p] \in Int
  BY <1>1, <1>2, <1>3, <1>4
<1>6. HoareInv'
  <2>1. \A k \in p..(p - 1) : ls[k] <= ls[p]
    OBVIOUS
  <2>2. p \in (p - 1 + 1)..r /\ ls[p] >= ls[p]
    BY <1>1, <1>4, <1>5
  <2> QED BY <1>1, <1>4, <2>1, <2>2, SameTop DEF HoareInv
<1>7. DownInv'
  <2>1. \A k \in (r + 1)..r : ls[k] >= ls[p]
    OBVIOUS
  <2>2. p \in p..(r + 1 - 1) /\ ls[p] <= ls[p]
    BY <1>1, <1>4, <1>5
  <2>3. p - 1 < r + 1 /\ r + 1 <= r + 1
    BY <1>1, <1>4
  <2> QED BY <1>1, <1>4, <1>6, <2>1, <2>2, <2>3, SameTop DEF DownInv
<1>8. LoopInv'
  BY <1>1, <1>7 DEF LoopInv
<1>9. lo' \in Int /\ hi' \in Int /\ edge' \in Int /\ pivot' \in Int
  BY <1>1, <1>4, <1>5
<1> QED BY <1>1, <1>8, <1>9, Unmoved, Continued

LEMMA DownKept ==
  ASSUME IndInv, Down, given' = given, prog' = prog
  PROVE  IndInv'
<1>1. /\ at = "down" /\ calls' = calls /\ ls' = ls /\ lo' = lo /\ hi' = hi - 1 /\ edge' = 0 /\ pivot' = pivot
      /\ at' = IF ls[hi - 1] > pivot THEN "down" ELSE "up"
  BY DEF Down, Loops, Locals
<1>2. /\ DownInv /\ HoareInv /\ Typed /\ calls # <<>> /\ prog = "hoare"
  BY <1>1 DEF IndInv, LoopInv, Typed, DownInv, HoareInv
<1>3. Top.p \in Int /\ Top.r \in Int /\ \A k \in Top.p..Top.r : k \in Cells /\ k \in Int
  BY <1>2, OnTop
<1>4. PICK p \in Int, r \in Int : p = Top.p /\ r = Top.r
  BY <1>3
<1>5. ls \in [Cells -> Int] /\ lo \in Int /\ hi \in Int /\ pivot \in Int /\ edge \in Int
  BY <1>2 DEF Typed, ListOK
<1>6. /\ p - 1 <= lo /\ lo <= r /\ lo < hi /\ hi <= r + 1
      /\ \A k \in p..lo : ls[k] <= pivot
      /\ \A k \in hi..r : ls[k] >= pivot
      /\ \E k \in p..(hi - 1) : ls[k] <= pivot
  BY <1>2, <1>4 DEF DownInv, HoareInv
<1>7. \A k \in p..r : ls[k] \in Int
  BY <1>3, <1>4, <1>5
<1>8. HoareInv'
  BY <1>1, <1>2, SameTop DEF HoareInv
<1>9. PICK m \in p..(hi - 1) : ls[m] <= pivot
  BY <1>6
<1>10. hi - 1 \in p..r
  BY <1>5, <1>6, <1>9
<1>11. CASE ls[hi - 1] > pivot
  <2>1. m \in p..(hi - 2)
    BY <1>5, <1>7, <1>9, <1>10, <1>11
  <2>2. lo < hi - 1
    <3>1. lo # hi - 1
      <4>1. CASE lo = hi - 1
        <5>1. lo \in p..lo
          BY <1>5, <1>10, <4>1
        <5> QED BY <1>5, <1>6, <1>7, <1>10, <1>11, <4>1, <5>1
      <4> QED BY <4>1
    <3> QED BY <1>5, <1>6, <3>1
  <2>3. \A k \in (hi - 1)..r : ls[k] >= pivot
    <3> SUFFICES ASSUME NEW k \in (hi - 1)..r PROVE ls[k] >= pivot
      OBVIOUS
    <3>1. CASE k = hi - 1
      BY <1>5, <1>7, <1>10, <1>11, <3>1
    <3>2. CASE k # hi - 1
      <4>1. k \in hi..r
        BY <1>5, <3>2
      <4> QED BY <1>6, <4>1
    <3> QED BY <3>1, <3>2
  <2>4. DownInv'
    <3>1. hi - 1 <= r + 1 /\ hi - 1 - 1 = hi - 2
      BY <1>5, <1>6
    <3> QED BY <1>1, <1>4, <1>8, <1>9, <2>1, <2>2, <2>3, <3>1, SameTop DEF DownInv
  <2> QED BY <1>1, <1>2, <1>5, <1>11, <2>4, Unmoved, Continued DEF LoopInv
<1>12. CASE ~(ls[hi - 1] > pivot)
  <2>1. ls[hi - 1] <= pivot /\ p <= hi - 1 /\ hi - 1 <= r
    BY <1>5, <1>7, <1>10, <1>12
  <2>2. hi - 1 + 1 = hi
    BY <1>5
  <2>3. UpInv'
    BY <1>1, <1>4, <1>6, <1>8, <2>1, <2>2, SameTop DEF UpInv
  <2> QED BY <1>1, <1>2, <1>5, <1>12, <2>3, Unmoved, Continued DEF LoopInv
<1> QED BY <1>11, <1>12

\* What the loops of hoare_partition know, without the variables' names.
LEMMA AtUp ==
  ASSUME IndInv, at = "up"
  PROVE  /\ Typed /\ calls # <<>> /\ prog = "hoare" /\ N \in Nat
         /\ Top.p \in Int /\ Top.r \in Int /\ \A k \in Top.p..Top.r : k \in Cells /\ k \in Int /\ ls[k] \in Int
         /\ ls \in [Cells -> Int] /\ lo \in Int /\ hi \in Int /\ pivot \in Int /\ edge \in Int
         /\ HoareInv /\ UpInv
         /\ lo + 1 \in Top.p..Top.r /\ hi \in Top.p..Top.r
<1>1. /\ HoareInv /\ UpInv /\ Typed /\ calls # <<>> /\ prog = "hoare"
  BY DEF IndInv, LoopInv, Typed, UpInv, HoareInv
<1>2. /\ Top.p \in Int /\ Top.r \in Int /\ \A k \in Top.p..Top.r : k \in Cells /\ k \in Int
      /\ N \in Nat
  BY <1>1, OnTop
<1>3. ls \in [Cells -> Int] /\ lo \in Int /\ hi \in Int /\ pivot \in Int /\ edge \in Int
  BY <1>1 DEF Typed, ListOK
<1>4. \A k \in Top.p..Top.r : ls[k] \in Int
  BY <1>2, <1>3
<1>5. PICK k \in (lo + 1)..Top.r : ls[k] >= pivot
  BY <1>1 DEF HoareInv
<1>6. lo + 1 \in Top.p..Top.r /\ hi \in Top.p..Top.r
  BY SMTT(30), <1>1, <1>2, <1>3, <1>5 DEF HoareInv, UpInv
<1> QED BY <1>1, <1>2, <1>3, <1>4, <1>6

LEMMA UpKept ==
  ASSUME IndInv, Up, given' = given, prog' = prog
  PROVE  IndInv'
<1>1. /\ at = "up" /\ calls' = calls /\ ls' = ls /\ lo' = lo + 1 /\ hi' = hi /\ edge' = 0 /\ pivot' = pivot
      /\ at' = "up" /\ ls[lo + 1] < pivot
  BY DEF Up, Loops, Locals
<1>2. PICK p \in Int, r \in Int : p = Top.p /\ r = Top.r
  BY <1>1, AtUp
<1>3. /\ lo \in Int /\ hi \in Int /\ pivot \in Int /\ \A k \in p..r : ls[k] \in Int
      /\ lo + 1 \in p..r
      /\ \A k \in p..lo : ls[k] <= pivot
      /\ \E k \in (lo + 1)..r : ls[k] >= pivot
  BY <1>1, <1>2, AtUp DEF HoareInv
<1>4. PICK k \in (lo + 1)..r : ls[k] >= pivot
  BY <1>3
<1>5. k \in (lo + 1 + 1)..r
  <2>1. k # lo + 1
    BY <1>1, <1>3, <1>4
  <2> QED BY <1>3, <1>4, <2>1
<1>6. \A m \in p..(lo + 1) : ls[m] <= pivot
  <2> SUFFICES ASSUME NEW m \in p..(lo + 1) PROVE ls[m] <= pivot
    OBVIOUS
  <2>1. CASE m = lo + 1
    BY <1>1, <1>3, <2>1
  <2>2. CASE m # lo + 1
    <3>1. m \in p..lo
      BY <1>3, <2>2
    <3> QED BY <1>3, <3>1
  <2> QED BY <2>1, <2>2
<1>7. HoareInv'
  <2>1. p - 1 <= lo + 1 /\ lo + 1 <= r
    BY <1>3
  <2> QED BY <1>1, <1>2, <1>4, <1>5, <1>6, <2>1, AtUp, SameTop DEF HoareInv
<1>8. UpInv'
  BY <1>1, <1>2, <1>7, AtUp, SameTop DEF UpInv
<1>9. LoopInv'
  BY <1>1, <1>8 DEF LoopInv
<1>10. lo' \in Int /\ hi' \in Int /\ edge' \in Int /\ pivot' \in Int
  BY <1>1, <1>3
<1> QED BY <1>1, <1>9, <1>10, AtUp, Unmoved, Continued

LEMMA ExchangeKept ==
  ASSUME IndInv, Exchange, given' = given, prog' = prog
  PROVE  IndInv'
<1>1. /\ at = "up" /\ calls' = calls /\ lo' = lo + 1 /\ hi' = hi /\ edge' = 0 /\ pivot' = pivot
      /\ at' = "down" /\ ls[lo + 1] >= pivot /\ lo + 1 < hi /\ Swaps(lo + 1, hi)
  BY DEF Exchange, Loops, Locals
<1>2. PICK p \in Int, r \in Int, i \in Int, j \in Int : p = Top.p /\ r = Top.r /\ i = lo + 1 /\ j = hi
  BY <1>1, AtUp
<1>3. /\ pivot \in Int /\ \A k \in p..r : k \in Int /\ k \in Cells /\ ls[k] \in Int
      /\ i \in p..r /\ j \in p..r /\ i < j /\ ls[i] >= pivot /\ ls[j] <= pivot /\ prog = "hoare"
      /\ \A k \in p..(i - 1) : ls[k] <= pivot
      /\ \A k \in (j + 1)..r : ls[k] >= pivot
  <2>1. i - 1 = lo
    BY <1>1, <1>2, AtUp
  <2> QED BY <1>1, <1>2, <2>1, AtUp DEF HoareInv, UpInv
<1>4. Top.f = "sort"
  <2>1. calls # <<>> /\ prog # "merge" /\ Typed
    BY <1>1, AtUp
  <2> QED BY <2>1, OnTop DEF Typed, Top
<1>5. /\ ls' \in [Cells -> Int]
      /\ \A k \in Cells : ls'[k] = IF k = i THEN ls[j] ELSE IF k = j THEN ls[i] ELSE ls[k]
      /\ Rearranged(ls', given, Cells) /\ InOrder(ls', calls)
  <2>1. i \in Top.p..Top.r /\ j \in Top.p..Top.r /\ Swaps(i, j) /\ at \notin {"merge", "shift"} /\ calls # <<>>
    BY <1>1, <1>2, <1>3, AtUp
  <2> QED BY <1>3, <1>4, <2>1, Swapped
<1>6. /\ ls'[i] <= pivot /\ ls'[j] >= pivot
      /\ \A k \in p..(i - 1) : ls'[k] <= pivot
      /\ \A k \in (j + 1)..r : ls'[k] >= pivot
  <2>1. ls'[i] = ls[j] /\ ls'[j] = ls[i]
    BY <1>3, <1>5
  <2>2. ASSUME NEW k \in p..(i - 1) PROVE ls'[k] = ls[k]
    <3>1. k \in p..r /\ k # i /\ k # j
      BY <1>3
    <3> QED BY <1>3, <1>5, <3>1
  <2>3. ASSUME NEW k \in (j + 1)..r PROVE ls'[k] = ls[k]
    <3>1. k \in p..r /\ k # i /\ k # j
      BY <1>3
    <3> QED BY <1>3, <1>5, <3>1
  <2> QED BY <1>3, <2>1, <2>2, <2>3
<1>7. \A k \in p..i : ls'[k] <= pivot
  <2> SUFFICES ASSUME NEW k \in p..i PROVE ls'[k] <= pivot
    OBVIOUS
  <2>1. k = i \/ k \in p..(i - 1)
    OBVIOUS
  <2> QED BY <1>6, <2>1
<1>8. \A k \in j..r : ls'[k] >= pivot
  <2> SUFFICES ASSUME NEW k \in j..r PROVE ls'[k] >= pivot
    OBVIOUS
  <2>1. k = j \/ k \in (j + 1)..r
    OBVIOUS
  <2> QED BY <1>6, <2>1
<1>9. HoareInv'
  <2>1. p - 1 <= i /\ i <= r /\ j \in (i + 1)..r
    BY <1>3
  <2> QED BY <1>1, <1>2, <1>3, <1>6, <1>7, <2>1, SameTop DEF HoareInv
<1>10. DownInv'
  <2>1. i < j /\ j <= r + 1 /\ i \in p..(j - 1)
    BY <1>3
  <2> QED BY <1>1, <1>2, <1>6, <1>8, <1>9, <2>1, SameTop DEF DownInv
<1>11. LoopInv'
  BY <1>1, <1>10 DEF LoopInv
<1>12. lo' \in Int /\ hi' \in Int /\ edge' \in Int /\ pivot' \in Int
  BY <1>1, <1>2, <1>3
<1> QED BY <1>1, <1>5, <1>11, <1>12, AtUp, Continued

LEMMA HoareSplitKept ==
  ASSUME IndInv, HoareSplit, given' = given, prog' = prog
  PROVE  IndInv'
<1>1. /\ at = "up" /\ ls[lo + 1] >= pivot /\ lo + 1 >= hi /\ ls' = ls
      /\ Leaves(<<Sort(hi + 1, Top.r), Sort(Top.p, hi)>>)
  BY DEF HoareSplit
<1>2. PICK p \in Int, r \in Int, j \in Int : p = Top.p /\ r = Top.r /\ j = hi
  BY <1>1, AtUp
<1>3. /\ pivot \in Int /\ \A k \in p..r : ls[k] \in Int
      /\ j \in p..r /\ j <= lo + 1 /\ lo \in Int /\ ls[j] <= pivot
      /\ \A k \in p..lo : ls[k] <= pivot
      /\ \A k \in (j + 1)..r : ls[k] >= pivot
  BY <1>1, <1>2, AtUp DEF HoareInv, UpInv
<1>4. \A x, y \in p..r : x < y /\ x < j + 1 /\ j < y => ls[x] <= ls[y]
  <2> SUFFICES ASSUME NEW x \in p..r, NEW y \in p..r, x < j + 1, j < y PROVE ls[x] <= ls[y]
    OBVIOUS
  <2>1. y \in (j + 1)..r
    BY <1>3
  <2>2. x = j \/ x \in p..lo
    BY <1>3
  <2>3. ls[x] <= pivot
    BY <1>3, <2>2
  <2> QED BY <1>3, <2>1, <2>3
<1>5. p <= j + 1 /\ j < j + 1 /\ j + 1 <= r + 1 /\ j + 1 \in Int
  BY <1>3
<1>6. /\ calls # <<>> /\ prog \in {"hoare", "simple", "equal"} /\ prog # "heap"
      /\ Leaves(<<Sort(j + 1, Top.r), Sort(Top.p, j)>>)
      /\ Top.p <= j + 1 /\ j + 1 <= Top.r + 1
      /\ \A x, y \in Top.p..Top.r : x < y /\ x < j + 1 /\ j < y => ls'[x] <= ls'[y]
  BY <1>1, <1>2, <1>4, <1>5, AtUp
<1>7. ls' \in [Cells -> Int] /\ Rearranged(ls', given, Cells) /\ InOrder(ls', calls)
  BY <1>1, <1>6, Unmoved
<1> QED BY <1>5, <1>6, <1>7, LeftInTwo

-----------------------------------------------------------------------------
(* partition and partition_eq.                                              *)

\* A quicksort in a loop.
LEMMA AtLoop ==
  ASSUME IndInv, at \in {"scan", "gather", "move"}
  PROVE  /\ Typed /\ calls # <<>> /\ N \in Nat
         /\ Top.p \in Int /\ Top.r \in Int /\ \A k \in Top.p..Top.r : k \in Cells /\ k \in Int /\ ls[k] \in Int
         /\ ls \in [Cells -> Int] /\ lo \in Int /\ hi \in Int /\ pivot \in Int /\ edge \in Int
         /\ prog \in {"simple", "equal"} /\ Top.f = "sort"
<1>1. Typed /\ calls # <<>> /\ prog \in {"simple", "equal"}
  BY DEF IndInv, LoopInv, Typed, ScanInv, GatherInv, MoveInv
<1>2. /\ Top.p \in Int /\ Top.r \in Int /\ \A k \in Top.p..Top.r : k \in Cells /\ k \in Int
      /\ N \in Nat
  BY <1>1, OnTop
<1>3. ls \in [Cells -> Int] /\ lo \in Int /\ hi \in Int /\ pivot \in Int /\ edge \in Int
  BY <1>1 DEF Typed, ListOK
<1>4. \A k \in Top.p..Top.r : ls[k] \in Int
  BY <1>2, <1>3
<1>5. Top.f = "sort"
  BY <1>1, OnTop DEF Typed, Top
<1> QED BY <1>1, <1>2, <1>3, <1>4, <1>5

\* Two of its elements are exchanged.
LEMMA SwappedPart ==
  ASSUME IndInv, at \in {"scan", "gather", "move"},
         NEW p \in Int, NEW r \in Int, p = Top.p, r = Top.r,
         NEW i \in p..r, NEW j \in p..r, Swaps(i, j)
  PROVE  /\ ls' \in [Cells -> Int] /\ Rearranged(ls', given, Cells) /\ InOrder(ls', calls)
         /\ \A k \in p..r : ls'[k] = IF k = i THEN ls[j] ELSE IF k = j THEN ls[i] ELSE ls[k]
<1>1. /\ i \in Top.p..Top.r /\ j \in Top.p..Top.r /\ at \notin {"merge", "shift"} /\ calls # <<>>
      /\ Top.f = "sort" /\ prog # "heap" /\ \A k \in p..r : k \in Cells
  BY AtLoop
<1> QED BY <1>1, Swapped

LEMMA PartitionKept ==
  ASSUME IndInv, Partition \/ PartitionEq, given' = given, prog' = prog
  PROVE  IndInv'
<1>1. /\ calls # <<>> /\ at = "call" /\ prog \in {"simple", "equal"} /\ Top.p < Top.r
      /\ calls' = calls /\ ls' = ls
      /\ lo' = Top.p - 1 /\ hi' = Top.p /\ pivot' = ls[Top.r]
      /\ \/ prog = "simple" /\ at' = "scan" /\ edge' = 0
         \/ prog = "equal" /\ at' = "gather" /\ edge' = Top.r
  BY DEF Partition, PartitionEq, Calls, Loops, Locals
<1>2. /\ Top.p \in Int /\ Top.r \in Int /\ \A k \in Top.p..Top.r : k \in Cells /\ k \in Int
  BY <1>1, OnTop DEF IndInv
<1>3. ls \in [Cells -> Int]
  BY DEF IndInv, Typed, ListOK
<1>4. PICK p \in Int, r \in Int : p = Top.p /\ r = Top.r
  BY <1>2
<1>5. p < r /\ r \in Cells /\ ls[r] \in Int
  <2>1. p < r /\ r \in p..r
    BY <1>1, <1>4
  <2> QED BY <1>2, <1>3, <1>4, <2>1
<1>6. /\ p - 1 <= p - 1 /\ p - 1 < p /\ p <= r
      /\ \A k \in p..(p - 1) : FALSE
      /\ \A k \in (p - 1 + 1)..(p - 1) : FALSE
      /\ \A k \in r..r : k = r
  BY <1>5
<1>7. ASSUME prog = "simple" PROVE ScanInv'
  BY <1>1, <1>4, <1>5, <1>6, <1>7, SameTop DEF ScanInv
<1>8. ASSUME prog = "equal" PROVE GatherInv'
  BY <1>1, <1>4, <1>5, <1>6, <1>8, SameTop DEF GatherInv
<1>9. LoopInv'
  BY <1>1, <1>7, <1>8 DEF LoopInv
<1>10. lo' \in Int /\ hi' \in Int /\ edge' \in Int /\ pivot' \in Int /\ prog # "heap"
       /\ at' \in {"scan", "gather"}
  BY <1>1, <1>4, <1>5
<1> QED BY <1>1, <1>9, <1>10, Unmoved, Continued

LEMMA ScanKept ==
  ASSUME IndInv, Scan, given' = given, prog' = prog
  PROVE  IndInv'
<1>1. /\ at = "scan" /\ hi < Top.r /\ calls' = calls /\ at' = "scan" /\ hi' = hi + 1 /\ edge' = 0
      /\ pivot' = pivot
      /\ \/ ls[hi] <= pivot /\ Swaps(hi, lo + 1) /\ lo' = lo + 1
         \/ ~(ls[hi] <= pivot) /\ ls' = ls /\ lo' = lo
  BY DEF Scan, Loops, Locals
<1>2. PICK p \in Int, r \in Int, i \in Int, j \in Int : p = Top.p /\ r = Top.r /\ i = lo + 1 /\ j = hi
  BY <1>1, AtLoop
<1>3. ScanInv
  BY <1>1 DEF IndInv, LoopInv
<1>4. /\ pivot \in Int /\ \A k \in p..r : k \in Int /\ ls[k] \in Int
      /\ p <= i /\ i <= j /\ j < r /\ ls[r] = pivot /\ prog = "simple"
      /\ \A k \in p..(i - 1) : ls[k] <= pivot
      /\ \A k \in i..(j - 1) : ls[k] > pivot
  <2>1. lo = i - 1 /\ lo + 1 = i
    BY <1>1, <1>2, AtLoop
  <2> QED BY <1>1, <1>2, <1>3, <2>1, AtLoop DEF ScanInv
<1>5. i \in p..r /\ j \in p..r
  BY <1>4
<1>6. CASE ls[j] <= pivot
  <2>1. Swaps(j, i) /\ lo' = i
    BY <1>1, <1>2, <1>6
  <2>2. /\ ls' \in [Cells -> Int] /\ Rearranged(ls', given, Cells) /\ InOrder(ls', calls)
        /\ \A k \in p..r : ls'[k] = IF k = j THEN ls[i] ELSE IF k = i THEN ls[j] ELSE ls[k]
    BY <1>1, <1>2, <1>5, <2>1, SwappedPart
  <2>3. ls'[r] = pivot
    <3>1. r \in p..r /\ r # j /\ r # i
      BY <1>4
    <3> QED BY <1>4, <2>2, <3>1
  <2>4. \A k \in p..i : ls'[k] <= pivot
    <3> SUFFICES ASSUME NEW k \in p..i PROVE ls'[k] <= pivot
      OBVIOUS
    <3>1. k \in p..r /\ (k = i \/ (k \in p..(i - 1) /\ k # i /\ k # j))
      BY <1>4
    <3>2. CASE k = i
      BY <1>4, <1>5, <1>6, <2>2, <3>2
    <3>3. CASE k \in p..(i - 1) /\ k # i /\ k # j
      BY <1>4, <2>2, <3>1, <3>3
    <3> QED BY <3>1, <3>2, <3>3
  <2>5. \A k \in (i + 1)..(j + 1 - 1) : ls'[k] > pivot
    <3> SUFFICES ASSUME NEW k \in (i + 1)..(j + 1 - 1) PROVE ls'[k] > pivot
      OBVIOUS
    <3>1. k \in p..r /\ k # i /\ ((k = j /\ i \in i..(j - 1)) \/ (k \in i..(j - 1) /\ k # j))
      BY <1>4
    <3>2. CASE k = j
      BY <1>4, <2>2, <3>1, <3>2
    <3>3. CASE k # j
      BY <1>4, <2>2, <3>1, <3>3
    <3> QED BY <3>2, <3>3
  <2>6. p - 1 <= i /\ i < j + 1 /\ j + 1 <= r
    BY <1>4
  <2>7. ScanInv'
    BY <1>1, <1>2, <1>4, <2>1, <2>3, <2>4, <2>5, <2>6, SameTop DEF ScanInv
  <2>8. LoopInv'
    BY <1>1, <2>7 DEF LoopInv
  <2> QED BY <1>1, <1>2, <1>4, <2>1, <2>2, <2>8, AtLoop, Continued
<1>7. CASE ~(ls[j] <= pivot)
  <2>1. ls' = ls /\ lo' = lo
    BY <1>1, <1>2, <1>7
  <2>2. \A k \in i..(j + 1 - 1) : ls[k] > pivot
    <3> SUFFICES ASSUME NEW k \in i..(j + 1 - 1) PROVE ls[k] > pivot
      OBVIOUS
    <3>1. k = j \/ k \in i..(j - 1)
      BY <1>4
    <3> QED BY <1>4, <1>5, <1>7, <3>1
  <2>3. p - 1 <= lo /\ lo < j + 1 /\ j + 1 <= r /\ lo = i - 1 /\ lo + 1 = i
    BY <1>1, <1>2, <1>4, AtLoop
  <2>4. ScanInv'
    BY <1>1, <1>2, <1>4, <2>1, <2>2, <2>3, SameTop DEF ScanInv
  <2>5. LoopInv'
    BY <1>1, <2>4 DEF LoopInv
  <2>6. lo' \in Int /\ hi' \in Int /\ edge' \in Int /\ pivot' \in Int
    BY <1>1, <2>1, AtLoop
  <2> QED BY <1>1, <1>4, <2>1, <2>5, <2>6, AtLoop, Unmoved, Continued
<1> QED BY <1>6, <1>7

LEMMA SplitKept ==
  ASSUME IndInv, Split, given' = given, prog' = prog
  PROVE  IndInv'
<1>1. /\ at = "scan" /\ hi = Top.r /\ Swaps(Top.r, lo + 1)
      /\ Leaves(<<Sort(lo + 2, Top.r), Sort(Top.p, lo)>>)
  BY DEF Split
<1>2. PICK p \in Int, r \in Int, i \in Int : p = Top.p /\ r = Top.r /\ i = lo + 1
  BY <1>1, AtLoop
<1>3. ScanInv
  BY <1>1 DEF IndInv, LoopInv
<1>4. /\ pivot \in Int /\ \A k \in p..r : k \in Int /\ ls[k] \in Int
      /\ p <= i /\ i <= r /\ ls[r] = pivot /\ prog = "simple"
      /\ \A k \in p..(i - 1) : ls[k] <= pivot
      /\ \A k \in i..(r - 1) : ls[k] > pivot
      /\ lo = i - 1 /\ lo + 2 = i + 1
  <2>1. lo = i - 1 /\ lo + 1 = i /\ lo + 2 = i + 1
    BY SMTT(30), <1>1, <1>2, AtLoop
  <2> QED BY SMTT(30), <1>1, <1>2, <1>3, <2>1, AtLoop DEF ScanInv
<1>5. i \in p..r /\ r \in p..r
  BY <1>4
<1>6. /\ ls' \in [Cells -> Int] /\ Rearranged(ls', given, Cells) /\ InOrder(ls', calls)
      /\ \A k \in p..r : ls'[k] = IF k = r THEN ls[i] ELSE IF k = i THEN ls[r] ELSE ls[k]
  <2>1. Swaps(r, i)
    BY <1>1, <1>2
  <2> QED BY <1>1, <1>2, <1>5, <2>1, SwappedPart
<1>7. ls'[i] = pivot
  BY <1>4, <1>5, <1>6
<1>8. \A k \in p..i : ls'[k] <= pivot
  <2> SUFFICES ASSUME NEW k \in p..i, k # i PROVE ls'[k] <= pivot
    BY <1>4, <1>7
  <2>1. k \in p..r /\ k # r /\ k \in p..(i - 1)
    BY <1>4
  <2> QED BY <1>4, <1>6, <2>1
<1>9. \A k \in i..r : ls'[k] >= pivot
  <2> SUFFICES ASSUME NEW k \in i..r, k # i PROVE ls'[k] >= pivot
    BY <1>4, <1>7
  <2>1. k \in p..r /\ ((k = r /\ i \in i..(r - 1)) \/ (k # r /\ k \in i..(r - 1)))
    BY <1>4
  <2>2. CASE k = r
    BY <1>4, <1>5, <1>6, <2>1, <2>2
  <2>3. CASE k # r
    BY <1>4, <1>6, <2>1, <2>3
  <2> QED BY <2>2, <2>3
<1>10. \A x, y \in p..r : x < y /\ x < lo + 2 /\ lo < y => ls'[x] <= ls'[y]
  <2> SUFFICES ASSUME NEW x \in p..r, NEW y \in p..r, x < lo + 2, lo < y PROVE ls'[x] <= ls'[y]
    OBVIOUS
  <2>1. x \in p..i /\ y \in i..r
    BY <1>4
  <2>2. ls'[x] \in Int /\ ls'[y] \in Int
    BY <1>4, <1>5, <1>6
  <2> QED BY <1>4, <1>8, <1>9, <2>1, <2>2
<1>11. lo \in Int /\ lo + 2 \in Int /\ p <= lo + 1 /\ lo < lo + 2 /\ lo + 2 <= r + 1
  BY <1>4
<1>12. /\ calls # <<>> /\ prog \in {"hoare", "simple", "equal"}
       /\ Top.p <= lo + 1 /\ lo + 2 <= Top.r + 1
       /\ \A x, y \in Top.p..Top.r : x < y /\ x < lo + 2 /\ lo < y => ls'[x] <= ls'[y]
  BY <1>1, <1>2, <1>4, <1>10, <1>11, AtLoop
<1> QED BY <1>1, <1>6, <1>11, <1>12, LeftInTwo
-----------------------------------------------------------------------------
LEMMA GatherKept ==
  ASSUME IndInv, Gather, given' = given, prog' = prog
  PROVE  IndInv'
<1>1. /\ at = "gather" /\ hi < edge /\ calls' = calls /\ at' = "gather" /\ pivot' = pivot
      /\ \/ /\ ls[hi] < pivot /\ Swaps(hi, lo + 1)
            /\ lo' = lo + 1 /\ hi' = hi + 1 /\ edge' = edge
         \/ /\ ls[hi] = pivot /\ Swaps(edge - 1, hi)
            /\ lo' = lo /\ hi' = hi /\ edge' = edge - 1
         \/ /\ ls[hi] > pivot /\ ls' = ls
            /\ lo' = lo /\ hi' = hi + 1 /\ edge' = edge
  BY DEF Gather, Loops, Locals
<1>2. PICK p \in Int, r \in Int, i \in Int, j \in Int, l \in Int :
        p = Top.p /\ r = Top.r /\ i = lo + 1 /\ j = hi /\ l = edge
  BY <1>1, AtLoop
<1>3. GatherInv
  BY <1>1 DEF IndInv, LoopInv
<1>4. /\ pivot \in Int /\ \A k \in p..r : k \in Int /\ ls[k] \in Int
      /\ p <= i /\ i <= j /\ j < l /\ l <= r /\ prog = "equal"
      /\ \A k \in p..(i - 1) : ls[k] < pivot
      /\ \A k \in i..(j - 1) : ls[k] > pivot
      /\ \A k \in l..r : ls[k] = pivot
      /\ lo = i - 1 /\ lo + 1 = i
  <2>1. lo = i - 1 /\ lo + 1 = i
    BY <1>1, <1>2, AtLoop
  <2> QED BY <1>1, <1>2, <1>3, <2>1, AtLoop DEF GatherInv
<1>5. i \in p..r /\ j \in p..r /\ l - 1 \in p..r
  BY <1>4
<1>6. CASE ls[j] < pivot
  <2>1. Swaps(j, i) /\ lo' = i /\ hi' = j + 1 /\ edge' = l
    BY <1>1, <1>2, <1>4, <1>6
  <2>2. /\ ls' \in [Cells -> Int] /\ Rearranged(ls', given, Cells) /\ InOrder(ls', calls)
        /\ \A k \in p..r : ls'[k] = IF k = j THEN ls[i] ELSE IF k = i THEN ls[j] ELSE ls[k]
    BY <1>1, <1>2, <1>5, <2>1, SwappedPart
  <2>3. \A k \in l..r : ls'[k] = pivot
    <3> SUFFICES ASSUME NEW k \in l..r PROVE ls'[k] = pivot
      OBVIOUS
    <3>1. k \in p..r /\ k # j /\ k # i
      BY <1>4
    <3> QED BY <1>4, <2>2, <3>1
  <2>4. \A k \in p..i : ls'[k] < pivot
    <3> SUFFICES ASSUME NEW k \in p..i PROVE ls'[k] < pivot
      OBVIOUS
    <3>1. k \in p..r /\ (k = i \/ (k \in p..(i - 1) /\ k # i /\ k # j))
      BY <1>4
    <3>2. CASE k = i
      BY <1>4, <1>5, <1>6, <2>2, <3>2
    <3>3. CASE k \in p..(i - 1) /\ k # i /\ k # j
      BY <1>4, <2>2, <3>1, <3>3
    <3> QED BY <3>1, <3>2, <3>3
  <2>5. \A k \in (i + 1)..(j + 1 - 1) : ls'[k] > pivot
    <3> SUFFICES ASSUME NEW k \in (i + 1)..(j + 1 - 1) PROVE ls'[k] > pivot
      OBVIOUS
    <3>1. k \in p..r /\ k # i /\ ((k = j /\ i \in i..(j - 1)) \/ (k \in i..(j - 1) /\ k # j))
      BY <1>4
    <3>2. CASE k = j
      BY <1>4, <2>2, <3>1, <3>2
    <3>3. CASE k # j
      BY <1>4, <2>2, <3>1, <3>3
    <3> QED BY <3>2, <3>3
  <2>6. p - 1 <= i /\ i < j + 1 /\ j + 1 <= l
    BY <1>4
  <2>7. GatherInv'
    BY <1>1, <1>2, <1>4, <2>1, <2>3, <2>4, <2>5, <2>6, SameTop DEF GatherInv
  <2>8. LoopInv'
    BY <1>1, <2>7 DEF LoopInv
  <2> QED BY <1>1, <1>2, <1>4, <2>1, <2>2, <2>8, AtLoop, Continued
<1>7. CASE ls[j] = pivot
  <2>1. Swaps(l - 1, j) /\ lo' = lo /\ hi' = j /\ edge' = l - 1
    BY <1>1, <1>2, <1>4, <1>7
  <2>2. /\ ls' \in [Cells -> Int] /\ Rearranged(ls', given, Cells) /\ InOrder(ls', calls)
        /\ \A k \in p..r : ls'[k] = IF k = l - 1 THEN ls[j] ELSE IF k = j THEN ls[l - 1] ELSE ls[k]
    BY <1>1, <1>2, <1>5, <2>1, SwappedPart
  <2>3. \A k \in (l - 1)..r : ls'[k] = pivot
    <3> SUFFICES ASSUME NEW k \in (l - 1)..r PROVE ls'[k] = pivot
      OBVIOUS
    <3>1. k \in p..r /\ (k = l - 1 \/ (k \in l..r /\ k # l - 1 /\ k # j))
      BY <1>4
    <3> QED BY <1>4, <1>7, <2>2, <3>1
  <2>4. \A k \in p..(i - 1) : ls'[k] < pivot
    <3> SUFFICES ASSUME NEW k \in p..(i - 1) PROVE ls'[k] < pivot
      OBVIOUS
    <3>1. k \in p..r /\ k # l - 1 /\ k # j
      BY <1>4
    <3> QED BY <1>4, <2>2, <3>1
  <2>5. \A k \in i..(j - 1) : ls'[k] > pivot
    <3> SUFFICES ASSUME NEW k \in i..(j - 1) PROVE ls'[k] > pivot
      OBVIOUS
    <3>1. k \in p..r /\ k # l - 1 /\ k # j
      BY <1>4
    <3> QED BY <1>4, <2>2, <3>1
  <2>6. p - 1 <= lo /\ lo < j /\ j <= l - 1 /\ l - 1 <= r
    BY <1>4
  <2>7. GatherInv'
    BY <1>1, <1>2, <1>4, <2>1, <2>3, <2>4, <2>5, <2>6, SameTop DEF GatherInv
  <2>8. LoopInv'
    BY <1>1, <2>7 DEF LoopInv
  <2> QED BY <1>1, <1>2, <1>4, <2>1, <2>2, <2>8, AtLoop, Continued
<1>8. CASE ls[j] > pivot
  <2>1. ls' = ls /\ lo' = lo /\ hi' = j + 1 /\ edge' = l
    BY <1>1, <1>2, <1>4, <1>5, <1>8
  <2>2. \A k \in i..(j + 1 - 1) : ls[k] > pivot
    <3> SUFFICES ASSUME NEW k \in i..(j + 1 - 1) PROVE ls[k] > pivot
      OBVIOUS
    <3>1. k = j \/ k \in i..(j - 1)
      BY <1>4
    <3> QED BY <1>4, <1>5, <1>8, <3>1
  <2>3. p - 1 <= lo /\ lo < j + 1 /\ j + 1 <= l
    BY <1>4
  <2>4. GatherInv'
    BY <1>1, <1>2, <1>4, <2>1, <2>2, <2>3, SameTop DEF GatherInv
  <2>5. LoopInv'
    BY <1>1, <2>4 DEF LoopInv
  <2>6. lo' \in Int /\ hi' \in Int /\ edge' \in Int /\ pivot' \in Int
    BY <1>1, <1>2, <2>1, AtLoop
  <2> QED BY <1>1, <1>4, <2>1, <2>5, <2>6, AtLoop, Unmoved, Continued
<1> QED BY <1>1, <1>2, <1>6, <1>7, <1>8

LEMMA GatheredKept ==
  ASSUME IndInv, Gathered, given' = given, prog' = prog
  PROVE  IndInv'
<1>1. /\ at = "gather" /\ hi >= edge /\ calls' = calls /\ ls' = ls /\ at' = "move"
      /\ lo' = lo /\ hi' = lo + 1 /\ edge' = edge /\ pivot' = pivot
  BY DEF Gathered, Loops, Locals
<1>2. PICK p \in Int, r \in Int : p = Top.p /\ r = Top.r
  BY <1>1, AtLoop
<1>3. GatherInv
  BY <1>1 DEF IndInv, LoopInv
<1>4. /\ lo \in Int /\ hi \in Int /\ edge \in Int /\ pivot \in Int
      /\ p - 1 <= lo /\ lo < hi /\ hi = edge /\ edge <= r
      /\ \A k \in p..lo : ls[k] < pivot
      /\ \A k \in (lo + 1)..(edge - 1) : ls[k] > pivot
      /\ \A k \in edge..r : ls[k] = pivot
  <2>1. hi = edge
    BY <1>1, <1>3, AtLoop DEF GatherInv
  <2> QED BY <1>1, <1>2, <1>3, <2>1, AtLoop DEF GatherInv
<1>5. lo < lo + 1 /\ lo + 1 <= edge /\ edge <= r + 1 /\ \A k \in (lo + 1)..(lo + 1 - 1) : FALSE
  BY <1>4
<1>6. MoveInv'
  BY <1>1, <1>2, <1>3, <1>4, <1>5, SameTop DEF MoveInv, GatherInv
<1>7. LoopInv'
  BY <1>1, <1>6 DEF LoopInv
<1>8. lo' \in Int /\ hi' \in Int /\ edge' \in Int /\ pivot' \in Int /\ prog # "heap"
  BY <1>1, <1>4, AtLoop
<1> QED BY <1>1, <1>7, <1>8, AtLoop, Unmoved, Continued

LEMMA MoveKept ==
  ASSUME IndInv, Move, given' = given, prog' = prog
  PROVE  IndInv'
<1>1. /\ at = "move" /\ edge <= Top.r /\ calls' = calls /\ at' = "move" /\ Swaps(hi, edge)
      /\ lo' = lo /\ hi' = hi + 1 /\ edge' = edge + 1 /\ pivot' = pivot
  BY DEF Move, Loops, Locals
<1>2. PICK p \in Int, r \in Int, i \in Int, j \in Int, l \in Int :
        p = Top.p /\ r = Top.r /\ i = lo + 1 /\ j = hi /\ l = edge
  <2>1. Top.p \in Int /\ Top.r \in Int /\ lo + 1 \in Int /\ hi \in Int /\ edge \in Int
    BY <1>1, AtLoop
  <2> QED BY <2>1
<1>3. MoveInv
  BY <1>1 DEF IndInv, LoopInv
<1>4. /\ pivot \in Int /\ \A k \in p..r : k \in Int /\ ls[k] \in Int
      /\ p <= i /\ i <= j /\ j <= l /\ l <= r /\ prog = "equal"
      /\ \A k \in p..(i - 1) : ls[k] < pivot
      /\ \A k \in i..(j - 1) : ls[k] = pivot
      /\ \A k \in j..(l - 1) : ls[k] > pivot
      /\ \A k \in l..r : ls[k] = pivot
      /\ lo = i - 1 /\ lo + 1 = i
  <2>1. lo = i - 1 /\ lo + 1 = i
    BY <1>1, <1>2, AtLoop
  <2> QED BY <1>1, <1>2, <1>3, <2>1, AtLoop DEF MoveInv
<1>5. j \in p..r /\ l \in p..r
  BY <1>4
<1>6. /\ ls' \in [Cells -> Int] /\ Rearranged(ls', given, Cells) /\ InOrder(ls', calls)
      /\ \A k \in p..r : ls'[k] = IF k = j THEN ls[l] ELSE IF k = l THEN ls[j] ELSE ls[k]
  <2>1. Swaps(j, l)
    BY <1>1, <1>2
  <2> QED BY <1>1, <1>2, <1>5, <2>1, SwappedPart
<1>7. \A k \in p..(i - 1) : ls'[k] < pivot
  <2> SUFFICES ASSUME NEW k \in p..(i - 1) PROVE ls'[k] < pivot
    OBVIOUS
  <2>1. k \in p..r /\ k # l /\ k # j
    BY <1>4
  <2> QED BY <1>4, <1>6, <2>1
<1>8. \A k \in i..(j + 1 - 1) : ls'[k] = pivot
  <2> SUFFICES ASSUME NEW k \in i..(j + 1 - 1) PROVE ls'[k] = pivot
    OBVIOUS
  <2>1. k \in p..r /\ l \in l..r /\ (k = j \/ (k # j /\ k # l /\ k \in i..(j - 1)))
    BY <1>4
  <2> QED BY <1>4, <1>6, <2>1
<1>9. \A k \in (j + 1)..(l + 1 - 1) : ls'[k] > pivot
  <2> SUFFICES ASSUME NEW k \in (j + 1)..(l + 1 - 1) PROVE ls'[k] > pivot
    OBVIOUS
  <2>1. k \in p..r /\ k # j /\ ((k = l /\ j \in j..(l - 1)) \/ (k # l /\ k \in j..(l - 1)))
    BY <1>4
  <2>2. CASE k = l
    BY <1>4, <1>6, <2>1, <2>2
  <2>3. CASE k # l
    BY <1>4, <1>6, <2>1, <2>3
  <2> QED BY <2>2, <2>3
<1>10. \A k \in (l + 1)..r : ls'[k] = pivot
  <2> SUFFICES ASSUME NEW k \in (l + 1)..r PROVE ls'[k] = pivot
    OBVIOUS
  <2>1. k \in p..r /\ k # l /\ k # j /\ k \in l..r
    BY <1>4
  <2> QED BY <1>4, <1>6, <2>1
<1>11. p - 1 <= lo /\ lo < j + 1 /\ j + 1 <= l + 1 /\ l + 1 <= r + 1
  BY <1>4
<1>12. MoveInv'
  BY <1>1, <1>2, <1>4, <1>7, <1>8, <1>9, <1>10, <1>11, SameTop DEF MoveInv
<1>13. LoopInv'
  BY <1>1, <1>12 DEF LoopInv
<1>14. lo' \in Int /\ hi' \in Int /\ edge' \in Int /\ pivot' \in Int /\ prog # "heap"
  BY <1>1, <1>4, AtLoop
<1> QED BY <1>1, <1>6, <1>13, <1>14, AtLoop, Continued

LEMMA SplitEqKept ==
  ASSUME IndInv, SplitEq, given' = given, prog' = prog
  PROVE  IndInv'
<1>1. /\ at = "move" /\ edge > Top.r /\ ls' = ls
      /\ Leaves(<<Sort(hi, Top.r), Sort(Top.p, lo)>>)
  BY DEF SplitEq
<1>2. PICK p \in Int, r \in Int : p = Top.p /\ r = Top.r
  BY <1>1, AtLoop
<1>3. MoveInv
  BY <1>1 DEF IndInv, LoopInv
<1>4. /\ pivot \in Int /\ \A k \in p..r : k \in Int /\ ls[k] \in Int
      /\ lo \in Int /\ hi \in Int
      /\ p - 1 <= lo /\ lo < hi /\ hi <= r + 1
      /\ \A k \in p..lo : ls[k] < pivot
      /\ \A k \in (lo + 1)..(hi - 1) : ls[k] = pivot
      /\ \A k \in hi..r : ls[k] > pivot
  <2>1. edge = r + 1 /\ edge - 1 = r
    BY <1>1, <1>2, <1>3, AtLoop DEF MoveInv
  <2> QED BY <1>1, <1>2, <1>3, <2>1, AtLoop DEF MoveInv
<1>5. \A x, y \in p..r : x < y /\ x < hi /\ lo < y => ls[x] <= ls[y]
  <2> SUFFICES ASSUME NEW x \in p..r, NEW y \in p..r, x < hi, lo < y PROVE ls[x] <= ls[y]
    OBVIOUS
  <2>1. x \in p..lo \/ x \in (lo + 1)..(hi - 1)
    BY <1>4
  <2>2. y \in hi..r \/ y \in (lo + 1)..(hi - 1)
    BY <1>4
  <2>3. ls[x] <= pivot /\ ls[y] >= pivot
    BY <1>4, <2>1, <2>2
  <2> QED BY <1>4, <2>3
<1>6. /\ calls # <<>> /\ prog \in {"hoare", "simple", "equal"} /\ prog # "heap"
      /\ Top.p <= lo + 1 /\ hi <= Top.r + 1
      /\ \A x, y \in Top.p..Top.r : x < y /\ x < hi /\ lo < y => ls'[x] <= ls'[y]
  <2>1. p <= lo + 1
    BY <1>4
  <2> QED BY <1>1, <1>2, <1>4, <1>5, <2>1, AtLoop
<1>7. ls' \in [Cells -> Int] /\ Rearranged(ls', given, Cells) /\ InOrder(ls', calls)
  BY <1>1, <1>6, Unmoved
<1> QED BY <1>1, <1>4, <1>6, <1>7, LeftInTwo

-----------------------------------------------------------------------------
(* Merge sort.                                                              *)

LEMMA GoesOn ==
  ASSUME IndInv, calls # <<>>, prog # "heap", calls' = calls, given' = given, prog' = prog,
         ls' \in [Cells -> Int], Rearranged(View', given, Cells), InOrder(Before', calls),
         lo' \in Int, hi' \in Int, edge' \in Int, pivot' \in Int,
         at' \in {"merge", "shift"}, LoopInv'
  PROVE  IndInv'
<1>1. Typed'
  BY TypedOn DEF IndInv
<1>2. Kept'
  BY Steady DEF Kept
<1>3. Ordered'
  <2>1. Stacked(calls)
    BY DEF IndInv, Ordered
  <2>2. Stacked(calls)' /\ InOrder(Before, calls)'
    BY <2>1, Steady DEF Stacked, InOrder, Covered, Covers, Mid, Apart
  <2> QED BY <2>2 DEF Ordered
<1>4. HeapInv'
  BY DEF HeapInv
<1> QED BY <1>1, <1>2, <1>3, <1>4 DEF IndInv

\* Each half of what is merged is in order.
LEMMA HalfSorted ==
  ASSUME Typed, calls # <<>>, Top.f = "merge", Stacked(calls), NEW v, InOrder(v, calls),
         NEW x \in Top.p..Top.r, NEW y \in Top.p..Top.r, x < y, y < Mid(Top) \/ Mid(Top) <= x
  PROVE  v[x] <= v[y]
<1>1. /\ x \in Cells /\ y \in Cells /\ x \in Int /\ y \in Int /\ Mid(Top) \in Int
      /\ Top \in Frame /\ Len(calls) \in Nat \ {0} /\ DOMAIN calls = 1..Len(calls)
  BY OnTop
<1>2. SUFFICES ASSUME NEW n \in DOMAIN calls, Covers(calls[n], x, y) PROVE FALSE
  BY <1>1 DEF InOrder, Covered
<1>3. ~Covers(Top, x, y)
  BY <1>1 DEF Covers
<1>4. n # Len(calls)
  BY <1>2, <1>3 DEF Top
<1>5. n < Len(calls) /\ Len(calls) \in DOMAIN calls /\ calls[n] \in Frame
  BY <1>1, <1>4 DEF Typed
<1>6. Apart(Top, calls[n])
  BY <1>5 DEF Stacked, Top
<1>7. PICK c, d : c = Top /\ d = calls[n]
  OBVIOUS
<1>8. c \in Frame /\ d \in Frame /\ Apart(c, d) /\ x \in c.p..c.r /\ y \in c.p..c.r
  BY <1>1, <1>5, <1>6, <1>7
<1>9. ~Covers(d, x, y)
  BY <1>1, <1>8, SameSide
<1> QED BY <1>2, <1>7, <1>9

LEMMA MergeSortKept ==
  ASSUME IndInv, MergeSort, given' = given, prog' = prog
  PROVE  IndInv'
<1>1. /\ calls # <<>> /\ at = "call" /\ prog = "merge" /\ Top.p < Top.r /\ ls' = ls
      /\ Leaves(<<Merge(Top.p, Top.r), Sort(Mid(Top), Top.r), Sort(Top.p, Mid(Top) - 1)>>)
  BY DEF MergeSort, Calls
<1>2. Typed /\ Stacked(calls)
  BY <1>1 DEF IndInv, Ordered
<1>0. PICK t : t = <<Merge(Top.p, Top.r), Sort(Mid(Top), Top.r), Sort(Top.p, Mid(Top) - 1)>>
  OBVIOUS
<1>3. PICK p \in Int, r \in Int, m \in Int :
        /\ p = Top.p /\ r = Top.r /\ m = Mid(Top)
        /\ t = <<Merge(Top.p, Top.r), Sort(Mid(Top), Top.r), Sort(Top.p, Mid(Top) - 1)>>
  BY <1>0, <1>1, <1>2, OnTop
<1>4. /\ 0 <= p /\ r <= N - 1 /\ p < m /\ m <= r /\ N \in Nat /\ m = (p + r + 1) \div 2
  BY <1>1, <1>2, <1>3, OnTop DEF Mid
<1>5. /\ DOMAIN t = {1, 2, 3} /\ t[1] = [f |-> "merge", p |-> p, r |-> r]
      /\ t[2] = [f |-> "sort", p |-> m, r |-> r] /\ t[3] = [f |-> "sort", p |-> p, r |-> m - 1]
  BY <1>3 DEF Sort, Merge
<1>6. t \in Seq(Frame)
  <2>1. Merge(p, r) \in Frame
    BY <1>4 DEF Frame, Merge
  <2>2. Sort(m, r) \in Frame
    BY <1>4 DEF Frame, Sort
  <2>3. Sort(p, m - 1) \in Frame
    BY <1>4 DEF Frame, Sort
  <2> QED BY <1>3, <2>1, <2>2, <2>3
<1>7. Mid(t[1]) = m /\ t[1].f = "merge"
  BY <1>4, <1>5 DEF Mid
<1>8. Stacked(t)
  <2>1. Apart(t[3], t[2])
    BY <1>5 DEF Apart
  <2>2. Apart(t[2], t[1])
    BY <1>4, <1>5, <1>7 DEF Apart
  <2>3. Apart(t[3], t[1])
    BY <1>4, <1>5, <1>7 DEF Apart
  <2> QED BY <1>5, <2>1, <2>2, <2>3 DEF Stacked
<1>9. \A n \in DOMAIN t : Top.p <= t[n].p /\ t[n].r <= Top.r
  <2>1. /\ p <= t[1].p /\ t[1].r <= r
        /\ p <= t[2].p /\ t[2].r <= r
        /\ p <= t[3].p /\ t[3].r <= r
    BY <1>4, <1>5
  <2>2. \A n \in DOMAIN t : n = 1 \/ n = 2 \/ n = 3
    BY <1>5
  <2> QED BY <1>3, <2>1, <2>2
<1>10. \A x, y \in Top.p..Top.r : x < y => ls'[x] <= ls'[y] \/ Covered(t, x, y)
  <2> SUFFICES ASSUME NEW x \in p..r, NEW y \in p..r, x < y PROVE Covered(t, x, y)
    BY <1>3
  <2>1. CASE y < m
    <3>1. Covers(t[3], x, y)
      BY <1>4, <1>5, <2>1 DEF Covers
    <3> QED BY <1>5, <3>1 DEF Covered
  <2>2. CASE m <= x
    <3>1. Covers(t[2], x, y)
      BY <1>4, <1>5, <2>2 DEF Covers
    <3> QED BY <1>5, <3>1 DEF Covered
  <2>3. CASE x < m /\ m <= y
    <3>1. Covers(t[1], x, y)
      BY <1>4, <1>5, <1>7, <2>3 DEF Covers
    <3> QED BY <1>5, <3>1 DEF Covered
  <2> QED BY <2>1, <2>2, <2>3
<1>11. Leaves(t) /\ prog # "heap" /\ (prog # "merge" => \A n \in DOMAIN t : t[n].f = "sort")
       /\ (prog = "insertion" => t = <<>>)
  BY <1>1, <1>3
<1>12. ls' \in [Cells -> Int] /\ Rearranged(ls', given, Cells) /\ InOrder(ls', calls)
  BY <1>1, Unmoved
<1> QED BY <1>1, <1>2, <1>6, <1>8, <1>9, <1>10, <1>11, <1>12, Left

LEMMA MergeBeginsKept ==
  ASSUME IndInv, MergeBegins, given' = given, prog' = prog
  PROVE  IndInv'
<1>1. /\ calls # <<>> /\ at = "call" /\ prog = "merge" /\ Top.f = "merge" /\ ls' = ls /\ calls' = calls
      /\ at' = "merge" /\ lo' = Top.p /\ hi' = Mid(Top) /\ edge' = 0 /\ pivot' = 0 /\ copy' = ls
  BY DEF MergeBegins, Calls, Locals
<1>2. ls \in [Cells -> Int] /\ Rearranged(ls, given, Cells) /\ Stacked(calls) /\ InOrder(ls, calls)
  BY <1>1 DEF IndInv, Typed, Kept, Ordered, View, Before, ListOK
<1>3. PICK p \in Int, r \in Int, m \in Int : p = Top.p /\ r = Top.r /\ m = Mid(Top)
  BY <1>1, OnTop DEF IndInv
<1>4. p < m /\ m <= r /\ (p + (m - m)) - 1 = p - 1
  BY <1>1, <1>3, OnTop DEF IndInv
<1>5. Rearranged(View', given, Cells)
  <2>1. View' = [k \in Cells |-> Unmerged(k)']
    BY <1>1, Steady DEF View
  <2>2. ASSUME NEW k \in Cells PROVE View'[k] = ls[k]
    <3>1. Unmerged(k)' = IF k \notin p..r THEN ls[k]
                         ELSE IF k < p + (m - m) THEN ls[k]
                         ELSE IF k < m THEN ls[k - (m - m)] ELSE ls[k]
      BY <1>1, <1>3, SameTop DEF Unmerged
    <3>2. k \in Int
      BY DEF Cells
    <3>3. k - (m - m) = k
      BY <3>2
    <3> QED BY <2>1, <3>1, <3>3
  <2> QED BY <1>2, <2>2, EqualLists
<1>6. MergeInv'
  <2>1. (ListOK(copy))'
    BY <1>1, <1>2, Steady DEF ListOK
  <2>2. \A k \in p..(p + (m - m) - 1) : FALSE
    BY <1>4
  <2>3. p <= p /\ p <= m /\ m <= m /\ m <= r + 1
    BY <1>4
  <2> QED BY <1>1, <1>3, <2>1, <2>2, <2>3, SameTop, Steady DEF MergeInv
<1>7. LoopInv'
  BY <1>1, <1>6 DEF LoopInv
<1>8. /\ InOrder(Before', calls) /\ lo' \in Int /\ hi' \in Int /\ edge' \in Int /\ pivot' \in Int
      /\ ls' \in [Cells -> Int] /\ prog # "heap"
  BY <1>1, <1>2, <1>3 DEF Before
<1> QED BY <1>1, <1>5, <1>7, <1>8, GoesOn

\* Merging, with constants p, r, m, i, j and c for Top.p, Top.r, Mid(Top), lo, hi, copy.
Merging(p, r, m, i, j, c) ==
  /\ p = Top.p /\ r = Top.r /\ m = Mid(Top) /\ i = lo /\ j = hi /\ c = copy
  /\ 0 <= p /\ p < m /\ m <= r /\ r <= N - 1
  /\ c \in [Cells -> Int] /\ ls \in [Cells -> Int]
  /\ p <= i /\ i <= m /\ m <= j /\ j <= r + 1
  /\ \A k \in Cells \ (p..r) : ls[k] = c[k]
  /\ \A k \in p..(i + (j - m) - 1) : \E l \in p..r : ls[k] = c[l]
  /\ \A k, l \in p..(i + (j - m) - 1) : k < l => ls[k] <= ls[l]
  /\ \A k \in p..(i + (j - m) - 1) : (\A l \in i..(m - 1) : ls[k] <= c[l]) /\ (\A l \in j..r : ls[k] <= c[l])
  /\ \A k \in p..r : k \in Cells /\ k \in Int
  /\ \A k, l \in p..r : k < l /\ (l < m \/ m <= k) => c[k] <= c[l]

LEMMA AtMerge ==
  ASSUME IndInv, at = "merge"
  PROVE  /\ Typed /\ calls # <<>> /\ prog = "merge" /\ N \in Nat /\ edge \in Int /\ pivot \in Int
         /\ Stacked(calls) /\ InOrder(copy, calls) /\ Rearranged(View, given, Cells) /\ Top.f = "merge"
         /\ \E p \in Int, r \in Int, m \in Int, i \in Int, j \in Int, c \in [Cells -> Int] :
              Merging(p, r, m, i, j, c)
<1>1. /\ Typed /\ calls # <<>> /\ prog = "merge" /\ N \in Nat /\ edge \in Int /\ pivot \in Int
      /\ Stacked(calls) /\ InOrder(copy, calls) /\ Rearranged(View, given, Cells) /\ Top.f = "merge"
      /\ MergeInv /\ lo \in Int /\ hi \in Int /\ ls \in [Cells -> Int] /\ copy \in [Cells -> Int]
  BY DEF IndInv, Typed, Ordered, Kept, Before, LoopInv, MergeInv, ListOK
<1>2. /\ Top.p \in Int /\ Top.r \in Int /\ Mid(Top) \in Int /\ Top.p < Mid(Top) /\ Mid(Top) <= Top.r
      /\ 0 <= Top.p /\ Top.r <= N - 1 /\ \A k \in Top.p..Top.r : k \in Cells /\ k \in Int
  BY <1>1, OnTop
<1>3. \A k, l \in Top.p..Top.r : k < l /\ (l < Mid(Top) \/ Mid(Top) <= k) => copy[k] <= copy[l]
  BY <1>1, HalfSorted
<1>4. Merging(Top.p, Top.r, Mid(Top), lo, hi, copy)
  BY <1>1, <1>2, <1>3 DEF Merging, MergeInv
<1> QED BY <1>1, <1>2, <1>4

\* None of those left is smaller.
LeastLeft(z, r, m, i, j, c) == (\A l \in i..(m - 1) : c[z] <= c[l]) /\ (\A l \in j..r : c[z] <= c[l])

MergedTo(q, z, p, r, c) == /\ MergeInv' /\ ls' \in [Cells -> Int] /\ q \in p..r
                           /\ \A k \in Cells : ls'[k] = IF k = q THEN c[z] ELSE ls[k]

\* One more is in place: it is one of those left, and none left is smaller.
TakesOne(q, z, i2, j2, p, r, m, i, j, c) ==
  /\ Merging(p, r, m, i, j, c) /\ q = i + (j - m) /\ z \in p..r
  /\ ls' = [ls EXCEPT ![q] = c[z]] /\ i2 + (j2 - m) = q + 1
  /\ lo' = i2 /\ hi' = j2 /\ i <= i2 /\ i2 <= m /\ j <= j2 /\ j2 <= r + 1
  /\ z \in i..(m - 1) \/ z \in j..r
  /\ LeastLeft(z, r, m, i2, j2, c)
  /\ calls' = calls /\ copy' = copy /\ given' = given /\ prog' = prog
  /\ prog = "merge" /\ Top.f = "merge"

LEMMA MergedOne ==
  ASSUME NEW p \in Int, NEW r \in Int, NEW m \in Int, NEW i \in Int, NEW j \in Int, NEW c,
         NEW q \in Int, NEW i2 \in Int, NEW j2 \in Int, NEW z,
         TakesOne(q, z, i2, j2, p, r, m, i, j, c)
  PROVE  MergedTo(q, z, p, r, c)
<1> USE DEF TakesOne
<1>1. /\ p < m /\ m <= r /\ c \in [Cells -> Int] /\ ls \in [Cells -> Int]
      /\ p <= i /\ i <= m /\ m <= j /\ j <= r + 1
      /\ \A k \in Cells \ (p..r) : ls[k] = c[k]
      /\ \A k \in p..(q - 1) : \E l \in p..r : ls[k] = c[l]
      /\ \A k, l \in p..(q - 1) : k < l => ls[k] <= ls[l]
      /\ \A k \in p..(q - 1) : (\A l \in i..(m - 1) : ls[k] <= c[l]) /\ (\A l \in j..r : ls[k] <= c[l])
      /\ \A k \in p..r : k \in Cells /\ k \in Int
  <2>1. i + (j - m) - 1 = q - 1
    OBVIOUS
  <2>2. \A k \in p..(q - 1) : \E l \in p..r : ls[k] = c[l]
    BY <2>1 DEF Merging
  <2>3. \A k, l \in p..(q - 1) : k < l => ls[k] <= ls[l]
    BY <2>1 DEF Merging
  <2>4. \A k \in p..(q - 1) : (\A l \in i..(m - 1) : ls[k] <= c[l]) /\ (\A l \in j..r : ls[k] <= c[l])
    BY <2>1 DEF Merging
  <2> QED BY <2>2, <2>3, <2>4 DEF Merging
<1>2. q \in p..r /\ q \in Cells /\ c[z] \in Int
  <2>1. q \in p..r
    BY <1>1
  <2> QED BY <1>1, <2>1
<1>3. ls' \in [Cells -> Int] /\ \A k \in Cells : ls'[k] = IF k = q THEN c[z] ELSE ls[k]
  BY <1>1, <1>2
<1>4. ASSUME NEW k \in p..q PROVE k = q \/ (k \in p..(q - 1) /\ k # q /\ k \in Cells /\ k < q)
  <2>1. k = q \/ (k \in p..(q - 1) /\ k # q /\ k \in p..r /\ k < q)
    BY <1>2
  <2> QED BY <1>1, <2>1
<1>5. ls'[q] = c[z] /\ \A k \in p..(q - 1) : ls'[k] = ls[k]
  <2>1. \A k \in p..(q - 1) : k \in p..r /\ k # q
    BY <1>2
  <2> QED BY <1>1, <1>2, <1>3, <2>1
<1>6. \A k \in Cells \ (p..r) : ls'[k] = c[k]
  BY <1>1, <1>2, <1>3
<1>7. \A k \in p..q : \E l \in p..r : ls'[k] = c[l]
  BY <1>1, <1>4, <1>5
<1>8. \A k \in p..(q - 1) : ls[k] <= c[z]
  BY <1>1
<1>9. \A k, l \in p..q : k < l => ls'[k] <= ls'[l]
  <2> SUFFICES ASSUME NEW k \in p..q, NEW l \in p..q, k < l PROVE ls'[k] <= ls'[l]
    OBVIOUS
  <2>1. k \in p..(q - 1) /\ ls'[k] = ls[k]
    <3>1. k \in p..(q - 1)
      BY <1>2
    <3> QED BY <1>5, <3>1
  <2>2. CASE l = q
    BY <1>5, <1>8, <2>1, <2>2
  <2>3. CASE l # q
    <3>1. l \in p..(q - 1) /\ ls'[l] = ls[l]
      BY <1>4, <1>5, <2>3
    <3> QED BY <1>1, <2>1, <3>1
  <2> QED BY <2>2, <2>3
<1>10. \A k \in p..q : (\A l \in i2..(m - 1) : ls'[k] <= c[l]) /\ (\A l \in j2..r : ls'[k] <= c[l])
  <2> SUFFICES ASSUME NEW k \in p..q
               PROVE  (\A l \in i2..(m - 1) : ls'[k] <= c[l]) /\ (\A l \in j2..r : ls'[k] <= c[l])
    OBVIOUS
  <2>1. CASE k = q
    BY <1>5, <2>1 DEF LeastLeft
  <2>2. CASE k # q
    <3>1. k \in p..(q - 1) /\ ls'[k] = ls[k]
      BY <1>4, <1>5, <2>2
    <3>2. (\A l \in i2..(m - 1) : l \in i..(m - 1)) /\ (\A l \in j2..r : l \in j..r)
      OBVIOUS
    <3> QED BY <1>1, <3>1, <3>2
  <2> QED BY <2>1, <2>2
<1>11. MergeInv'
  <2>1. Top' = Top /\ Mid(Top)' = m /\ Top.p = p /\ Top.r = r /\ copy' = c
    BY SameTop DEF Merging, Mid
  <2>2. i2 + (j2 - m) - 1 = q
    OBVIOUS
  <2>3. ListOK(copy)'
    BY <1>1, <2>1, Steady DEF ListOK
  <2>4. p <= i2 /\ m <= j2 /\ i2 <= m /\ j2 <= r + 1
    BY <1>1
  <2>5. /\ (prog = "merge" /\ Top.f = "merge" /\ ListOK(copy))'
        /\ (Top.p <= lo /\ lo <= Mid(Top) /\ Mid(Top) <= hi /\ hi <= Top.r + 1)'
    BY <2>1, <2>3, <2>4
  <2>6. (\A k \in Cells \ (Top.p..Top.r) : ls[k] = copy[k])'
    BY <1>6, <2>1, Steady
  <2>7. (lo + (hi - Mid(Top)) - 1)' = q
    BY <2>1, <2>2
  <2> QED BY <1>7, <1>9, <1>10, <2>1, <2>5, <2>6, <2>7 DEF MergeInv
<1> QED BY <1>2, <1>3, <1>11 DEF MergedTo

\* What the list would be, by the constants.
Viewed(v, a, p, r, m, i, j, c) == \A k \in Cells : v[k] = IF k \notin p..r THEN c[k]
                                                         ELSE IF k < i + (j - m) THEN a[k]
                                                         ELSE IF k < j THEN c[k - (j - m)] ELSE c[k]

LEMMA ViewOf ==
  ASSUME NEW p \in Int, NEW r \in Int, NEW m \in Int, NEW i \in Int, NEW j \in Int, NEW c,
         Merging(p, r, m, i, j, c), at = "merge"
  PROVE  Viewed(View, ls, p, r, m, i, j, c)
<1>1. View = [k \in Cells |-> Unmerged(k)]
  BY DEF View
<1> QED BY <1>1 DEF Viewed, Unmerged, Merging

LEMMA ViewAfter ==
  ASSUME NEW p \in Int, NEW r \in Int, NEW m \in Int, NEW i \in Int, NEW j \in Int, NEW c,
         Merging(p, r, m, i, j, c), NEW i2 \in Int, NEW j2 \in Int, lo' = i2, hi' = j2,
         at' = "merge", calls' = calls, copy' = copy, given' = given
  PROVE  Viewed(View', ls', p, r, m, i2, j2, c)
<1>1. View' = [k \in Cells |-> Unmerged(k)']
  BY Steady DEF View
<1>2. Top' = Top /\ Mid(Top)' = m /\ Top.p = p /\ Top.r = r /\ copy' = c
  BY SameTop DEF Merging, Mid
<1> QED BY <1>1, <1>2 DEF Viewed, Unmerged

LEMMA TakeLeftKept ==
  ASSUME IndInv, TakeLeft, given' = given, prog' = prog
  PROVE  IndInv'
<1>1. /\ at = "merge" /\ calls' = calls /\ at' = "merge" /\ edge' = edge /\ pivot' = pivot /\ copy' = copy
      /\ lo < Mid(Top) /\ (hi <= Top.r => copy[lo] <= copy[hi])
      /\ ls' = [ls EXCEPT ![lo + (hi - Mid(Top))] = copy[lo]] /\ lo' = lo + 1 /\ hi' = hi
  BY DEF TakeLeft
<1>2. PICK p \in Int, r \in Int, m \in Int, i \in Int, j \in Int, c \in [Cells -> Int] : Merging(p, r, m, i, j, c)
  BY <1>1, AtMerge
<1>3. PICK q \in Int, i2 \in Int : q = i + (j - m) /\ i2 = i + 1
  OBVIOUS
<1>4. /\ i < m /\ (j <= r => c[i] <= c[j]) /\ ls' = [ls EXCEPT ![q] = c[i]] /\ lo' = i2 /\ hi' = j
      /\ p < m /\ m <= r /\ c \in [Cells -> Int]
      /\ p <= i /\ i <= m /\ m <= j /\ j <= r + 1
      /\ \A k \in p..r : k \in Cells /\ k \in Int
      /\ \A k, l \in p..r : k < l /\ (l < m \/ m <= k) => c[k] <= c[l]
  BY <1>1, <1>2, <1>3 DEF Merging
<1>5. i \in p..r /\ c[i] \in Int /\ \A l \in p..r : c[l] \in Int
  BY <1>4
<1>6. \A l \in i2..(m - 1) : c[i] <= c[l]
  <2> SUFFICES ASSUME NEW l \in i2..(m - 1) PROVE c[i] <= c[l]
    OBVIOUS
  <2>1. l \in p..r /\ i < l /\ l < m
    BY <1>3, <1>4
  <2> QED BY <1>4, <1>5, <2>1
<1>7. \A l \in j..r : c[i] <= c[l]
  <2> SUFFICES ASSUME NEW l \in j..r PROVE c[i] <= c[l]
    OBVIOUS
  <2>1. l \in p..r /\ j \in p..r /\ j <= r /\ m <= j
    BY <1>4
  <2>2. CASE l = j
    BY <1>4, <2>1, <2>2
  <2>3. CASE l # j
    <3>1. j < l
      BY <2>3
    <3>2. c[j] <= c[l]
      BY <1>4, <2>1, <3>1
    <3> QED BY <1>4, <1>5, <2>1, <3>2
  <2> QED BY <2>2, <2>3
<1>8. /\ i2 + (j - m) = q + 1 /\ i <= i2 /\ i2 <= m /\ j <= j /\ j <= r + 1
      /\ i \in i..(m - 1) \/ i \in j..r
  BY <1>3, <1>4
<1>9. prog = "merge" /\ Top.f = "merge"
  BY <1>1, AtMerge
<1>10. /\ MergeInv' /\ ls' \in [Cells -> Int] /\ q \in p..r
       /\ \A k \in Cells : ls'[k] = IF k = q THEN c[i] ELSE ls[k]
  <2>1. LeastLeft(i, r, m, i2, j, c)
    BY <1>6, <1>7 DEF LeastLeft
  <2>2. TakesOne(q, i, i2, j, p, r, m, i, j, c)
    BY <1>1, <1>2, <1>3, <1>4, <1>5, <1>8, <1>9, <2>1 DEF TakesOne
  <2>3. MergedTo(q, i, p, r, c)
    BY <2>2, MergedOne
  <2> QED BY <2>3 DEF MergedTo
<1>11. Rearranged(View', given, Cells)
  <2>1. \A k \in Cells : View[k] = IF k \notin p..r THEN c[k]
                                   ELSE IF k < i + (j - m) THEN ls[k]
                                   ELSE IF k < j THEN c[k - (j - m)] ELSE c[k]
    <3>1. Viewed(View, ls, p, r, m, i, j, c)
      BY <1>1, <1>2, ViewOf
    <3> QED BY <3>1 DEF Viewed
  <2>2. \A k \in Cells : View'[k] = IF k \notin p..r THEN c[k]
                                    ELSE IF k < i2 + (j - m) THEN ls'[k]
                                    ELSE IF k < j THEN c[k - (j - m)] ELSE c[k]
    <3>1. Viewed(View', ls', p, r, m, i2, j, c)
      BY <1>1, <1>2, <1>4, ViewAfter
    <3> QED BY <3>1 DEF Viewed
  <2>3. ASSUME NEW k \in Cells PROVE View'[k] = View[k]
    <3>0. k \in Int
      BY DEF Cells
    <3>1. CASE k = q
      <4>1. k \in p..r /\ ~(k < i + (j - m)) /\ k < i2 + (j - m) /\ k < j /\ k - (j - m) = i
        BY <1>3, <1>4, <1>10, <3>1
      <4>2. View[k] = c[k - (j - m)]
        BY <2>1, <4>1
      <4>3. View'[k] = ls'[k]
        BY <2>2, <4>1
      <4> QED BY <1>10, <3>1, <4>1, <4>2, <4>3
    <3>2. CASE k # q
      <4>1. k < i2 + (j - m) <=> k < i + (j - m)
        BY <1>3, <3>0, <3>2
      <4>2. ls'[k] = ls[k]
        BY <1>10, <3>2
      <4> QED BY <2>1, <2>2, <4>1, <4>2
    <3> QED BY <3>1, <3>2
  <2>4. Rearranged(View, given, Cells)
    BY <1>1, AtMerge
  <2> QED BY <2>3, <2>4, EqualLists
<1>12. LoopInv'
  BY <1>1, <1>10 DEF LoopInv
<1>13. /\ InOrder(Before', calls) /\ lo' \in Int /\ hi' \in Int /\ edge' \in Int /\ pivot' \in Int
       /\ prog # "heap" /\ calls # <<>>
  BY <1>1, <1>4, AtMerge DEF Before
<1> QED BY <1>1, <1>10, <1>11, <1>12, <1>13, GoesOn

LEMMA TakeRightKept ==
  ASSUME IndInv, TakeRight, given' = given, prog' = prog
  PROVE  IndInv'
<1>1. /\ at = "merge" /\ calls' = calls /\ at' = "merge" /\ edge' = edge /\ pivot' = pivot /\ copy' = copy
      /\ hi <= Top.r /\ (lo < Mid(Top) => copy[lo] > copy[hi])
      /\ ls' = [ls EXCEPT ![lo + (hi - Mid(Top))] = copy[hi]] /\ lo' = lo /\ hi' = hi + 1
  BY DEF TakeRight
<1>2. PICK p \in Int, r \in Int, m \in Int, i \in Int, j \in Int, c \in [Cells -> Int] : Merging(p, r, m, i, j, c)
  BY <1>1, AtMerge
<1>3. PICK q \in Int, j2 \in Int : q = i + (j - m) /\ j2 = j + 1
  OBVIOUS
<1>4. /\ j <= r /\ (i < m => c[i] > c[j]) /\ ls' = [ls EXCEPT ![q] = c[j]] /\ lo' = i /\ hi' = j2
      /\ p < m /\ m <= r /\ c \in [Cells -> Int]
      /\ p <= i /\ i <= m /\ m <= j /\ j <= r + 1
      /\ \A k \in p..r : k \in Cells /\ k \in Int
      /\ \A k, l \in p..r : k < l /\ (l < m \/ m <= k) => c[k] <= c[l]
  BY <1>1, <1>2, <1>3 DEF Merging
<1>5. j \in p..r /\ \A l \in p..r : c[l] \in Int
  BY <1>4
<1>6. \A l \in i..(m - 1) : c[j] <= c[l]
  <2> SUFFICES ASSUME NEW l \in i..(m - 1) PROVE c[j] <= c[l]
    OBVIOUS
  <2>1. l \in p..r /\ i \in p..r /\ i < m /\ l < m /\ (i = l \/ i < l)
    BY <1>4
  <2>2. c[i] <= c[l]
    BY <1>4, <1>5, <2>1
  <2> QED BY <1>4, <1>5, <2>1, <2>2
<1>7. \A l \in j2..r : c[j] <= c[l]
  <2> SUFFICES ASSUME NEW l \in j2..r PROVE c[j] <= c[l]
    OBVIOUS
  <2>1. l \in p..r /\ j < l /\ m <= j
    BY <1>3, <1>4
  <2> QED BY <1>4, <1>5, <2>1
<1>8. /\ i + (j2 - m) = q + 1 /\ i <= i /\ i <= m /\ j <= j2 /\ j2 <= r + 1
      /\ j \in i..(m - 1) \/ j \in j..r
  BY <1>3, <1>4
<1>9. prog = "merge" /\ Top.f = "merge"
  BY <1>1, AtMerge
<1>10. /\ MergeInv' /\ ls' \in [Cells -> Int] /\ q \in p..r
       /\ \A k \in Cells : ls'[k] = IF k = q THEN c[j] ELSE ls[k]
  <2>1. LeastLeft(j, r, m, i, j2, c)
    BY <1>6, <1>7 DEF LeastLeft
  <2>2. TakesOne(q, j, i, j2, p, r, m, i, j, c)
    BY <1>1, <1>2, <1>3, <1>4, <1>5, <1>8, <1>9, <2>1 DEF TakesOne
  <2>3. MergedTo(q, j, p, r, c)
    BY <2>2, MergedOne
  <2> QED BY <2>3 DEF MergedTo
<1>11. Rearranged(View', given, Cells)
  <2>1. \A k \in Cells : View[k] = IF k \notin p..r THEN c[k]
                                   ELSE IF k < i + (j - m) THEN ls[k]
                                   ELSE IF k < j THEN c[k - (j - m)] ELSE c[k]
    <3>1. Viewed(View, ls, p, r, m, i, j, c)
      BY <1>1, <1>2, ViewOf
    <3> QED BY <3>1 DEF Viewed
  <2>2. \A k \in Cells : View'[k] = IF k \notin p..r THEN c[k]
                                    ELSE IF k < i + (j2 - m) THEN ls'[k]
                                    ELSE IF k < j2 THEN c[k - (j2 - m)] ELSE c[k]
    <3>1. Viewed(View', ls', p, r, m, i, j2, c)
      BY <1>1, <1>2, <1>4, ViewAfter
    <3> QED BY <3>1 DEF Viewed
  <2>3. View'[q] = View[j]
    <3>1. q < i + (j2 - m) /\ j \in Cells /\ q \in Cells /\ ~(j < i + (j - m)) /\ ~(j < j)
      BY <1>3, <1>4, <1>5, <1>10
    <3>2. View'[q] = ls'[q]
      BY <1>10, <2>2, <3>1
    <3>3. View[j] = c[j]
      BY <1>5, <2>1, <3>1
    <3> QED BY <1>10, <3>1, <3>2, <3>3
  <2>4. ASSUME NEW k \in (q + 1)..j PROVE View'[k] = View[k - 1]
    <3>1. k \in p..r /\ k - 1 \in p..r /\ k \in Cells /\ k - 1 \in Cells
      <4>1. k \in p..r /\ k - 1 \in p..r
        BY <1>4, <1>5, <1>10
      <4> QED BY <1>4, <4>1
    <3>2. ~(k < i + (j2 - m)) /\ k < j2 /\ ~(k - 1 < i + (j - m)) /\ k - 1 < j
          /\ k - (j2 - m) = k - 1 - (j - m)
      BY <1>3
    <3>3. View'[k] = c[k - (j2 - m)]
      BY <2>2, <3>1, <3>2
    <3>4. View[k - 1] = c[k - 1 - (j - m)]
      BY <2>1, <3>1, <3>2
    <3> QED BY <3>2, <3>3, <3>4
  <2>5. ASSUME NEW k \in Cells \ (q..j) PROVE View'[k] = View[k]
    <3>0. k \in Int
      BY DEF Cells
    <3>1. CASE k < q
      <4>1. k < i + (j2 - m) /\ k < i + (j - m) /\ ls'[k] = ls[k]
        BY <1>3, <1>10, <3>0, <3>1
      <4> QED BY <2>1, <2>2, <4>1
    <3>2. CASE k > j
      <4>1. /\ ~(k < i + (j2 - m)) /\ ~(k < i + (j - m)) /\ ~(k < j) /\ ~(k < j2)
        BY <1>3, <1>4, <3>0, <3>2
      <4> QED BY <2>1, <2>2, <4>1
    <3> QED BY <3>0, <3>1, <3>2
  <2>6. PICK a, b : a = View /\ b = View'
    OBVIOUS
  <2>7. Cells \in SUBSET Int /\ q <= j /\ q..j \subseteq Cells
    <3>1. q <= j /\ q..j \subseteq p..r
      BY <1>3, <1>4, <1>5, <1>10
    <3> QED BY <1>4, <3>1 DEF Cells
  <2>8. Rearranged(b, a, Cells)
    <3>1. b[q] = a[j] /\ (\A k \in (q + 1)..j : b[k] = a[k - 1]) /\ \A k \in Cells \ (q..j) : b[k] = a[k]
      BY <2>3, <2>4, <2>5, <2>6
    <3> QED BY <2>7, <3>1, Turned
  <2>9. Rearranged(a, given, Cells)
    BY <1>1, <2>6, AtMerge
  <2>10. Rearranged(b, given, Cells)
    BY <2>8, <2>9, Reordered
  <2> QED BY <2>6, <2>10
<1>12. LoopInv'
  BY <1>1, <1>10 DEF LoopInv
<1>13. /\ InOrder(Before', calls) /\ lo' \in Int /\ hi' \in Int /\ edge' \in Int /\ pivot' \in Int
       /\ prog # "heap" /\ calls # <<>>
  BY <1>1, <1>4, AtMerge DEF Before
<1> QED BY <1>1, <1>10, <1>11, <1>12, <1>13, GoesOn

LEMMA MergeEndsKept ==
  ASSUME IndInv, MergeEnds, given' = given, prog' = prog
  PROVE  IndInv'
<1>1. at = "merge" /\ lo = Mid(Top) /\ hi > Top.r /\ ls' = ls /\ Leaves(<<>>)
  BY DEF MergeEnds
<1>2. PICK p \in Int, r \in Int, m \in Int, i \in Int, j \in Int, c \in [Cells -> Int] : Merging(p, r, m, i, j, c)
  BY <1>1, AtMerge
<1>3. /\ p = Top.p /\ r = Top.r /\ c = copy /\ i = m /\ j = r + 1 /\ ls \in [Cells -> Int]
      /\ \A k \in Cells \ (p..r) : ls[k] = c[k]
      /\ \A k \in p..r : \E l \in p..r : ls[k] = c[l]
      /\ \A k, l \in p..r : k < l => ls[k] <= ls[l]
  <2>1. i = m /\ j = r + 1
    BY <1>1, <1>2 DEF Merging
  <2>2. i + (j - m) - 1 = r
    BY <2>1
  <2> QED BY <1>2, <2>1, <2>2 DEF Merging
<1>4. Rearranged(ls, given, Cells)
  <2>1. \A k \in Cells : View[k] = IF k \notin p..r THEN c[k]
                                   ELSE IF k < i + (j - m) THEN ls[k]
                                   ELSE IF k < j THEN c[k - (j - m)] ELSE c[k]
    <3>1. at = "merge" /\ Merging(p, r, m, i, j, c)
      BY <1>1, <1>2
    <3>2. Viewed(View, ls, p, r, m, i, j, c)
      BY <3>1, ViewOf
    <3> QED BY <3>2 DEF Viewed
  <2>2. ASSUME NEW k \in Cells PROVE ls[k] = View[k]
    <3>1. k \in p..r => k < i + (j - m)
      BY <1>3
    <3> QED BY <1>3, <2>1, <3>1
  <2>3. Rearranged(View, given, Cells)
    BY <1>1, AtMerge
  <2> QED BY <2>2, <2>3, EqualLists
<1>5. InOrder(ls, calls)
  <2>1. N \in Nat /\ calls \in Seq(Frame) /\ calls # <<>> /\ Top = calls[Len(calls)] /\ Stacked(calls)
    BY <1>1, AtMerge DEF Typed, Top
  <2>2. InOrder(copy, calls)
    BY <1>1, AtMerge
  <2>3. Moved(Top, copy, ls)
    BY <1>3 DEF Moved
  <2> QED BY <2>1, <2>2, <2>3, MovedWithin
<1>6. /\ calls # <<>> /\ prog # "heap" /\ ls' \in [Cells -> Int]
      /\ \A x, y \in Top.p..Top.r : x < y => ls'[x] <= ls'[y]
  BY <1>1, <1>3, AtMerge
<1>7. Rearranged(ls', given, Cells) /\ InOrder(ls', calls)
  BY <1>1, <1>4, <1>5
<1> QED BY <1>1, <1>6, <1>7, LeftEmpty

-----------------------------------------------------------------------------
(* Insertion sort.                                                          *)

LEMMA LengthIs ==
  ASSUME NEW n \in Nat, NEW a, DOMAIN a = 0..(n - 1)
  PROVE  Length(a) = n
<1>1. Cardinality(0..(n - 1)) = n
  <2>1. 0 \in Int /\ n - 1 \in Int
    OBVIOUS
  <2>2. Cardinality(0..(n - 1)) = IF 0 > n - 1 THEN 0 ELSE n - 1 - 0 + 1
    BY <2>1, FS_Interval
  <2> QED BY <2>2
<1> QED BY <1>1 DEF Length

\* The one call of insertion sort covers the whole list.
LEMMA Inserting ==
  ASSUME IndInv, calls # <<>>, prog = "insertion"
  PROVE  /\ Typed /\ Top = Whole /\ Top.p = 0 /\ Top.r = N - 1 /\ N \in Nat /\ Length(ls) = N
         /\ ls \in [Cells -> Int] /\ lo \in Int /\ hi \in Int /\ pivot \in Int
         /\ Rearranged(View, given, Cells) /\ prog # "heap"
         /\ \A v : InOrder(v, calls)
<1>1. /\ Typed /\ calls = <<Whole>> /\ N \in Nat /\ ls \in [Cells -> Int]
      /\ lo \in Int /\ hi \in Int /\ pivot \in Int /\ Rearranged(View, given, Cells)
  BY DEF IndInv, Typed, Kept, ListOK
<1>2. Len(calls) = 1 /\ calls[1] = Whole /\ DOMAIN calls = {1}
  BY <1>1
<1>3. Top = Whole /\ Whole.p = 0 /\ Whole.r = N - 1 /\ Whole.f = "sort"
  BY <1>2 DEF Top, Whole, Sort
<1>4. Length(ls) = N
  <2>1. DOMAIN ls = 0..(N - 1)
    BY <1>1 DEF Cells
  <2> QED BY <1>1, <2>1, LengthIs
<1>5. ASSUME NEW v PROVE InOrder(v, calls)
  <2> SUFFICES ASSUME NEW x \in Cells, NEW y \in Cells PROVE Covered(calls, x, y)
    BY DEF InOrder
  <2>1. Covers(calls[1], x, y)
    BY <1>2, <1>3 DEF Covers, Cells
  <2> QED BY <1>2, <2>1 DEF Covered
<1> QED BY <1>1, <1>3, <1>4, <1>5

LEMMA InsertionKept ==
  ASSUME IndInv, Insertion, given' = given, prog' = prog
  PROVE  IndInv'
<1>1. /\ calls # <<>> /\ at = "call" /\ prog = "insertion" /\ ls' = ls /\ calls' = calls
      /\ at' = "next" /\ lo' = 1 /\ hi' = 0 /\ edge' = 0 /\ pivot' = 0
  BY DEF Insertion, Calls, Loops, Locals
<1>2. NextInv'
  <2>1. \A k, m \in 0..(1 - 1) : ~(k < m)
    OBVIOUS
  <2> QED BY <1>1, <2>1 DEF NextInv
<1>3. LoopInv'
  BY <1>1, <1>2 DEF LoopInv
<1>4. ls' \in [Cells -> Int] /\ Rearranged(ls', given, Cells) /\ InOrder(ls', calls) /\ prog # "heap"
  BY <1>1, Unmoved
<1> QED BY <1>1, <1>3, <1>4, Continued

LEMMA NextKeyKept ==
  ASSUME IndInv, NextKey, given' = given, prog' = prog
  PROVE  IndInv'
<1>1. /\ at = "next" /\ lo < Length(ls) /\ ls' = ls /\ calls' = calls
      /\ at' = "shift" /\ lo' = lo /\ hi' = lo - 1 /\ edge' = 0 /\ pivot' = ls[lo]
  BY DEF NextKey, Loops, Locals
<1>2. NextInv /\ prog = "insertion" /\ calls # <<>>
  BY <1>1 DEF IndInv, LoopInv, NextInv, Typed
<1>3. /\ lo < N /\ 1 <= lo /\ lo \in Int /\ N \in Nat /\ ls \in [Cells -> Int] /\ lo \in Cells
  <2>1. lo < N /\ 1 <= lo /\ lo \in Int /\ N \in Nat /\ ls \in [Cells -> Int]
    BY <1>1, <1>2, Inserting DEF NextInv
  <2> QED BY <2>1 DEF Cells
<1>4. View = ls
  BY <1>1 DEF View
<1>5. Rearranged(View', given, Cells)
  <2>1. View' = [ls EXCEPT ![lo - 1 + 1] = ls[lo]]
    BY <1>1 DEF View
  <2>2. lo - 1 + 1 = lo
    BY <1>3
  <2>3. \A k \in Cells : View'[k] = View[k]
    BY <1>3, <1>4, <2>1, <2>2
  <2>4. Rearranged(View, given, Cells)
    BY <1>2, Inserting
  <2> QED BY <2>3, <2>4, EqualLists
<1>6. ShiftInv'
  <2>1. \A k, m \in 0..lo \ {lo - 1 + 1} : k < m => ls[k] <= ls[m]
    <3> SUFFICES ASSUME NEW k \in 0..lo, NEW m \in 0..lo, k # lo, m # lo, k < m PROVE ls[k] <= ls[m]
      BY <1>3
    <3>1. k \in 0..(lo - 1) /\ m \in 0..(lo - 1) /\ m < N
      BY <1>3
    <3> QED BY <1>2, <3>1 DEF NextInv
  <2>2. \A k \in (lo - 1 + 2)..lo : FALSE
    BY <1>3
  <2>3. -1 <= lo - 1 /\ lo - 1 < lo
    BY <1>3
  <2> QED BY <1>1, <1>2, <1>3, <2>1, <2>2, <2>3, Steady DEF ShiftInv
<1>7. LoopInv'
  BY <1>1, <1>6 DEF LoopInv
<1>8. /\ ls' \in [Cells -> Int] /\ InOrder(Before', calls) /\ prog # "heap"
      /\ lo' \in Int /\ hi' \in Int /\ edge' \in Int /\ pivot' \in Int
  BY <1>1, <1>2, <1>3, Inserting
<1> QED BY <1>1, <1>2, <1>5, <1>7, <1>8, GoesOn

LEMMA AtShift ==
  ASSUME IndInv, at = "shift"
  PROVE  /\ prog = "insertion" /\ calls # <<>> /\ N \in Nat
         /\ ls \in [Cells -> Int] /\ lo \in Int /\ hi \in Int /\ pivot \in Int
         /\ 1 <= lo /\ lo < N /\ -1 <= hi /\ hi < lo
         /\ \A k, m \in 0..lo \ {hi + 1} : k < m => ls[k] <= ls[m]
         /\ \A k \in (hi + 2)..lo : pivot <= ls[k]
         /\ \A k \in 0..lo : k \in Cells /\ ls[k] \in Int
         /\ View = [ls EXCEPT ![hi + 1] = pivot] /\ Rearranged(View, given, Cells)
<1>1. ShiftInv /\ prog = "insertion" /\ calls # <<>>
  BY DEF IndInv, LoopInv, ShiftInv, Typed
<1>2. N \in Nat /\ ls \in [Cells -> Int] /\ lo \in Int /\ hi \in Int /\ pivot \in Int
  BY <1>1, Inserting
<1>3. \A k \in 0..lo : k \in Cells
  BY <1>1, <1>2 DEF ShiftInv, Cells
<1>4. View = [ls EXCEPT ![hi + 1] = pivot] /\ Rearranged(View, given, Cells)
  BY <1>1, Inserting DEF View
<1> QED BY <1>1, <1>2, <1>3, <1>4 DEF ShiftInv

LEMMA ShiftKept ==
  ASSUME IndInv, Shift, given' = given, prog' = prog
  PROVE  IndInv'
<1>1. /\ at = "shift" /\ hi >= 0 /\ ls[hi] > pivot /\ ls' = [ls EXCEPT ![hi + 1] = ls[hi]] /\ calls' = calls
      /\ at' = "shift" /\ lo' = lo /\ hi' = hi - 1 /\ edge' = 0 /\ pivot' = pivot
  BY DEF Shift, Larger, Loops, Locals
<1>2. PICK i \in Int, j \in Int, x \in Int : i = lo /\ j = hi /\ x = pivot
  BY <1>1, AtShift
<1>3. /\ prog = "insertion" /\ calls # <<>> /\ N \in Nat /\ ls \in [Cells -> Int]
      /\ 1 <= i /\ i < N /\ 0 <= j /\ j < i /\ ls[j] > x
      /\ \A k, m \in 0..i \ {j + 1} : k < m => ls[k] <= ls[m]
      /\ \A k \in (j + 2)..i : x <= ls[k]
      /\ \A k \in 0..i : k \in Cells /\ ls[k] \in Int
      /\ ls' = [ls EXCEPT ![j + 1] = ls[j]]
      /\ View = [ls EXCEPT ![j + 1] = x] /\ Rearranged(View, given, Cells)
  BY <1>1, <1>2, AtShift
<1>4. j \in 0..i /\ j + 1 \in 0..i /\ j # j + 1 /\ j - 1 + 1 = j /\ j - 1 + 2 = j + 1
  BY <1>3
<1>5. j \in Cells /\ j + 1 \in Cells /\ ls[j] \in Int
  BY <1>3, <1>4
<1>6. /\ ls' \in [Cells -> Int]
      /\ \A k \in Cells : ls'[k] = IF k = j + 1 THEN ls[j] ELSE ls[k]
  BY <1>3, <1>5
<1>7. Rearranged(View', given, Cells)
  <2>1. View' = [ls' EXCEPT ![j] = x]
    BY <1>1, <1>2, <1>4 DEF View
  <2>2. /\ View'[j] = View[j + 1] /\ View'[j + 1] = View[j]
        /\ \A k \in Cells \ {j, j + 1} : View'[k] = View[k]
    BY <1>3, <1>4, <1>5, <1>6, <2>1
  <2>3. Rearranged(View', View, Cells)
    BY <1>5, <2>2, Exchanged
  <2> QED BY <1>3, <2>3, Reordered
<1>8. ShiftInv'
  <2>1. \A k, m \in 0..i \ {j} : k < m => ls'[k] <= ls'[m]
    <3> SUFFICES ASSUME NEW k \in 0..i, NEW m \in 0..i, k # j, m # j, k < m PROVE ls'[k] <= ls'[m]
      OBVIOUS
    <3>0. k \in Cells /\ m \in Cells
      BY <1>3
    <3>1. CASE k = j + 1
      <4>1. m # j + 1 /\ j < m
        BY <3>1
      <4>2. ls[j] <= ls[m]
        BY <1>3, <1>4, <4>1
      <4> QED BY <1>6, <3>0, <3>1, <4>1, <4>2
    <3>2. CASE m = j + 1
      <4>1. k # j + 1 /\ k < j
        BY <3>2
      <4>2. ls[k] <= ls[j]
        BY <1>3, <1>4, <4>1
      <4> QED BY <1>6, <3>0, <3>2, <4>1, <4>2
    <3>3. CASE k # j + 1 /\ m # j + 1
      BY <1>3, <1>6, <3>0, <3>3
    <3> QED BY <3>1, <3>2, <3>3
  <2>2. \A k \in (j + 1)..i : x <= ls'[k]
    <3> SUFFICES ASSUME NEW k \in (j + 1)..i PROVE x <= ls'[k]
      OBVIOUS
    <3>1. CASE k = j + 1
      BY <1>3, <1>5, <1>6, <3>1
    <3>2. CASE k # j + 1
      <4>1. k \in (j + 2)..i /\ k \in 0..i
        BY <1>3, <3>2
      <4>2. ls'[k] = ls[k]
        BY <1>3, <1>6, <3>2, <4>1
      <4> QED BY <1>3, <4>1, <4>2
    <3> QED BY <3>1, <3>2
  <2>3. -1 <= j - 1 /\ j - 1 < i
    BY <1>3
  <2> QED BY <1>1, <1>2, <1>3, <1>4, <2>1, <2>2, <2>3, Steady DEF ShiftInv
<1>9. LoopInv'
  BY <1>1, <1>8 DEF LoopInv
<1>10. /\ InOrder(Before', calls) /\ prog # "heap"
       /\ lo' \in Int /\ hi' \in Int /\ edge' \in Int /\ pivot' \in Int
  BY <1>1, <1>2, <1>3, Inserting
<1> QED BY <1>1, <1>3, <1>6, <1>7, <1>9, <1>10, GoesOn

LEMMA PlaceKept ==
  ASSUME IndInv, Place, given' = given, prog' = prog
  PROVE  IndInv'
<1>1. /\ at = "shift" /\ ~(hi >= 0 /\ ls[hi] > pivot) /\ ls' = [ls EXCEPT ![hi + 1] = pivot] /\ calls' = calls
      /\ at' = "next" /\ lo' = lo + 1 /\ hi' = 0 /\ edge' = 0 /\ pivot' = 0
  BY DEF Place, Larger, Loops, Locals
<1>2. PICK i \in Int, j \in Int, x \in Int : i = lo /\ j = hi /\ x = pivot
  BY <1>1, AtShift
<1>3. /\ prog = "insertion" /\ calls # <<>> /\ N \in Nat /\ ls \in [Cells -> Int]
      /\ 1 <= i /\ i < N /\ -1 <= j /\ j < i /\ ~(j >= 0 /\ ls[j] > x)
      /\ \A k, m \in 0..i \ {j + 1} : k < m => ls[k] <= ls[m]
      /\ \A k \in (j + 2)..i : x <= ls[k]
      /\ \A k \in 0..i : k \in Cells /\ ls[k] \in Int
      /\ ls' = [ls EXCEPT ![j + 1] = x]
      /\ View = ls' /\ Rearranged(View, given, Cells)
  BY <1>1, <1>2, AtShift
<1>4. j + 1 \in 0..i /\ j + 1 \in Cells
  <2>1. j + 1 \in 0..i
    BY <1>3
  <2> QED BY <1>3, <2>1
<1>5. /\ ls' \in [Cells -> Int]
      /\ \A k \in Cells : ls'[k] = IF k = j + 1 THEN x ELSE ls[k]
  BY <1>3, <1>4
<1>6. \A k \in 0..i : k < j + 1 => ls[k] <= x
  <2> SUFFICES ASSUME NEW k \in 0..i, k < j + 1 PROVE ls[k] <= x
    OBVIOUS
  <2>1. j \in 0..i /\ j >= 0 /\ j # j + 1 /\ k # j + 1 /\ (k = j \/ k < j)
    BY <1>3
  <2>2. ls[j] <= x
    BY <1>3, <2>1
  <2>3. CASE k = j
    BY <2>2, <2>3
  <2>4. CASE k < j
    <3>1. ls[k] <= ls[j]
      BY <1>3, <2>1, <2>4
    <3> QED BY <1>3, <2>1, <2>2, <3>1
  <2> QED BY <2>1, <2>3, <2>4
<1>7. NextInv'
  <2>1. ASSUME NEW k \in 0..i, NEW m \in 0..i, k < m PROVE ls'[k] <= ls'[m]
    <3>0. k \in Cells /\ m \in Cells
      BY <1>3
    <3>1. CASE k = j + 1
      <4>1. m # j + 1 /\ m \in (j + 2)..i
        BY <2>1, <3>1
      <4> QED BY <1>3, <1>5, <3>0, <3>1, <4>1
    <3>2. CASE m = j + 1
      <4>1. k # j + 1 /\ k < j + 1
        BY <2>1, <3>2
      <4> QED BY <1>5, <1>6, <3>0, <3>2, <4>1
    <3>3. CASE k # j + 1 /\ m # j + 1
      BY <1>3, <1>5, <2>1, <3>0, <3>3
    <3> QED BY <3>1, <3>2, <3>3
  <2>2. i + 1 - 1 = i /\ 1 <= i + 1
    BY <1>3
  <2> QED BY <1>1, <1>2, <1>3, <2>1, <2>2, Steady DEF NextInv
<1>8. LoopInv'
  BY <1>1, <1>7 DEF LoopInv
<1>9. /\ InOrder(ls', calls) /\ prog # "heap" /\ Rearranged(ls', given, Cells)
      /\ lo' \in Int /\ hi' \in Int /\ edge' \in Int /\ pivot' \in Int
  BY <1>1, <1>2, <1>3, Inserting
<1> QED BY <1>1, <1>3, <1>5, <1>8, <1>9, Continued

LEMMA InsertionEndsKept ==
  ASSUME IndInv, InsertionEnds, given' = given, prog' = prog
  PROVE  IndInv'
<1>1. at = "next" /\ lo >= Length(ls) /\ ls' = ls /\ Leaves(<<>>)
  BY DEF InsertionEnds
<1>2. NextInv /\ prog = "insertion" /\ calls # <<>>
  BY <1>1 DEF IndInv, LoopInv, NextInv, Typed
<1>3. lo >= N /\ lo \in Int /\ N \in Nat /\ Top.p = 0 /\ Top.r = N - 1 /\ prog # "heap"
  BY <1>1, <1>2, Inserting
<1>4. ASSUME NEW x \in Top.p..Top.r, NEW y \in Top.p..Top.r, x < y PROVE ls'[x] <= ls'[y]
  <2>1. x \in 0..(lo - 1) /\ y \in 0..(lo - 1) /\ y < N
    BY <1>3
  <2> QED BY <1>1, <1>2, <1>4, <2>1 DEF NextInv
<1>5. ls' \in [Cells -> Int] /\ Rearranged(ls', given, Cells) /\ InOrder(ls', calls)
  BY <1>1, <1>3, Unmoved
<1> QED BY <1>1, <1>2, <1>3, <1>4, <1>5, LeftEmpty

-----------------------------------------------------------------------------
(* Heap sort.                                                               *)

LEMMA LeastNat ==
  ASSUME NEW T, T \subseteq Nat, T # {}
  PROVE  \E n \in T : \A m \in T : n <= m
<1> DEFINE R == {p \in Nat \X Nat : p[1] < p[2]}
<1>1. IsWellFoundedOn(R, Nat)
  BY NatLessThanWellFounded DEF OpToRel
<1>2. PICK n \in T : \A m \in T : ~(<<m, n>> \in R)
  BY <1>1, WFMin
<1>3. ASSUME NEW m \in T PROVE n <= m
  <2>1. n \in Nat /\ m \in Nat /\ <<m, n>> \in Nat \X Nat /\ <<m, n>>[1] = m /\ <<m, n>>[2] = n
    OBVIOUS
  <2>2. ~(m < n)
    BY <1>2, <2>1
  <2> QED BY <2>1, <2>2
<1> QED BY <1>3

LEMMA Parent ==
  ASSUME NEW d \in Int
  PROVE  /\ d \div 2 \in Int
         /\ d >= 1 => d \div 2 < d /\ d \div 2 >= 0
         /\ d >= 2 => d \div 2 >= 1
         /\ \A h \in Int : d \div 2 = h <=> d = 2 * h \/ d = 2 * h + 1
<1>1. PICK m \in Int : m = d \div 2
  OBVIOUS
<1>2. 2 * m <= d /\ d < 2 * m + 2
  BY <1>1
<1>3. \A h \in Int : m = h <=> d = 2 * h \/ d = 2 * h + 1
  BY <1>2
<1> QED BY <1>1, <1>2, <1>3

\* The root of a heap is its largest.
Heap(v, n) == /\ \A k \in 1..(n - 1) : v[k] \in Int
              /\ \A d \in 2..(n - 1) : v[d] <= v[d \div 2]
AtMostRoot(v, n) == \A k \in 1..(n - 1) : v[k] <= v[1]

LEMMA RootLargest ==
  ASSUME NEW n \in Int, NEW v, Heap(v, n)
  PROVE  AtMostRoot(v, n)
<1> USE DEF Heap, AtMostRoot
<1> DEFINE T == {k \in 1..(n - 1) : ~(v[k] <= v[1])}
<1> SUFFICES ASSUME T # {} PROVE FALSE
  OBVIOUS
<1>1. T \subseteq Nat
  OBVIOUS
<1>2. PICK k \in T : \A m \in T : k <= m
  <2> HIDE DEF T
  <2> QED BY <1>1, LeastNat
<1>3. k \in 1..(n - 1) /\ ~(v[k] <= v[1]) /\ k \in Int
  BY <1>2
<1>4. 1 \in 1..(n - 1) /\ v[1] \in Int /\ v[k] \in Int
  BY <1>3
<1>5. k # 1
  BY <1>3, <1>4
<1>6. k \in 2..(n - 1)
  BY <1>3, <1>5
<1>7. PICK h \in Int : h = k \div 2
  BY <1>3, Parent
<1>8. h \in 1..(n - 1) /\ h < k
  <2>1. h >= 1 /\ h < k
    BY <1>3, <1>6, <1>7, Parent
  <2> QED BY <1>3, <2>1
<1>9. h \notin T
  BY <1>2, <1>3, <1>8
<1>10. v[h] <= v[1] /\ v[h] \in Int
  BY <1>8, <1>9
<1>11. v[k] <= v[h]
  BY <1>6, <1>7
<1> QED BY <1>3, <1>4, <1>10, <1>11

LEMMA AtHeap ==
  ASSUME IndInv, prog = "heap"
  PROVE  /\ Typed /\ N \in Nat /\ N >= 1 /\ ls \in [Cells -> Int] /\ given \in [Cells -> Int]
         /\ lo \in Int /\ hi \in Int /\ edge \in Int /\ Length(ls) = N
         /\ ls[0] = given[0] /\ 0 \in Cells
         /\ at \notin {"merge", "shift"} /\ View = ls /\ Rearranged(ls, given, Cells)
         /\ \A k \in 0..(N - 1) : k \in Cells /\ ls[k] \in Int
         /\ calls # <<>> => Top.p = 0 /\ Top.r = N - 1 /\ Top.f = "sort" /\ Top = Whole
<1>1. /\ Typed /\ N \in Nat /\ N >= 1 /\ ls \in [Cells -> Int] /\ given \in [Cells -> Int]
      /\ lo \in Int /\ hi \in Int /\ edge \in Int /\ ls[0] = given[0]
  BY DEF IndInv, Typed, ListOK, HeapInv
<1>2. at \notin {"merge", "shift"}
  BY DEF IndInv, LoopInv, MergeInv, ShiftInv
<1>3. View = ls
  BY <1>2 DEF View
<1>4. Rearranged(ls, given, Cells)
  BY <1>3 DEF IndInv, Kept
<1>5. \A k \in 0..(N - 1) : k \in Cells /\ ls[k] \in Int
  BY <1>1 DEF Cells
<1>6. 0 \in Cells
  BY <1>1 DEF Cells
<1>7. Length(ls) = N
  <2>1. DOMAIN ls = 0..(N - 1)
    BY <1>1 DEF Cells
  <2> QED BY <1>1, <2>1, LengthIs
<1>8. ASSUME calls # <<>> PROVE Top.p = 0 /\ Top.r = N - 1 /\ Top.f = "sort" /\ Top = Whole
  <2>1. calls = <<Whole>>
    BY <1>8 DEF IndInv, Typed
  <2>2. Top = Whole
    BY <2>1 DEF Top
  <2> QED BY <2>2 DEF Whole, Sort
<1> QED BY <1>1, <1>2, <1>3, <1>4, <1>5, <1>6, <1>7, <1>8

\* Heap sort goes on.
LEMMA HeapOn ==
  ASSUME IndInv, prog = "heap", calls # <<>>, calls' = calls, given' = given, prog' = prog,
         ls' \in [Cells -> Int], Rearranged(ls', given, Cells), ls'[0] = ls[0],
         lo' \in Int, hi' \in Int, edge' \in Int, pivot' \in Int,
         at' \in {"build", "extract", "heapify", "reheap"}, LoopInv'
  PROVE  IndInv'
<1>1. Typed'
  BY TypedOn DEF IndInv
<1>2. View' = ls'
  BY DEF View
<1>3. Kept'
  BY <1>2, Steady DEF Kept
<1>4. Ordered'
  BY DEF Ordered
<1>5. HeapInv'
  BY AtHeap DEF HeapInv
<1> QED BY <1>1, <1>3, <1>4, <1>5 DEF IndInv

LEMMA HeapSame ==
  ASSUME IndInv, prog = "heap", ls' = ls
  PROVE  ls' \in [Cells -> Int] /\ Rearranged(ls', given, Cells) /\ ls'[0] = ls[0]
BY AtHeap

\* What the loops know does not name the variables.
LEMMA SteadyFits == ASSUME given' = given PROVE Fits' = Fits
BY Steady DEF Fits

LEMMA HeapSortKept ==
  ASSUME IndInv, HeapSort, given' = given, prog' = prog
  PROVE  IndInv'
<1>1. /\ calls # <<>> /\ at = "call" /\ prog = "heap" /\ ls' = ls /\ calls' = calls
      /\ at' = "build" /\ lo' = Length(ls) \div 2 - 1 /\ hi' = 0 /\ edge' = 0 /\ pivot' = 0
  BY DEF HeapSort, Calls, Loops, Locals
<1>2. N \in Nat /\ N >= 1 /\ Length(ls) = N /\ ls = given /\ given \in [Cells -> Int]
  BY <1>1, AtHeap DEF IndInv, HeapInv
<1>3. PICK n \in Int, h \in Int : n = N /\ h = N \div 2
  BY <1>2, Parent
<1>4. n >= 1 /\ 0 <= h /\ h < n /\ (n = 2 * h \/ n = 2 * h + 1) /\ lo' = h - 1
  BY <1>1, <1>2, <1>3, Parent
<1>5. ASSUME Fits PROVE HeapFrom(h - 1 + 1, n)'
  <2> SUFFICES ASSUME NEW d \in 2..(n - 1), d \div 2 >= h PROVE given[d] <= given[d \div 2]
    BY <1>1, <1>2, <1>4 DEF HeapFrom
  <2>1. d \div 2 \in Int /\ \A k \in Int : d \div 2 = k <=> d = 2 * k \/ d = 2 * k + 1
    BY Parent
  <2>2. d = n - 1 /\ d \div 2 = h /\ n = 2 * h + 1
    <3>1. PICK e \in Int : e = d \div 2
      BY <2>1
    <3>2. (d = 2 * e \/ d = 2 * e + 1) /\ e >= h
      BY <2>1, <3>1
    <3> QED BY <1>4, <3>1, <3>2
  <2>3. n % 2 = 1
    BY <2>2
  <2> QED BY <1>3, <1>5, <2>2, <2>3 DEF Fits
<1>6. BuildInv'
  <2>1. h - 1 >= -1 /\ h - 1 < n
    BY <1>4
  <2>2. N' = n /\ N' \div 2 = h /\ Fits' = Fits
    BY <1>3, Steady, SteadyFits
  <2> QED BY <1>1, <1>4, <1>5, <2>1, <2>2 DEF BuildInv
<1>7. LoopInv'
  BY <1>1, <1>6 DEF LoopInv
<1>8. lo' \in Int /\ hi' \in Int /\ edge' \in Int /\ pivot' \in Int
  BY <1>1, <1>4
<1> QED BY <1>1, <1>7, <1>8, HeapSame, HeapOn

LEMMA BuildKept ==
  ASSUME IndInv, Build, given' = given, prog' = prog
  PROVE  IndInv'
<1>1. /\ at = "build" /\ lo >= 1 /\ ls' = ls /\ calls' = calls
      /\ at' = "heapify" /\ lo' = lo /\ hi' = lo /\ edge' = Length(ls) /\ pivot' = 0
  BY DEF Build, Loops, Locals
<1>2. BuildInv /\ prog = "heap" /\ calls # <<>>
  BY <1>1 DEF IndInv, LoopInv, BuildInv, Typed
<1>3. N \in Nat /\ lo \in Int /\ Length(ls) = N
  BY <1>2, AtHeap
<1>4. lo <= N \div 2 - 1 /\ lo < N
  BY <1>1, <1>2 DEF BuildInv
<1>5. ASSUME Fits PROVE HeapBut(lo, N, lo)
  <2>1. HeapFrom(lo + 1, N)
    BY <1>2, <1>5 DEF BuildInv
  <2>2. ASSUME NEW d \in 2..(N - 1), d \div 2 >= lo, d \div 2 # lo PROVE ls[d] <= ls[d \div 2]
    <3>1. d \div 2 >= lo + 1
      BY <1>3, <2>2, Parent
    <3> QED BY <2>1, <3>1 DEF HeapFrom
  <2>3. ~(lo \div 2 >= lo)
    BY <1>1, <1>3, Parent
  <2> QED BY <2>2, <2>3 DEF HeapBut
<1>6. HeapifyInv'
  <2>1. HeapBut(lo, N, lo)' <=> HeapBut(lo, N, lo)
    BY <1>1, Steady DEF HeapBut
  <2>2. N' = N /\ Fits' = Fits /\ lo <= lo
    BY <1>3, Steady, SteadyFits
  <2>3. Fits => HeapBut(lo, N, hi)'
    BY <1>1, <1>5, <2>2 DEF HeapBut
  <2> QED BY <1>1, <1>2, <1>3, <1>4, <2>2, <2>3 DEF HeapifyInv
<1>7. LoopInv'
  BY <1>1, <1>6 DEF LoopInv
<1>8. lo' \in Int /\ hi' \in Int /\ edge' \in Int /\ pivot' \in Int
  BY <1>1, <1>3
<1> QED BY <1>1, <1>2, <1>7, <1>8, HeapSame, HeapOn

LEMMA BuiltKept ==
  ASSUME IndInv, Built, given' = given, prog' = prog
  PROVE  IndInv'
<1>1. /\ at = "build" /\ lo < 1 /\ ls' = ls /\ calls' = calls
      /\ at' = "extract" /\ lo' = Length(ls) - 1 /\ hi' = 0 /\ edge' = 0 /\ pivot' = 0
  BY DEF Built, Loops, Locals
<1>2. BuildInv /\ prog = "heap" /\ calls # <<>>
  BY <1>1 DEF IndInv, LoopInv, BuildInv, Typed
<1>3. N \in Nat /\ N >= 1 /\ lo \in Int /\ Length(ls) = N /\ N' = N /\ Fits' = Fits
  BY <1>2, AtHeap, Steady, SteadyFits
<1>4. ASSUME Fits PROVE \A d \in 2..(N - 1) : d \div 2 >= 1 => ls[d] <= ls[d \div 2]
  <2> TAKE d \in 2..(N - 1)
  <2>1. HeapFrom(lo + 1, N)
    BY <1>2, <1>4 DEF BuildInv
  <2>2. d \div 2 \in Int
    BY Parent
  <2>3. d \div 2 >= 1 => d \div 2 >= lo + 1
    BY <1>1, <1>3, <2>2
  <2> QED BY <2>1, <2>3 DEF HeapFrom
<1>5. ExtractInv'
  <2>1. N - 1 + 1 = N /\ 0 <= N - 1 /\ N - 1 <= N - 1
    BY <1>3
  <2>2. (\A k \in N..(N - 1) : FALSE)
    BY <1>3
  <2>3. Fits => HeapFrom(1, N)'
    BY <1>1, <1>3, <1>4 DEF HeapFrom
  <2>4. Behind(N)'
    BY <1>3, <2>2 DEF Behind
  <2>5. HeapFrom(1, lo + 1)' <=> HeapFrom(1, N)'
    BY <1>1, <1>3, <2>1 DEF HeapFrom
  <2>6. Behind(lo + 1)' <=> Behind(N)'
    BY <1>1, <1>3, <2>1 DEF Behind
  <2> QED BY <1>1, <1>2, <1>3, <2>1, <2>3, <2>4, <2>5, <2>6 DEF ExtractInv
<1>6. LoopInv'
  BY <1>1, <1>5 DEF LoopInv
<1>7. lo' \in Int /\ hi' \in Int /\ edge' \in Int /\ pivot' \in Int
  BY <1>1, <1>3
<1> QED BY <1>1, <1>2, <1>6, <1>7, HeapSame, HeapOn

\* Two elements of the heap are exchanged.
LEMMA HeapSwapped ==
  ASSUME IndInv, prog = "heap", calls # <<>>, NEW i \in 1..(N - 1), NEW j \in 1..(N - 1), Swaps(i, j)
  PROVE  /\ ls' \in [Cells -> Int] /\ Rearranged(ls', given, Cells) /\ ls'[0] = ls[0]
         /\ \A k \in 0..(N - 1) : ls'[k] = IF k = i THEN ls[j] ELSE IF k = j THEN ls[i] ELSE ls[k]
<1>1. /\ Top.f = "sort" /\ Top.p = 0 /\ Top.r = N - 1 /\ at \notin {"merge", "shift"} /\ N \in Nat /\ N >= 1
  BY AtHeap
<1>2. i \in Top.p..Top.r /\ j \in Top.p..Top.r
  BY <1>1
<1>3. /\ ls' \in [Cells -> Int] /\ Rearranged(ls', given, Cells)
      /\ \A k \in Cells : ls'[k] = IF k = i THEN ls[j] ELSE IF k = j THEN ls[i] ELSE ls[k]
  BY <1>1, <1>2, Swapped
<1>4. \A k \in 0..(N - 1) : k \in Cells
  BY AtHeap
<1>5. 0 \in Cells /\ 0 # i /\ 0 # j
  BY AtHeap
<1> QED BY <1>3, <1>4, <1>5

LEMMA ExtractKept ==
  ASSUME IndInv, Extract, given' = given, prog' = prog
  PROVE  IndInv'
<1>1. /\ at = "extract" /\ lo >= 2 /\ Swaps(lo, 1) /\ calls' = calls
      /\ at' = "reheap" /\ lo' = lo /\ hi' = 1 /\ edge' = lo /\ pivot' = 0
  BY DEF Extract, Loops, Locals
<1>2. ExtractInv /\ prog = "heap" /\ calls # <<>>
  BY <1>1 DEF IndInv, LoopInv, ExtractInv, Typed
<1>3. PICK n \in Nat, i \in Int : n = N /\ i = lo
  BY <1>2, AtHeap
<1>4. /\ 2 <= i /\ i <= n - 1 /\ \A k \in 0..(n - 1) : ls[k] \in Int
  BY <1>1, <1>2, <1>3, AtHeap DEF ExtractInv
<1>5. i \in 1..(n - 1) /\ 1 \in 1..(n - 1)
  BY <1>4
<1>6. /\ ls' \in [Cells -> Int] /\ Rearranged(ls', given, Cells) /\ ls'[0] = ls[0]
      /\ \A k \in 0..(n - 1) : ls'[k] = IF k = i THEN ls[1] ELSE IF k = 1 THEN ls[i] ELSE ls[k]
  BY <1>1, <1>2, <1>3, <1>5, HeapSwapped
<1>7. /\ ls'[i] = ls[1] /\ ls'[1] = ls[i]
      /\ \A k \in 2..(n - 1) : k # i => ls'[k] = ls[k]
  <2>1. i \in 0..(n - 1) /\ 1 \in 0..(n - 1) /\ i # 1 /\ \A k \in 2..(n - 1) : k \in 0..(n - 1) /\ k # 1
    BY <1>4
  <2> QED BY <1>6, <2>1
<1>8. ASSUME Fits
      PROVE  /\ \A d \in 2..i : ls[d] <= ls[d \div 2]
             /\ \A k, m \in (i + 1)..(n - 1) : k < m => ls[k] <= ls[m]
             /\ \A k \in 1..i, m \in (i + 1)..(n - 1) : ls[k] <= ls[m]
  <2>1. HeapFrom(1, i + 1) /\ Behind(i + 1)
    BY <1>2, <1>3, <1>8 DEF ExtractInv
  <2>2. i + 1 - 1 = i
    BY <1>4
  <2>3. \A d \in 2..i : d \div 2 >= 1
    BY Parent
  <2> QED BY <1>3, <2>1, <2>2, <2>3 DEF HeapFrom, Behind
<1>9. ASSUME Fits PROVE \A k \in 1..i : ls[k] <= ls[1]
  <2>1. \A k \in 1..(i + 1 - 1) : ls[k] \in Int
    <3>1. \A k \in 1..(i + 1 - 1) : k \in 0..(n - 1)
      BY <1>4
    <3> QED BY <1>4, <3>1
  <2>2. \A d \in 2..(i + 1 - 1) : ls[d] <= ls[d \div 2]
    <3>1. i + 1 - 1 = i
      BY <1>4
    <3> QED BY <1>8, <1>9, <3>1
  <2>3. i + 1 \in Int
    BY <1>4
  <2>4. Heap(ls, i + 1)
    BY <2>1, <2>2 DEF Heap
  <2>5. AtMostRoot(ls, i + 1)
    BY <2>3, <2>4, RootLargest
  <2>6. \A k \in 1..i : k \in 1..(i + 1 - 1)
    BY <1>4
  <2> QED BY <2>5, <2>6 DEF AtMostRoot
<1>10. ASSUME Fits PROVE HeapBut(1, i, 1)'
  <2>1. ASSUME NEW d \in 2..(i - 1), d \div 2 # 1 PROVE ls'[d] <= ls'[d \div 2]
    <3>1. PICK h \in Int : h = d \div 2
      BY Parent
    <3>2. h >= 1 /\ h < d
      BY <3>1, Parent
    <3>3. h \in 2..(n - 1) /\ h # i /\ d \in 2..(n - 1) /\ d # i /\ d \in 2..i
      BY <1>4, <2>1, <3>1, <3>2
    <3>4. ls[d] <= ls[h]
      BY <1>8, <1>10, <3>1, <3>3
    <3> QED BY <1>7, <3>1, <3>3, <3>4
  <2>2. ~(1 \div 2 >= 1)
    BY Parent
  <2> QED BY <2>1, <2>2 DEF HeapBut
<1>11. ASSUME Fits PROVE Behind(i)'
  <2>1. ASSUME NEW k \in i..(n - 1), NEW m \in i..(n - 1), k < m PROVE ls'[k] <= ls'[m]
    <3>1. m \in 2..(n - 1) /\ m # i /\ m \in (i + 1)..(n - 1) /\ ls'[m] = ls[m]
      <4>1. m \in 2..(n - 1) /\ m # i /\ m \in (i + 1)..(n - 1)
        BY <1>4, <2>1
      <4> QED BY <1>7, <4>1
    <3>2. CASE k = i
      <4>1. 1 \in 1..i
        BY <1>4
      <4> QED BY <1>7, <1>8, <1>11, <3>1, <3>2, <4>1
    <3>3. CASE k # i
      <4>1. k \in 2..(n - 1) /\ k \in (i + 1)..(n - 1)
        BY <1>4, <3>3
      <4> QED BY <1>7, <1>8, <1>11, <2>1, <3>1, <3>3, <4>1
    <3> QED BY <3>2, <3>3
  <2>2. ASSUME NEW k \in 1..(i - 1), NEW m \in i..(n - 1) PROVE ls'[k] <= ls'[m]
    <3>1. PICK g \in 1..i : ls'[k] = ls[g]
      <4>1. CASE k = 1
        <5>1. i \in 1..i
          BY <1>4
        <5> QED BY <1>7, <4>1, <5>1
      <4>2. CASE k # 1
        <5>1. k \in 2..(n - 1) /\ k # i /\ k \in 1..i
          BY <1>4, <4>2
        <5> QED BY <1>7, <5>1
      <4> QED BY <4>1, <4>2
    <3>2. CASE m = i
      BY <1>7, <1>9, <1>11, <3>1, <3>2
    <3>3. CASE m # i
      <4>1. m \in 2..(n - 1) /\ m \in (i + 1)..(n - 1)
        BY <1>4, <3>3
      <4> QED BY <1>7, <1>8, <1>11, <3>1, <3>3, <4>1
    <3> QED BY <3>2, <3>3
  <2> QED BY <1>3, <2>1, <2>2, Steady DEF Behind
<1>12. ReheapInv'
  <2>1. /\ 2 <= i /\ i <= n - 1 /\ 1 <= 1 /\ 1 < i
    BY <1>4
  <2>2. N' = n /\ Fits' = Fits /\ prog' = "heap"
    BY <1>2, <1>3, Steady, SteadyFits
  <2>3. Fits => HeapBut(1, lo, hi)' /\ Behind(lo)'
    <3>1. ASSUME Fits PROVE HeapBut(1, lo, hi)'
      BY <1>1, <1>3, <1>10, <3>1 DEF HeapBut
    <3>2. ASSUME Fits PROVE Behind(lo)'
      BY <1>1, <1>3, <1>11, <3>2 DEF Behind
    <3> QED BY <3>1, <3>2
  <2> QED BY <1>1, <1>3, <2>1, <2>2, <2>3 DEF ReheapInv
<1>13. LoopInv'
  BY <1>1, <1>12 DEF LoopInv
<1>14. lo' \in Int /\ hi' \in Int /\ edge' \in Int /\ pivot' \in Int
  BY <1>1, <1>3
<1> QED BY <1>1, <1>2, <1>6, <1>13, <1>14, HeapOn

LEMMA HeapEndsKept ==
  ASSUME IndInv, HeapEnds, given' = given, prog' = prog
  PROVE  IndInv'
<1>1. at = "extract" /\ lo < 2 /\ Leaves(<<>>) /\ ls' = ls
  BY DEF HeapEnds
<1>2. ExtractInv /\ prog = "heap" /\ calls # <<>>
  BY <1>1 DEF IndInv, LoopInv, ExtractInv, Typed
<1>3. calls = <<Whole>>
  BY <1>2 DEF IndInv, Typed
<1>4. PICK n \in Nat, i \in Int : n = N /\ i = lo
  BY <1>2, AtHeap
<1>5. i \in {0, 1} /\ i <= n - 1
  BY <1>1, <1>2, <1>4 DEF ExtractInv
<1>6. /\ calls' = <<>> /\ at' = "call" /\ lo' = 0 /\ hi' = 0 /\ edge' = 0 /\ pivot' = 0
  <2>1. Len(calls) = 1 /\ SubSeq(calls, 1, 0) = <<>>
    BY <1>3
  <2>2. Rest = <<>>
    BY <2>1 DEF Rest
  <2> QED BY <1>1, <2>2 DEF Leaves, Locals
<1>7. /\ Typed /\ ls \in [Cells -> Int] /\ Rearranged(ls, given, Cells) /\ ls[0] = given[0]
      /\ \A k \in 0..(n - 1) : ls[k] \in Int
  BY <1>2, <1>4, AtHeap
<1>8. Typed'
  BY <1>1, <1>2, <1>6, <1>7, Steady DEF Typed, ListOK
<1>9. Kept'
  <2>1. View' = ls
    BY <1>1, <1>6 DEF View
  <2> QED BY <1>7, <2>1, Steady DEF Kept
<1>10. Ordered' /\ LoopInv'
  BY <1>2, <1>6 DEF Ordered, LoopInv
<1>11. ASSUME Fits PROVE \A k \in 2..(n - 1) : ls[k - 1] <= ls[k]
  <2> TAKE k \in 2..(n - 1)
  <2>1. Behind(i + 1)
    BY <1>2, <1>4, <1>11 DEF ExtractInv
  <2>2. CASE k - 1 \in (i + 1)..(n - 1)
    <3>1. k \in (i + 1)..(n - 1) /\ k - 1 < k
      BY <1>5, <2>2
    <3> QED BY <1>4, <2>1, <2>2, <3>1 DEF Behind
  <2>3. CASE k - 1 \notin (i + 1)..(n - 1)
    <3>1. k - 1 \in 1..(i + 1 - 1) /\ k \in (i + 1)..(n - 1)
      BY <1>5, <2>3
    <3> QED BY <1>4, <2>1, <3>1 DEF Behind
  <2> QED BY <2>2, <2>3
<1>12. HeapInv'
  <2>1. N' = n /\ Fits' = Fits
    BY <1>4, Steady, SteadyFits
  <2> QED BY <1>1, <1>6, <1>7, <1>11, <2>1 DEF HeapInv
<1> QED BY <1>8, <1>9, <1>10, <1>12 DEF IndInv
-----------------------------------------------------------------------------
\* max_heapify at a node of a heap of the given size.
LEMMA AtHeapify ==
  ASSUME IndInv, at \in {"heapify", "reheap"}
  PROVE  /\ prog = "heap" /\ calls # <<>> /\ N \in Nat /\ lo \in Int /\ hi \in Int /\ edge \in Int
         /\ 1 <= lo /\ 1 <= hi /\ hi < edge /\ edge <= N
         /\ at = "heapify" => lo <= hi /\ edge = N /\ lo <= N \div 2 - 1 /\ (Fits => HeapBut(lo, edge, hi))
         /\ at = "reheap" => edge = lo /\ 2 <= lo /\ lo <= N - 1 /\ (Fits => HeapBut(1, edge, hi) /\ Behind(lo))
         /\ \A k \in 0..(N - 1) : ls[k] \in Int
<1>1. prog = "heap" /\ calls # <<>>
  BY DEF IndInv, LoopInv, HeapifyInv, ReheapInv, Typed
<1>2. N \in Nat /\ lo \in Int /\ hi \in Int /\ edge \in Int /\ \A k \in 0..(N - 1) : ls[k] \in Int
  BY <1>1, AtHeap
<1>3. ASSUME at = "heapify"
      PROVE  /\ 1 <= lo /\ 1 <= hi /\ hi < edge /\ edge <= N
             /\ lo <= hi /\ edge = N /\ lo <= N \div 2 - 1 /\ (Fits => HeapBut(lo, edge, hi))
  BY <1>2, <1>3 DEF IndInv, LoopInv, HeapifyInv
<1>4. ASSUME at = "reheap"
      PROVE  /\ 1 <= lo /\ 1 <= hi /\ hi < edge /\ edge <= N
             /\ edge = lo /\ 2 <= lo /\ lo <= N - 1 /\ (Fits => HeapBut(1, edge, hi) /\ Behind(lo))
  BY <1>2, <1>4 DEF IndInv, LoopInv, ReheapInv
<1> QED BY <1>1, <1>2, <1>3, <1>4

\* A heap from place i on, but for the children of node.
SiftedTo(v, i, size, node) ==
  /\ \A d \in 2..(size - 1) : d \div 2 >= i /\ d \div 2 # node => v[d] <= v[d \div 2]
  /\ \A d \in 2..(size - 1) : d \div 2 = node /\ node \div 2 >= i => v[d] <= v[node \div 2]

\* The largest of a node and its children goes up, and the node below it is next.
Sifts(v, w, size, node, c) ==
  /\ c < size /\ c \div 2 = node /\ v[node] < v[c]
  /\ \A k \in 1..(size - 1) : v[k] \in Int
  /\ \A d \in 2..(size - 1) : d \div 2 = node => v[d] <= v[c]
  /\ w[c] = v[node] /\ w[node] = v[c]
  /\ \A k \in 1..(size - 1) : k # c /\ k # node => w[k] = v[k]

LEMMA Sifted ==
  ASSUME NEW i \in Int, NEW size \in Int, NEW node \in Int, NEW c \in Int, 1 <= i, i <= node,
         NEW v, NEW w, SiftedTo(v, i, size, node), Sifts(v, w, size, node, c)
  PROVE  SiftedTo(w, i, size, c)
<1> USE DEF SiftedTo, Sifts
<1>1. node < c /\ node >= 1 /\ c \in 1..(size - 1) /\ c \in 2..(size - 1) /\ node \in 1..(size - 1)
  <2>1. c = 2 * node \/ c = 2 * node + 1
    BY Parent
  <2> QED BY <2>1
<1>2. v[c] \in Int /\ v[node] \in Int
  BY <1>1
<1>3. ASSUME NEW d \in 2..(size - 1), d \div 2 >= i, d \div 2 # c PROVE w[d] <= w[d \div 2]
  <2>1. PICK h \in Int : h = d \div 2
    BY Parent
  <2>2. h < d /\ h >= i /\ h # c /\ h \in 1..(size - 1) /\ d \in 1..(size - 1)
    <3>1. h < d /\ h >= i /\ h # c
      BY <1>3, <2>1, Parent
    <3> QED BY <3>1
  <2>3. CASE h = node
    <3>1. w[h] = v[c] /\ d # node
      BY <2>2, <2>3
    <3>2. CASE d = c
      BY <1>2, <2>1, <3>1, <3>2
    <3>3. CASE d # c
      <4>1. w[d] = v[d] /\ v[d] <= v[c]
        BY <2>1, <2>2, <2>3, <3>1, <3>3
      <4> QED BY <2>1, <3>1, <4>1
    <3> QED BY <3>2, <3>3
  <2>4. CASE h # node /\ d = node
    <3>1. h = node \div 2 /\ w[h] = v[h] /\ w[d] = v[c]
      BY <2>1, <2>2, <2>4
    <3>2. v[c] <= v[node \div 2]
      BY <1>1, <2>2, <3>1
    <3> QED BY <2>1, <3>1, <3>2
  <2>5. CASE h # node /\ d # node
    <3>1. d # c
      BY <2>1, <2>5
    <3>2. w[d] = v[d] /\ w[h] = v[h] /\ v[d] <= v[h]
      BY <2>1, <2>2, <2>5, <3>1
    <3> QED BY <2>1, <3>2
  <2> QED BY <2>3, <2>4, <2>5
<1>4. ASSUME NEW d \in 2..(size - 1), d \div 2 = c PROVE w[d] <= w[c \div 2]
  <2>1. d > c
    <3>1. d = 2 * c \/ d = 2 * c + 1
      BY <1>4, Parent
    <3> QED BY <1>1, <3>1
  <2>2. v[d] <= v[c] /\ w[d] = v[d]
    <3>1. d \div 2 >= i /\ d \div 2 # node /\ d \in 1..(size - 1) /\ d # c /\ d # node
      BY <1>1, <1>4, <2>1
    <3> QED BY <1>4, <3>1
  <2> QED BY <2>2
<1> QED BY <1>3, <1>4

LEMMA HeapifyKept ==
  ASSUME IndInv, Heapify, given' = given, prog' = prog
  PROVE  IndInv'
<1>1. PICK c \in LargerChildren :
        /\ \A d \in LargerChildren : ls[d] < ls[c] \/ (ls[d] = ls[c] /\ c <= d)
        /\ Swaps(c, hi) /\ Loops(at, lo, c, edge, 0)
  BY DEF Heapify
<1>2. /\ at \in {"heapify", "reheap"} /\ at' = at /\ lo' = lo /\ hi' = c /\ edge' = edge /\ pivot' = 0
      /\ calls' = calls
  BY <1>1 DEF Heapify, Loops, Locals
<1>3. PICK n \in Nat, i \in Int, node \in Int, size \in Int : n = N /\ i = lo /\ node = hi /\ size = edge
  BY <1>2, AtHeapify
<1>4. /\ prog = "heap" /\ calls # <<>> /\ 1 <= i /\ 1 <= node /\ node < size /\ size <= n
      /\ \A k \in 0..(n - 1) : ls[k] \in Int
  BY <1>2, <1>3, AtHeapify
<1>5. /\ c \in Int /\ c < size /\ ls[node] < ls[c] /\ (c = 2 * node \/ c = 2 * node + 1)
  BY <1>1, <1>3 DEF LargerChildren
<1>6. c \div 2 = node /\ c \in 1..(n - 1) /\ node \in 1..(n - 1) /\ node < c /\ c # node
  <2>1. c \div 2 = node
    BY <1>5, Parent
  <2> QED BY <1>4, <1>5, <2>1
<1>7. /\ ls' \in [Cells -> Int] /\ Rearranged(ls', given, Cells) /\ ls'[0] = ls[0]
      /\ \A k \in 0..(n - 1) : ls'[k] = IF k = c THEN ls[node] ELSE IF k = node THEN ls[c] ELSE ls[k]
  BY <1>1, <1>3, <1>4, <1>6, HeapSwapped
<1>8. ls'[c] = ls[node] /\ ls'[node] = ls[c] /\ \A k \in 0..(n - 1) : k # c /\ k # node => ls'[k] = ls[k]
  <2>1. c \in 0..(n - 1) /\ node \in 0..(n - 1)
    BY <1>6
  <2> QED BY <1>6, <1>7, <2>1
<1>9. Sifts(ls, ls', size, node, c)
  <2>1. \A k \in 1..(size - 1) : k \in 0..(n - 1)
    BY <1>4
  <2>2. ASSUME NEW d \in 2..(size - 1), d \div 2 = node PROVE ls[d] <= ls[c]
    <3>1. (d = 2 * node \/ d = 2 * node + 1) /\ d < size /\ d \in 0..(n - 1) /\ c \in 0..(n - 1)
          /\ node \in 0..(n - 1)
      BY <1>4, <1>6, <2>2, Parent
    <3>2. ls[d] \in Int /\ ls[c] \in Int /\ ls[node] \in Int
      BY <1>4, <3>1
    <3>3. CASE ls[node] < ls[d]
      <4>1. d \in LargerChildren
        BY <1>3, <3>1, <3>3 DEF LargerChildren
      <4> QED BY <1>1, <3>2, <4>1
    <3>4. CASE ~(ls[node] < ls[d])
      BY <1>5, <3>2, <3>4
    <3> QED BY <3>3, <3>4
  <2> QED BY <1>4, <1>5, <1>6, <1>8, <2>1, <2>2 DEF Sifts
<1>10. CASE at = "heapify"
  <2>1. i <= node /\ size = n /\ i <= N \div 2 - 1 /\ (Fits => HeapBut(i, size, node))
    BY <1>3, <1>10, AtHeapify
  <2>2. ASSUME Fits PROVE SiftedTo(ls', i, size, c)
    <3>1. SiftedTo(ls, i, size, node)
      BY <2>1, <2>2 DEF HeapBut, SiftedTo
    <3> QED BY <1>4, <1>5, <1>9, <2>1, <3>1, Sifted
  <2>3. Fits => HeapBut(lo, N, hi)'
    BY <1>2, <1>3, <2>1, <2>2, Steady DEF HeapBut, SiftedTo
  <2>4. i <= c /\ c < n
    BY <1>5, <1>6, <2>1
  <2>5. HeapifyInv'
    <3>1. N' = n /\ Fits' = Fits
      BY <1>3, Steady, SteadyFits
    <3> QED BY <1>2, <1>3, <1>4, <2>1, <2>3, <2>4, <3>1 DEF HeapifyInv
  <2>6. LoopInv'
    BY <1>2, <1>10, <2>5 DEF LoopInv
  <2> QED BY <1>2, <1>3, <1>4, <1>5, <1>7, <2>6, HeapOn
<1>11. CASE at = "reheap"
  <2>1. /\ size = i /\ 2 <= i /\ i <= n - 1 /\ (Fits => HeapBut(1, size, node) /\ Behind(i))
    BY <1>3, <1>11, AtHeapify
  <2>2. ASSUME Fits PROVE SiftedTo(ls', 1, size, c)
    <3>1. SiftedTo(ls, 1, size, node)
      BY <2>1, <2>2 DEF HeapBut, SiftedTo
    <3> QED BY <1>4, <1>5, <1>9, <3>1, Sifted
  <2>3. Fits => HeapBut(1, lo, hi)'
    BY <1>2, <1>3, <2>1, <2>2, Steady DEF HeapBut, SiftedTo
  <2>4. ASSUME Fits PROVE Behind(lo)'
    <3>1. /\ \A k, m \in i..(n - 1) : k < m => ls[k] <= ls[m]
          /\ \A k \in 1..(i - 1), m \in i..(n - 1) : ls[k] <= ls[m]
      BY <1>3, <2>1, <2>4 DEF Behind
    <3>2. \A k \in i..(n - 1) : ls'[k] = ls[k]
      <4> TAKE k \in i..(n - 1)
      <4>1. k \in 0..(n - 1) /\ k # c /\ k # node
        BY <1>4, <1>5, <1>6, <2>1
      <4> QED BY <1>8, <4>1
    <3>3. ASSUME NEW k \in 1..(i - 1), NEW m \in i..(n - 1) PROVE ls'[k] <= ls'[m]
      <4>1. PICK g \in 1..(i - 1) : ls'[k] = ls[g]
        <5>1. c \in 1..(i - 1) /\ node \in 1..(i - 1) /\ k \in 0..(n - 1)
          BY <1>4, <1>5, <1>6, <2>1
        <5>2. CASE k = c
          BY <1>8, <5>1, <5>2
        <5>3. CASE k = node
          BY <1>8, <5>1, <5>3
        <5>4. CASE k # c /\ k # node
          BY <1>8, <5>1, <5>4
        <5> QED BY <5>2, <5>3, <5>4
      <4> QED BY <3>1, <3>2, <4>1
    <3> QED BY <1>2, <1>3, <3>1, <3>2, <3>3, Steady DEF Behind
  <2>5. ReheapInv'
    <3>1. N' = n /\ Fits' = Fits /\ 1 <= c /\ c < size
      BY <1>3, <1>5, <1>6, Steady, SteadyFits
    <3> QED BY <1>2, <1>3, <1>4, <2>1, <2>3, <2>4, <3>1 DEF ReheapInv
  <2>6. LoopInv'
    BY <1>2, <1>11, <2>5 DEF LoopInv
  <2> QED BY <1>2, <1>3, <1>4, <1>5, <1>7, <2>6, HeapOn
<1> QED BY <1>2, <1>10, <1>11

LEMMA HeapifiedKept ==
  ASSUME IndInv, Heapified, given' = given, prog' = prog
  PROVE  IndInv'
<1>1. /\ at \in {"heapify", "reheap"} /\ LargerChildren = {} /\ ls' = ls /\ calls' = calls
      /\ at' = IF at = "heapify" THEN "build" ELSE "extract"
      /\ lo' = lo - 1 /\ hi' = 0 /\ edge' = 0 /\ pivot' = 0
  BY DEF Heapified, Loops, Locals
<1>2. PICK n \in Nat, i \in Int, node \in Int, size \in Int : n = N /\ i = lo /\ node = hi /\ size = edge
  BY <1>1, AtHeapify
<1>3. /\ prog = "heap" /\ calls # <<>> /\ 1 <= i /\ 1 <= node /\ node < size /\ size <= n
      /\ \A k \in 0..(n - 1) : ls[k] \in Int
  BY <1>1, <1>2, AtHeapify
<1>4. ASSUME NEW d \in 2..(size - 1), d \div 2 = node PROVE ls[d] <= ls[node]
  <2>1. (d = 2 * node \/ d = 2 * node + 1) /\ d < size /\ d \in 0..(n - 1) /\ node \in 0..(n - 1)
    BY <1>3, <1>4, Parent
  <2>2. ~(ls[node] < ls[d])
    BY <1>1, <1>2, <2>1 DEF LargerChildren
  <2> QED BY <1>3, <2>1, <2>2
<1>5. ASSUME NEW k \in Int, HeapBut(k, size, node)
      PROVE  \A d \in 2..(size - 1) : d \div 2 >= k => ls[d] <= ls[d \div 2]
  BY <1>4, <1>5 DEF HeapBut
<1>6. i - 1 + 1 = i
  OBVIOUS
<1>7. CASE at = "heapify"
  <2>1. i <= node /\ size = n /\ i <= N \div 2 - 1 /\ (Fits => HeapBut(i, size, node)) /\ N \div 2 \in Int
    BY <1>2, <1>7, AtHeapify, Parent
  <2>2. Fits => HeapFrom(lo + 1, N)'
    <3>1. N' = n
      BY <1>2, Steady
    <3>2. ASSUME Fits PROVE \A d \in 2..(n - 1) : d \div 2 >= i => ls[d] <= ls[d \div 2]
      BY <1>5, <2>1, <3>2
    <3> QED BY <1>1, <1>2, <1>6, <3>1, <3>2 DEF HeapFrom
  <2>3. i - 1 >= -1 /\ i - 1 < n /\ i - 1 <= N \div 2 - 1
    BY <1>3, <2>1
  <2>4. BuildInv'
    <3>1. N' = n /\ N' = N /\ Fits' = Fits
      BY <1>2, Steady, SteadyFits
    <3> QED BY <1>1, <1>2, <1>3, <2>2, <2>3, <3>1 DEF BuildInv
  <2>5. LoopInv'
    BY <1>1, <1>7, <2>4 DEF LoopInv
  <2>6. lo' \in Int /\ hi' \in Int /\ edge' \in Int /\ pivot' \in Int
    BY <1>1, <1>2
  <2> QED BY <1>1, <1>3, <2>5, <2>6, HeapSame, HeapOn
<1>8. CASE at = "reheap"
  <2>1. /\ size = i /\ 2 <= i /\ i <= n - 1 /\ (Fits => HeapBut(1, size, node) /\ Behind(i))
    BY <1>2, <1>8, AtHeapify
  <2>2. Fits => HeapFrom(1, lo + 1)' /\ Behind(lo + 1)'
    <3>1. N' = n
      BY <1>2, Steady
    <3>2. ASSUME Fits PROVE \A d \in 2..(i - 1) : d \div 2 >= 1 => ls[d] <= ls[d \div 2]
      BY <1>5, <2>1, <3>2
    <3>3. ASSUME Fits PROVE HeapFrom(1, lo + 1)'
      BY <1>1, <1>2, <1>6, <3>2, <3>3 DEF HeapFrom
    <3>4. ASSUME Fits PROVE Behind(lo + 1)'
      <4>1. Behind(i)
        BY <2>1, <3>4
      <4> QED BY <1>1, <1>2, <1>6, <3>1, <4>1 DEF Behind
    <3> QED BY <3>3, <3>4
  <2>3. 0 <= i - 1 /\ i - 1 <= n - 1
    BY <2>1
  <2>4. ExtractInv'
    <3>1. N' = n /\ Fits' = Fits
      BY <1>2, Steady, SteadyFits
    <3> QED BY <1>1, <1>2, <1>3, <2>2, <2>3, <3>1 DEF ExtractInv
  <2>5. LoopInv'
    BY <1>1, <1>8, <2>4 DEF LoopInv
  <2>6. lo' \in Int /\ hi' \in Int /\ edge' \in Int /\ pivot' \in Int
    BY <1>1, <1>2
  <2> QED BY <1>1, <1>3, <2>5, <2>6, HeapSame, HeapOn
<1> QED BY <1>1, <1>7, <1>8
-----------------------------------------------------------------------------
LEMMA InitKept == SortInit => IndInv
<1> SUFFICES ASSUME SortInit PROVE IndInv
  OBVIOUS
<1>1. /\ prog \in Programs /\ ls = given /\ calls = <<Sort(0, Length(given) - 1)>>
      /\ at = "call" /\ lo = 0 /\ hi = 0 /\ edge = 0 /\ pivot = 0
  BY DEF SortInit
<1>2. PICK a \in Lists : given = IF prog = "heap" THEN Headed(a) ELSE a
  BY DEF SortInit
<1>3. PICK n \in Nat : n = Length(a) /\ a \in [0..(n - 1) -> Nat]
  BY ListsAssumption
<1>4. ASSUME prog # "heap" PROVE N = n /\ given \in [0..(N - 1) -> Int]
  <2>1. N = n
    BY <1>2, <1>3, <1>4 DEF N
  <2>2. a \in [0..(n - 1) -> Int]
    BY <1>3
  <2> QED BY <1>2, <1>4, <2>1, <2>2
<1>5. ASSUME prog = "heap" PROVE N = n + 1 /\ given \in [0..(N - 1) -> Int]
  <2>1. given = [k \in 0..n |-> IF k = 0 THEN -1 ELSE a[k - 1]]
    BY <1>2, <1>3, <1>5 DEF Headed
  <2>2. ASSUME NEW k \in 0..n, k # 0 PROVE a[k - 1] \in Int
    <3>1. k - 1 \in 0..(n - 1)
      BY <2>2
    <3> QED BY <1>3, <3>1
  <2>3. given \in [0..n -> Int]
    BY <2>1, <2>2
  <2>4. n + 1 \in Nat /\ n + 1 - 1 = n
    OBVIOUS
  <2>5. DOMAIN given = 0..(n + 1 - 1)
    BY <2>3, <2>4
  <2>6. Length(given) = n + 1
    BY <2>4, <2>5, LengthIs
  <2> QED BY <2>3, <2>4, <2>6 DEF N
<1>6. N \in Nat /\ given \in [Cells -> Int] /\ (prog = "heap" => N >= 1)
  BY <1>3, <1>4, <1>5 DEF Cells
<1>7. calls = <<Whole>> /\ Whole \in Frame /\ Whole.f = "sort" /\ Whole.p = 0 /\ Whole.r = N - 1
  <2>1. calls = <<Whole>>
    BY <1>1 DEF Whole, N
  <2>2. Whole = [f |-> "sort", p |-> 0, r |-> N - 1]
    BY DEF Whole, Sort
  <2> QED BY <1>6, <2>1, <2>2 DEF Frame
<1>8. Len(calls) = 1 /\ calls[1] = Whole /\ DOMAIN calls = {1} /\ calls \in Seq(Frame) /\ calls # <<>>
  BY <1>7
<1>9. Typed
  BY <1>1, <1>6, <1>7, <1>8 DEF Typed, ListOK
<1>10. View = given /\ Before = given
  BY <1>1 DEF View, Before
<1>11. Kept
  BY <1>10, SameOrder DEF Kept
<1>12. Ordered
  <2>1. Stacked(calls)
    BY <1>8 DEF Stacked
  <2>2. InOrder(given, calls)
    <3> SUFFICES ASSUME NEW x \in Cells, NEW y \in Cells PROVE Covered(calls, x, y)
      BY DEF InOrder
    <3>1. Covers(calls[1], x, y)
      BY <1>7, <1>8 DEF Covers, Cells
    <3> QED BY <1>8, <3>1 DEF Covered
  <2> QED BY <1>10, <2>1, <2>2 DEF Ordered
<1>13. LoopInv /\ HeapInv
  BY <1>1, <1>8 DEF LoopInv, HeapInv
<1> QED BY <1>9, <1>11, <1>12, <1>13 DEF IndInv

LEMMA NextKept ==
  ASSUME IndInv, [SortNext]_sortVars
  PROVE  IndInv'
<1>1. ASSUME SortNext PROVE IndInv'
  <2>1. given' = given /\ prog' = prog
    BY <1>1 DEF SortNext
  <2>2. CASE Return
    BY <2>1, <2>2, ReturnKept
  <2>3. CASE MergeStep
    BY <2>1, <2>3, MergeSortKept, MergeBeginsKept, TakeLeftKept, TakeRightKept, MergeEndsKept DEF MergeStep
  <2>4. CASE InsertStep
    BY <2>1, <2>4, InsertionKept, NextKeyKept, ShiftKept, PlaceKept, InsertionEndsKept DEF InsertStep
  <2>5. CASE HoareStep
    BY <2>1, <2>5, HoarePartitionKept, DownKept, UpKept, ExchangeKept, HoareSplitKept DEF HoareStep
  <2>6. CASE SimpleStep
    BY <2>1, <2>6, PartitionKept, ScanKept, SplitKept DEF SimpleStep
  <2>7. CASE EqualStep
    BY <2>1, <2>7, PartitionKept, GatherKept, GatheredKept, MoveKept, SplitEqKept DEF EqualStep
  <2>8. CASE HeapStep
    BY <2>1, <2>8, HeapSortKept, BuildKept, BuiltKept, ExtractKept, HeapEndsKept, HeapifyKept, HeapifiedKept
       DEF HeapStep
  <2> QED BY <1>1, <2>2, <2>3, <2>4, <2>5, <2>6, <2>7, <2>8 DEF SortNext
<1>2. ASSUME UNCHANGED sortVars PROVE IndInv'
  <2>1. /\ given' = given /\ prog' = prog /\ ls' = ls /\ calls' = calls /\ at' = at /\ lo' = lo
        /\ hi' = hi /\ edge' = edge /\ pivot' = pivot /\ copy' = copy
    BY <1>2 DEF sortVars
  <2>2. N' = N /\ Cells' = Cells /\ Frame' = Frame /\ Whole' = Whole /\ Top' = Top /\ Fits' = Fits
    BY <2>1, Steady, SameTop, SteadyFits
  <2>3. Typed'
    BY <2>1, <2>2 DEF IndInv, Typed, ListOK
  <2>4. View' = View /\ Before' = Before
    BY <2>1, <2>2 DEF View, Before, Unmerged, Mid
  <2>5. Kept' /\ Ordered'
    BY <2>1, <2>2, <2>4 DEF IndInv, Kept, Ordered, Stacked, InOrder, Covered, Covers, Mid, Apart
  <2>6. MergeInv' = MergeInv /\ NextInv' = NextInv /\ ShiftInv' = ShiftInv
    BY <2>1, <2>2 DEF MergeInv, NextInv, ShiftInv, ListOK, Mid
  <2>7. DownInv' = DownInv /\ UpInv' = UpInv /\ ScanInv' = ScanInv
    BY <2>1, <2>2 DEF DownInv, UpInv, HoareInv, ScanInv
  <2>8. GatherInv' = GatherInv /\ MoveInv' = MoveInv
    BY <2>1, <2>2 DEF GatherInv, MoveInv
  <2>9. BuildInv' = BuildInv /\ ExtractInv' = ExtractInv /\ HeapifyInv' = HeapifyInv /\ ReheapInv' = ReheapInv
    BY <2>1, <2>2 DEF BuildInv, ExtractInv, HeapifyInv, ReheapInv, HeapFrom, HeapBut, Behind
  <2>10. LoopInv'
    BY <2>1, <2>6, <2>7, <2>8, <2>9 DEF IndInv, LoopInv
  <2>11. HeapInv'
    BY <2>1, <2>2 DEF IndInv, HeapInv
  <2> QED BY <2>3, <2>5, <2>10, <2>11 DEF IndInv
<1> QED BY <1>1, <1>2

-----------------------------------------------------------------------------
(* What the invariant says of the list when it is sorted.                   *)

LEMMA KeptAll ==
  ASSUME IndInv, Over
  PROVE  /\ Same /\ at = "call" /\ N \in Nat /\ DOMAIN ls = Cells /\ ls \in [Cells -> Int]
<1>1. /\ Typed /\ at = "call" /\ N \in Nat /\ ls \in [Cells -> Int] /\ given \in [Cells -> Int]
  BY DEF IndInv, Over, Typed, ListOK
<1>2. Rearranged(ls, given, Cells)
  BY <1>1 DEF IndInv, Kept, View
<1>3. DOMAIN ls = 0..(N - 1) /\ DOMAIN given = 0..(N - 1) /\ Rearranged(ls, given, 0..(N - 1))
  BY <1>1, <1>2 DEF Cells
<1>4. ASSUME NEW k \in DOMAIN given PROVE Times(ls, given[k]) = Times(given, given[k])
  <2>0. PICK n \in Nat : n = N
    BY <1>1
  <2>1. PICK a, b, x : a = ls /\ b = given /\ x = given[k]
    OBVIOUS
  <2>2. DOMAIN a = 0..(n - 1) /\ DOMAIN b = 0..(n - 1) /\ Rearranged(a, b, 0..(n - 1))
    BY <1>3, <2>0, <2>1
  <2>3. Times(a, x) = Times(b, x)
    BY <2>2, AsOften
  <2> QED BY <2>1, <2>3
<1> QED BY <1>1, <1>3, <1>4 DEF Same

LEMMA IndInvImplies == IndInv => AllSort
<1> SUFFICES ASSUME IndInv PROVE AllSort
  OBVIOUS
<1>1. Sorts
  <2> SUFFICES ASSUME Over, prog # "heap" PROVE Same /\ Sorted(ls)
    BY DEF Sorts
  <2>1. Same /\ at = "call" /\ N \in Nat /\ DOMAIN ls = Cells
    BY KeptAll
  <2>2. InOrder(ls, calls) /\ calls = <<>>
    BY <2>1 DEF IndInv, Ordered, Before, Over
  <2>3. ASSUME NEW k \in DOMAIN ls \ {0} PROVE ls[k - 1] <= ls[k]
    <3>1. k - 1 \in Cells /\ k \in Cells /\ k - 1 < k
      BY <2>1 DEF Cells
    <3> QED BY <2>2, <3>1 DEF InOrder, Covered
  <2> QED BY <2>1, <2>3 DEF Sorted
<1>2. EqualApart
  <2> SUFFICES ASSUME at = "move", edge > Top.r, NEW k \in Top.p..Top.r
               PROVE (k <= lo <=> ls[k] < pivot) /\ (k \in (lo + 1)..(hi - 1) <=> ls[k] = pivot)
    BY DEF EqualApart
  <2>1. MoveInv
    BY DEF IndInv, LoopInv
  <2>2. PICK p \in Int, r \in Int, i \in Int, j \in Int, l \in Int :
          p = Top.p /\ r = Top.r /\ i = lo /\ j = hi /\ l = edge
    <3>1. Top.p \in Int /\ Top.r \in Int /\ lo \in Int /\ hi \in Int /\ edge \in Int
      BY AtLoop
    <3> QED BY <3>1
  <2>3. /\ k \in p..r /\ ls[k] \in Int /\ pivot \in Int /\ l > r /\ i < j
        /\ \A m \in p..i : ls[m] < pivot
        /\ \A m \in (i + 1)..(j - 1) : ls[m] = pivot
        /\ \A m \in j..(l - 1) : ls[m] > pivot
    BY <2>1, <2>2, AtLoop DEF MoveInv
  <2>4. k \in p..i \/ k \in (i + 1)..(j - 1) \/ k \in j..(l - 1)
    BY <2>3
  <2>5. CASE k \in p..i
    <3>1. k <= i /\ k \notin (i + 1)..(j - 1) /\ ls[k] < pivot
      BY <2>3, <2>5
    <3> QED BY <2>2, <2>3, <3>1
  <2>6. CASE k \in (i + 1)..(j - 1)
    <3>1. ~(k <= i) /\ ls[k] = pivot
      BY <2>3, <2>6
    <3> QED BY <2>2, <2>3, <2>6, <3>1
  <2>7. CASE k \in j..(l - 1)
    <3>1. ~(k <= i) /\ k \notin (i + 1)..(j - 1) /\ ls[k] > pivot
      BY <2>3, <2>7
    <3> QED BY <2>2, <2>3, <3>1
  <2> QED BY <2>4, <2>5, <2>6, <2>7
<1>3. ScansStay
  <2>1. ASSUME at = "down" PROVE hi - 1 >= Top.p
    <3>1. DownInv /\ calls # <<>> /\ Typed
      BY <2>1 DEF IndInv, LoopInv, Typed
    <3>2. hi \in Int /\ Top.p \in Int
      BY <3>1, OnTop DEF Typed
    <3> QED BY <3>1, <3>2 DEF DownInv
  <2>2. ASSUME at = "up" PROVE lo + 1 <= Top.r
    BY <2>2, AtUp
  <2> QED BY <2>1, <2>2 DEF ScansStay
<1>4. HeapSorts
  <2> SUFFICES ASSUME Over, prog = "heap"
               PROVE  /\ Same /\ ls[0] = given[0]
                      /\ N % 2 = 0 \/ given[N - 1] <= given[N \div 2] => \A k \in 2..(N - 1) : ls[k - 1] <= ls[k]
    BY DEF HeapSorts, N
  <2>1. HeapInv /\ calls = <<>>
    BY DEF IndInv, Over
  <2> QED BY <2>1, KeptAll DEF HeapInv, Fits
<1> QED BY <1>1, <1>2, <1>3, <1>4 DEF AllSort

\* What each sorting program leaves when it ends is what it was given, in
\* order, however long the list is and whatever is in it: merge sort and the
\* insertion sort, the three quicksorts, whose scans stay within the part they
\* divide and whose equal elements need not be looked at again, and heap sort,
\* but for the last parent it passes over.
THEOREM AllSortHolds == SortSpec => []AllSort
<1>1. SortInit => IndInv
  BY InitKept
<1>2. IndInv /\ [SortNext]_sortVars => IndInv'
  BY NextKept
<1>3. IndInv => AllSort
  BY IndInvImplies
<1> QED BY <1>1, <1>2, <1>3, PTL DEF SortSpec
-----------------------------------------------------------------------------
(* The graph programs: what holds at every step                            *)

\* The children of u that were looked at.
Looked(u) == {adj[u][i] : i \in 1..nth[u]}

Marks == {"white", "gray", "black"}

GraphTyped ==
  /\ adj \in Graphs /\ search \in DepthFirst \union {"bfs", "wrestlers", "topo"} /\ start \in Nat
  /\ color \in [Nodes -> Marks] /\ path \in [Nodes -> Nodes \union {0}]
  /\ dist \in [Nodes -> Int] /\ disc \in [Nodes -> Nat] /\ fin \in [Nodes -> Nat] /\ cc \in [Nodes -> Nat]
  /\ nth \in [Nodes -> Nat] /\ \A u \in Nodes : nth[u] <= Len(adj[u])
  /\ stack \in Seq(Nodes) /\ que \in Seq(Nodes) /\ listed \in Seq(Nodes)
  /\ clock \in Nat /\ group \in Nat \ {0}
  /\ passed \subseteq Nodes /\ cnt \in [Nodes -> Int] /\ refused \in BOOLEAN
  /\ refused => search \in {"dag", "uag", "wrestlers"}

\* The visits under way are a path, discovered in this order.
StackInv ==
  /\ \A v \in Nodes : color[v] = "gray" <=> \E i \in 1..Len(stack) : stack[i] = v
  /\ \A i, j \in 1..Len(stack) : i < j => disc[stack[i]] < disc[stack[j]]
  /\ \A i \in 1..(Len(stack) - 1) : /\ path[stack[i + 1]] = stack[i]
                                    /\ stack[i + 1] \in Children(stack[i])
  /\ stack # <<>> => path[stack[1]] = 0

MarkInv ==
  /\ \A v \in Nodes : color[v] = "white" => path[v] = 0 /\ nth[v] = 0 /\ cc[v] = 0
  /\ \A v \in Nodes : color[v] # "white" => disc[v] \in 1..clock /\ cc[v] \in 1..group
  /\ \A v \in Nodes : color[v] = "black" => /\ disc[v] < fin[v] /\ fin[v] <= clock
                                            /\ nth[v] = Len(adj[v])
  /\ \A u \in Nodes : \A v \in Looked(u) : color[v] # "white"
  /\ \A v \in Nodes : path[v] # 0 => /\ color[v] # "white" /\ color[path[v]] # "white"
                                     /\ v \in Children(path[v]) /\ disc[path[v]] < disc[v]

DagInv ==
  /\ refused => \E e \in Edges : OnCycle(e)
  /\ \A u, v \in Nodes : color[u] = "gray" /\ color[v] = "gray" /\ disc[u] <= disc[v]
                         => v \in Reach(Edges, u)
  /\ \A u \in Nodes : \A v \in Looked(u) :
       \/ color[v] = "black" /\ (color[u] = "black" => fin[v] < fin[u])
       \/ color[v] = "gray" /\ color[u] = "gray" /\ disc[u] < disc[v]

UagInv ==
  /\ \A u \in Nodes : \A v \in Looked(u) : path[v] = u
  /\ \A u, v \in Nodes : path[v] = u => v \in Looked(u)
  /\ \A v \in Nodes : path[v] # 0 => \E w \in Nodes : w < v /\ v \in Reach(Edges, w)
  /\ \A v \in Nodes : color[v] # "white" /\ path[v] = 0 => \A w \in Nodes : w < v => v \notin Reach(Edges, w)
  /\ stack # <<>> => /\ \A v \in Nodes : color[v] = "white" => stack[1] < v
                     /\ \A i \in 1..Len(stack) : stack[i] \in Reach(Edges, stack[1])
  /\ refused => ~(OneParent /\ FromEarlier)

CcInv == Undirected =>
  /\ \A v \in Nodes : color[v] = "gray" => cc[v] = group
  /\ stack = <<>> => \A v \in Nodes : cc[v] < group
  /\ \A u \in Nodes : \A v \in Looked(u) : cc[u] = cc[v]
  /\ \A u, v \in Nodes : color[u] # "white" /\ cc[u] = cc[v] => v \in Reach(Edges, u)

Backward(u, v) == /\ Tells(<<u, v>>) = {"back"} /\ disc[v] < disc[u]
                  /\ color[v] = "gray" \/ (color[u] = "black" /\ color[v] = "black" /\ fin[u] < fin[v])
Forward(u, v)  == /\ Tells(<<u, v>>) = {"forward"} /\ disc[u] < disc[v]
                  /\ color[v] = "black" /\ (color[u] = "gray" \/ fin[v] < fin[u])
Across(u, v)   == Tells(<<u, v>>) = {"cross"} /\ color[v] = "black" /\ fin[v] < disc[u]

EdgesInv ==
  /\ \A u, v \in Nodes : color[u] = "gray" /\ color[v] = "black" /\ disc[v] <= disc[u] => fin[v] < disc[u]
  /\ \A u \in Nodes : \A v \in Children(u) \ Looked(u) :
       Tells(<<u, v>>) = IF path[v] = u THEN {"tree"} ELSE {}
  /\ \A u \in Nodes : \A v \in Looked(u) : u \notin Children(v) =>
       IF path[v] = u THEN Tells(<<u, v>>) = {"tree", "forward"}
                      ELSE Backward(u, v) \/ Forward(u, v) \/ Across(u, v)

DepthInv == /\ StackInv /\ MarkInv /\ que = <<>>
            /\ search = "dag"   => DagInv
            /\ search = "uag"   => UagInv
            /\ search = "cc"    => CcInv
            /\ search = "edges" => EdgesInv

BreadthInv ==
  /\ stack = <<>> /\ start \in Nodes
  /\ \A v \in Nodes : color[v] = "gray" <=> \E i \in 1..Len(que) : que[i] = v
  /\ \A i, j \in 1..Len(que) : i < j => que[i] # que[j] /\ dist[que[i]] <= dist[que[j]]
  /\ \A i \in 1..Len(que) : dist[que[i]] <= dist[que[1]] + 1 /\ (i > 1 => nth[que[i]] = 0)
  /\ \A u \in Nodes : color[u] = "black" => \A i \in 1..Len(que) : dist[u] <= dist[que[i]]
  /\ \A u \in Nodes : color[u] = "black" =>
       \A v \in Children(u) : color[v] # "white" /\ dist[v] <= dist[u] + 1
  /\ que # <<>> => \A v \in Looked(que[1]) : color[v] # "white" /\ dist[v] <= dist[que[1]] + 1
  /\ color[start] # "white" /\ dist[start] = 0 /\ path[start] = 0
  /\ \A v \in Nodes : color[v] = "white" => dist[v] = Infinity /\ path[v] = 0 /\ nth[v] = 0
  /\ \A v \in Nodes : color[v] # "white" => dist[v] \in Nat /\ WalkTo(dist[v], v) /\ v \in Reach(Edges, start)
  /\ \A v \in Nodes : color[v] # "white" /\ v # start =>
       /\ path[v] # 0 /\ color[path[v]] # "white" /\ dist[v] = dist[path[v]] + 1
       /\ <<path[v], v>> \in Edges

Colorings == {c \in [Reach(Edges, start) -> {"white", "black"}] : Proper(c)}

ColorInv ==
  /\ stack = <<>> /\ start \in Nodes /\ color[start] = "white"
  /\ \A v \in Nodes : color[v] # "gray" => v \in passed \/ \E i \in 1..Len(que) : que[i] = v
  /\ \A i \in 1..Len(que) : color[que[i]] # "gray"
  /\ \A u \in passed : color[u] # "gray" /\ \A v \in Children(u) : color[v] = Neg(color[u])
  /\ \A u \in Nodes : \A v \in Looked(u) : color[v] = Neg(color[u])
  /\ \A u \in Nodes : nth[u] > 0 => que # <<>> /\ u = que[1]
  /\ start \in passed \/ (que # <<>> /\ que[1] = start)
  /\ \A v \in Nodes : color[v] # "gray" /\ v # start =>
       \E u \in Nodes : v \in Children(u) /\ color[u] # "gray" /\ color[v] = Neg(color[u])
  /\ \A v \in Nodes : color[v] # "gray" =>
       v \in Reach(Edges, start) /\ \A c \in Colorings : c[v] = c[start] <=> color[v] = "white"
  /\ refused => Colorings = {}

\* The parents of v that have yet to count it down.
Pending(v) == {u \in Parents(v) : u \notin Range(listed) /\ v \notin Looked(u)}

TopoInv ==
  /\ stack = <<>>
  /\ \A v \in Nodes : cnt[v] = Cardinality(Pending(v))
  /\ \A v \in Nodes : Pending(v) = {} <=> v \in Range(que) \union Range(listed)
  /\ \A i, j \in 1..Len(que) : i # j => que[i] # que[j]
  /\ \A i, j \in 1..Len(listed) : i # j => listed[i] # listed[j]
  /\ Range(que) \intersect Range(listed) = {}
  /\ \A u \in Nodes : nth[u] > 0 => que # <<>> /\ u = que[1]
  /\ \A v \in Range(que) \union Range(listed) : v \notin Parents(v)
  /\ \A j \in 1..Len(listed) : \A u \in Parents(listed[j]) : \E i \in 1..(j - 1) : listed[i] = u

GraphInd == /\ GraphTyped
            /\ search \in DepthFirst => DepthInv
            /\ search = "bfs" => BreadthInv
            /\ search = "wrestlers" /\ Undirected => ColorInv
            /\ search = "topo" => TopoInv

-----------------------------------------------------------------------------
(* The graphs                                                              *)

\* Graphs and the loops over children.
LEMMA GraphFacts ==
  ASSUME adj \in Graphs
  PROVE  /\ IsFiniteSet(Nodes) /\ Nodes \subseteq Nat \ {0}
         /\ \A u \in Nodes : /\ adj[u] \in Seq(Nodes) /\ Len(adj[u]) \in Nat
                             /\ Children(u) = {adj[u][i] : i \in 1..Len(adj[u])}
                             /\ Children(u) \subseteq Nodes
                             /\ \A i \in 1..Len(adj[u]) : adj[u][i] \in Children(u)
                             /\ \A i, j \in 1..Len(adj[u]) : adj[u][i] = adj[u][j] => i = j
<1>1. /\ IsFiniteSet(Nodes) /\ Nodes \subseteq Nat \ {0}
      /\ \A u \in Nodes : adj[u] \in Seq(Nodes) /\ IsInjective(adj[u])
  BY GraphsAssumption DEF Nodes
<1>2. ASSUME NEW u \in Nodes
      PROVE  /\ Len(adj[u]) \in Nat /\ DOMAIN adj[u] = 1..Len(adj[u])
             /\ \A i \in 1..Len(adj[u]) : adj[u][i] \in Nodes
  <2>1. adj[u] \in Seq(Nodes)
    BY <1>1
  <2> QED BY <2>1
<1>3. \A u \in Nodes : Children(u) = {adj[u][i] : i \in 1..Len(adj[u])}
  BY <1>2 DEF Children, Range
<1>4. \A u \in Nodes : \A i, j \in 1..Len(adj[u]) : adj[u][i] = adj[u][j] => i = j
  BY <1>1, <1>2 DEF IsInjective
<1> QED BY <1>1, <1>2, <1>3, <1>4

\* An edge leads to a child.
LEMMA EdgeIs ==
  ASSUME NEW u, NEW v
  PROVE  <<u, v>> \in Edges <=> u \in Nodes /\ v \in Nodes /\ v \in Children(u)
BY DEF Edges

\* What was looked at are children, none at first and all when a vertex is through.
LEMMA LookedIs ==
  ASSUME adj \in Graphs, nth \in [Nodes -> Nat], NEW u \in Nodes, nth[u] <= Len(adj[u])
  PROVE  /\ Looked(u) \subseteq Children(u) /\ Looked(u) \subseteq Nodes
         /\ nth[u] = 0 => Looked(u) = {}
         /\ Through(u) => Looked(u) = Children(u)
<1>1. /\ nth[u] \in Nat /\ Len(adj[u]) \in Nat /\ \A i \in 1..Len(adj[u]) : adj[u][i] \in Children(u)
      /\ Children(u) = {adj[u][i] : i \in 1..Len(adj[u])} /\ Children(u) \subseteq Nodes
  BY GraphFacts
<1>2. \A i \in 1..nth[u] : i \in 1..Len(adj[u])
  BY <1>1
<1>3. Looked(u) \subseteq Children(u)
  BY <1>1, <1>2 DEF Looked
<1>4. nth[u] = 0 => Looked(u) = {}
  <2>1. nth[u] = 0 => 1..nth[u] = {}
    BY <1>1
  <2> QED BY <2>1 DEF Looked
<1>5. Through(u) => Looked(u) = Children(u)
  BY <1>1 DEF Looked, Through
<1> QED BY <1>1, <1>3, <1>4, <1>5

\* Adding one to what was looked at.
LEMMA LooksAt ==
  ASSUME adj \in Graphs, nth \in [Nodes -> Nat], \A w \in Nodes : nth[w] <= Len(adj[w]),
         NEW u \in Nodes, NEW v, Looks(u, v)
  PROVE  v \in Nodes /\ v \in Children(u) /\ v \notin Looked(u)
<1>1. /\ nth[u] \in Nat /\ Len(adj[u]) \in Nat /\ \A i \in 1..Len(adj[u]) : adj[u][i] \in Children(u)
      /\ Children(u) \subseteq Nodes
      /\ \A i, j \in 1..Len(adj[u]) : adj[u][i] = adj[u][j] => i = j
  BY GraphFacts
<1>2. nth[u] + 1 \in 1..Len(adj[u]) /\ v = adj[u][nth[u] + 1]
  BY <1>1 DEF Looks
<1>3. \A i \in 1..nth[u] : i \in 1..Len(adj[u]) /\ i # nth[u] + 1
  BY <1>1, <1>2
<1> QED BY <1>1, <1>2, <1>3 DEF Looked

\* The loop over the children of u goes on, and no other one.
LEMMA Advanced ==
  ASSUME adj \in Graphs, nth \in [Nodes -> Nat], \A w \in Nodes : nth[w] <= Len(adj[w]),
         NEW u \in Nodes, NEW v, Looks(u, v), Advances(u), adj' = adj
  PROVE  /\ nth' \in [Nodes -> Nat] /\ \A w \in Nodes : nth'[w] <= Len(adj[w])
         /\ \A w \in Nodes : nth'[w] = IF w = u THEN nth[u] + 1 ELSE nth[w]
         /\ Looked(u)' = Looked(u) \union {v}
         /\ \A w \in Nodes \ {u} : Looked(w)' = Looked(w)
<1>1. /\ nth[u] \in Nat /\ Len(adj[u]) \in Nat /\ nth[u] < Len(adj[u]) /\ v = adj[u][nth[u] + 1]
  BY GraphFacts DEF Looks
<1>2. \A w \in Nodes : nth'[w] = IF w = u THEN nth[u] + 1 ELSE nth[w]
  BY DEF Advances
<1>3. nth' \in [Nodes -> Nat]
  BY <1>1, <1>2 DEF Advances
<1>4. \A w \in Nodes : nth'[w] <= Len(adj[w])
  BY <1>1, <1>2
<1>5. \A i : i \in 1..(nth[u] + 1) <=> i \in 1..nth[u] \/ i = nth[u] + 1
  BY <1>1
<1>6. Looked(u)' = {adj[u][i] : i \in 1..(nth[u] + 1)}
  BY <1>2 DEF Looked
<1>7. Looked(u)' = Looked(u) \union {v}
  BY <1>1, <1>5, <1>6 DEF Looked
<1>8. \A w \in Nodes \ {u} : Looked(w)' = Looked(w)
  BY <1>2 DEF Looked
<1> QED BY <1>2, <1>3, <1>4, <1>7, <1>8

\* What can be reached.
LEMMA ReachSelf == ASSUME NEW E, NEW u \in Nodes PROVE u \in Reach(E, u)
BY DEF Reach

\* What is reached goes on along an edge.
LEMMA ReachOn ==
  ASSUME NEW E, NEW u, NEW v, NEW w \in Nodes, v \in Reach(E, u), <<v, w>> \in E
  PROVE  w \in Reach(E, u)
<1> SUFFICES ASSUME NEW S \in SUBSET Nodes, u \in S, \A e \in E : e[1] \in S => e[2] \in S
             PROVE  w \in S
  BY DEF Reach
<1>1. v \in S
  BY DEF Reach
<1> QED BY <1>1

\* What is reached from what is reached is reached.
LEMMA ReachThrough ==
  ASSUME NEW E, NEW u, NEW v, NEW w, v \in Reach(E, u), w \in Reach(E, v)
  PROVE  w \in Reach(E, u)
BY DEF Reach

\* A set that no edge leaves is not left.
LEMMA ReachWithin ==
  ASSUME NEW E, NEW S \in SUBSET Nodes, NEW u \in S, NEW v \in Reach(E, u),
         \A e \in E : e[1] \in S => e[2] \in S
  PROVE  v \in S
BY DEF Reach

\* Only vertices are reached.
LEMMA ReachIsNode == ASSUME NEW E, NEW u, NEW v \in Reach(E, u) PROVE v \in Nodes
BY DEF Reach

\* As long as the graph stays the same, so does all that is said of it.
LEMMA SameGraph ==
  ASSUME adj' = adj
  PROVE  /\ Nodes' = Nodes /\ Edges' = Edges /\ Undirected' = Undirected
         /\ \A u : Children(u)' = Children(u) /\ Parents(u)' = Parents(u)
         /\ \A e : OnCycle(e)' = OnCycle(e)
         /\ \A E, u : Reach(E, u)' = Reach(E, u)
<1>1. Nodes' = Nodes /\ \A u : Children(u)' = Children(u)
  BY DEF Nodes, Children
<1>2. Edges' = Edges
  BY <1>1 DEF Edges
<1>3. \A E, u : Reach(E, u)' = Reach(E, u)
  BY <1>1 DEF Reach
<1> QED BY <1>1, <1>2, <1>3 DEF Undirected, Parents, OnCycle

-----------------------------------------------------------------------------
(* The graph programs: depth first                                         *)

\* A depth-first search under way, and what its steps leave alone.
Searching == GraphTyped /\ DepthInv /\ search \in DepthFirst /\ ~refused
Aside     == UNCHANGED <<adj, search, start, dist, que, passed, topoVars>>

\* What the invariant says of the search, without the actions.
LEMMA Entered ==
  ASSUME GraphTyped, NEW v \in Nodes, Enter(v)
  PROVE  /\ color' \in [Nodes -> Marks] /\ disc' \in [Nodes -> Nat] /\ cc' \in [Nodes -> Nat]
         /\ clock' \in Nat /\ clock' = clock + 1 /\ fin' = fin /\ group' = group /\ refused' = refused
         /\ \A w \in Nodes : color'[w] = IF w = v THEN "gray" ELSE color[w]
         /\ \A w \in Nodes : disc'[w] = IF w = v THEN clock + 1 ELSE disc[w]
         /\ \A w \in Nodes : cc'[w] = IF w = v THEN group ELSE cc[w]
         /\ stack' \in Seq(Nodes) /\ Len(stack) \in Nat /\ Len(stack') = Len(stack) + 1
         /\ \A i \in 1..Len(stack) : stack'[i] = stack[i]
         /\ stack'[Len(stack) + 1] = v
<1>1. /\ color \in [Nodes -> Marks] /\ disc \in [Nodes -> Nat] /\ cc \in [Nodes -> Nat]
      /\ clock \in Nat /\ stack \in Seq(Nodes) /\ group \in Nat
  BY DEF GraphTyped
<1>2. /\ color' = [color EXCEPT ![v] = "gray"] /\ clock' = clock + 1
      /\ disc' = [disc EXCEPT ![v] = clock + 1] /\ cc' = [cc EXCEPT ![v] = group]
      /\ stack' = Append(stack, v) /\ fin' = fin /\ group' = group /\ refused' = refused
  BY DEF Enter
<1>3. color' \in [Nodes -> Marks] /\ disc' \in [Nodes -> Nat] /\ cc' \in [Nodes -> Nat]
  BY <1>1, <1>2 DEF Marks
<1>4. /\ \A w \in Nodes : color'[w] = IF w = v THEN "gray" ELSE color[w]
      /\ \A w \in Nodes : disc'[w] = IF w = v THEN clock + 1 ELSE disc[w]
      /\ \A w \in Nodes : cc'[w] = IF w = v THEN group ELSE cc[w]
  BY <1>1, <1>2
<1>5. /\ stack' \in Seq(Nodes) /\ Len(stack) \in Nat /\ Len(stack') = Len(stack) + 1
      /\ \A i \in 1..Len(stack) : stack'[i] = stack[i]
      /\ stack'[Len(stack) + 1] = v
  BY <1>1, <1>2
<1> QED BY <1>1, <1>2, <1>3, <1>4, <1>5

\* The vertex on top of the stack, and the others on it.
LEMMA OnStack ==
  ASSUME Searching, stack # <<>>
  PROVE  /\ Here \in Nodes /\ Here = stack[Len(stack)] /\ Len(stack) \in Nat \ {0}
         /\ color[Here] = "gray" /\ disc[Here] \in Nat
         /\ \A v \in Nodes : color[v] = "gray" => v = Here \/ disc[v] < disc[Here]
         /\ \A i \in 1..Len(stack) : stack[i] \in Nodes /\ color[stack[i]] = "gray"
         /\ \A v \in Nodes : color[v] = "gray" => path[v] # Here
<1>1. /\ stack \in Seq(Nodes) /\ disc \in [Nodes -> Nat] /\ StackInv
  BY DEF Searching, GraphTyped, DepthInv
<1>2. Len(stack) \in Nat \ {0} /\ \A i \in 1..Len(stack) : stack[i] \in Nodes
  BY <1>1
<1>3. Here \in Nodes /\ Here = stack[Len(stack)] /\ disc[Here] \in Nat
  BY <1>1, <1>2 DEF Here
<1>4. \A i \in 1..Len(stack) : stack[i] \in Nodes /\ color[stack[i]] = "gray"
  BY <1>1, <1>2 DEF StackInv
<1>5. ASSUME NEW v \in Nodes, color[v] = "gray" PROVE v = Here \/ disc[v] < disc[Here]
  <2>1. PICK i \in 1..Len(stack) : stack[i] = v
    BY <1>1, <1>5 DEF StackInv
  <2>2. CASE i = Len(stack)
    BY <1>3, <2>1, <2>2
  <2>3. CASE i < Len(stack)
    <3>1. Len(stack) \in 1..Len(stack)
      BY <1>2
    <3> QED BY <1>1, <1>3, <2>1, <2>3, <3>1 DEF StackInv
  <2> QED BY <1>2, <2>1, <2>2, <2>3
<1>6. ASSUME NEW v \in Nodes, color[v] = "gray" PROVE path[v] # Here
  <2>1. PICK j \in 1..Len(stack) : stack[j] = v
    BY <1>1, <1>6 DEF StackInv
  <2>2. CASE j = 1
    <3>1. Here # 0
      BY <1>3, GraphFacts DEF Searching, GraphTyped
    <3> QED BY <1>1, <2>1, <2>2, <3>1 DEF StackInv
  <2>3. CASE j # 1
    <3>1. PICK i \in 1..(Len(stack) - 1) : j = i + 1
      BY <1>2, <2>1, <2>3
    <3>2. path[v] = stack[i]
      BY <1>1, <2>1, <3>1 DEF StackInv
    <3>3. i \in 1..Len(stack) /\ Len(stack) \in 1..Len(stack) /\ i < Len(stack)
      BY <1>2, <3>1
    <3>4. disc[stack[i]] < disc[Here]
      BY <1>1, <1>3, <3>3 DEF StackInv
    <3>5. disc[stack[i]] \in Nat
      BY <1>1, <1>2, <3>3
    <3> QED BY <1>3, <3>2, <3>4, <3>5
  <2> QED BY <2>2, <2>3
<1> QED BY <1>2, <1>3, <1>4, <1>5, <1>6

\* The vertex on top has its last child behind it.
LEMMA LeftTop ==
  ASSUME Searching, Leave
  PROVE  /\ stack # <<>> /\ Here \in Nodes /\ color' \in [Nodes -> Marks] /\ fin' \in [Nodes -> Nat]
         /\ clock' \in Nat /\ clock' = clock + 1
         /\ \A w \in Nodes : color'[w] = IF w = Here THEN "black" ELSE color[w]
         /\ \A w \in Nodes : fin'[w] = IF w = Here THEN clock + 1 ELSE fin[w]
         /\ stack' \in Seq(Nodes) /\ Len(stack) \in Nat \ {0} /\ Len(stack') = Len(stack) - 1
         /\ \A i \in 1..(Len(stack) - 1) : stack'[i] = stack[i]
         /\ Looked(Here) = Children(Here) /\ nth[Here] = Len(adj[Here])
         /\ path' = path /\ nth' = nth /\ disc' = disc /\ cc' = cc /\ refused' = refused /\ told' = told
         /\ group' = IF Len(stack) = 1 THEN group + 1 ELSE group
<1>1. /\ color \in [Nodes -> Marks] /\ fin \in [Nodes -> Nat] /\ clock \in Nat /\ stack \in Seq(Nodes)
      /\ adj \in Graphs /\ nth \in [Nodes -> Nat] /\ \A u \in Nodes : nth[u] <= Len(adj[u])
  BY DEF Searching, GraphTyped
<1>2. /\ color' = [color EXCEPT ![Here] = "black"] /\ clock' = clock + 1
      /\ fin' = [fin EXCEPT ![Here] = clock + 1] /\ stack' = SubSeq(stack, 1, Len(stack) - 1)
      /\ path' = path /\ nth' = nth /\ disc' = disc /\ cc' = cc /\ refused' = refused /\ told' = told
      /\ stack # <<>> /\ Through(Here) /\ group' = IF Len(stack) = 1 THEN group + 1 ELSE group
  BY DEF Leave
<1>3. Here \in Nodes /\ Len(stack) \in Nat \ {0}
  BY <1>2, OnStack
<1>4. color' \in [Nodes -> Marks] /\ fin' \in [Nodes -> Nat] /\ clock' \in Nat
  BY <1>1, <1>2, <1>3 DEF Marks
<1>5. /\ \A w \in Nodes : color'[w] = IF w = Here THEN "black" ELSE color[w]
      /\ \A w \in Nodes : fin'[w] = IF w = Here THEN clock + 1 ELSE fin[w]
  BY <1>1, <1>2, <1>3
<1>6. /\ stack' \in Seq(Nodes) /\ Len(stack') = Len(stack) - 1
      /\ \A i \in 1..(Len(stack) - 1) : stack'[i] = stack[i]
  <2> DEFINE n == Len(stack) - 1
  <2>1. n \in Nat /\ n <= Len(stack) /\ Len(stack) \in Nat
    BY <1>3
  <2>2. \A i \in 1..n : stack[i] \in Nodes
    BY <1>1, <1>3
  <2>3. stack' = [i \in 1..n |-> stack[i]]
    BY <1>1, <1>2, <2>1
  <2> HIDE DEF n
  <2>4. stack' \in Seq(Nodes) /\ Len(stack') = n /\ \A i \in 1..n : stack'[i] = stack[i]
    BY <2>1, <2>2, <2>3
  <2> QED BY <2>4 DEF n
<1>7. Looked(Here) = Children(Here) /\ nth[Here] = Len(adj[Here])
  BY <1>1, <1>2, <1>3, LookedIs DEF Through
<1> QED BY <1>2, <1>3, <1>4, <1>5, <1>6, <1>7

\* A vertex is entered, as the root of a tree or as a child of the one on top.
Enters(v) ==
  /\ color[v] = "white" /\ Enter(v)
  /\ \/ /\ stack = <<>> /\ UNCHANGED <<path, nth, told>>
        /\ \A w \in Nodes : color[w] = "white" => v <= w
     \/ /\ stack # <<>> /\ Looks(Here, v) /\ path' = [path EXCEPT ![v] = Here]
        /\ told' = told \union {<<<<Here, v>>, "tree">>}
        /\ IF search = "edges" THEN UNCHANGED nth ELSE Advances(Here)

\* A root and a child are entered alike.
LEMMA RootOrVisit == ASSUME Root \/ Visit PROVE \E v \in Nodes : Enters(v)
BY DEF Root, Visit, Enters

\* A longer stack and its last element.
LEMMA Growth ==
  ASSUME Searching, Aside, NEW v \in Nodes, Enters(v)
  PROVE  /\ path' \in [Nodes -> Nodes \union {0}]
         /\ nth' \in [Nodes -> Nat] /\ \A w \in Nodes : nth'[w] <= Len(adj[w])
         /\ \A w \in Nodes : w # v => path'[w] = path[w]
         /\ path'[v] = IF stack = <<>> THEN 0 ELSE Here
         /\ \A u \in Nodes : \A w \in Looked(u)' : w \in Looked(u) \/ (stack # <<>> /\ u = Here /\ w = v)
         /\ search = "edges" => \A u \in Nodes : Looked(u)' = Looked(u)
         /\ \A w \in Nodes : stack = <<>> \/ w # Here => nth'[w] = nth[w]
         /\ stack # <<>> => v \in Children(Here)
<1>1. /\ adj \in Graphs /\ nth \in [Nodes -> Nat] /\ \A w \in Nodes : nth[w] <= Len(adj[w])
      /\ path \in [Nodes -> Nodes \union {0}] /\ adj' = adj
  BY DEF Searching, GraphTyped, Aside
<1>2. nth' = nth => \A u \in Nodes : Looked(u)' = Looked(u)
  BY <1>1 DEF Looked
<1>3. CASE stack = <<>>
  <2>1. path' = path /\ nth' = nth
    BY <1>3 DEF Enters
  <2>2. path[v] = 0
    BY DEF Enters, Searching, DepthInv, MarkInv
  <2> QED BY <1>1, <1>2, <1>3, <2>1, <2>2
<1>4. CASE stack # <<>>
  <2>1. /\ Looks(Here, v) /\ path' = [path EXCEPT ![v] = Here] /\ Here \in Nodes
        /\ IF search = "edges" THEN UNCHANGED nth ELSE Advances(Here)
    BY <1>4, OnStack DEF Enters
  <2>2. path' \in [Nodes -> Nodes \union {0}] /\ (\A w \in Nodes : w # v => path'[w] = path[w]) /\ path'[v] = Here
    BY <1>1, <2>1
  <2>3. v \in Children(Here)
    BY <1>1, <2>1, LooksAt
  <2>4. CASE nth' = nth
    BY <1>1, <1>2, <1>4, <2>2, <2>3, <2>4
  <2>5. CASE search # "edges" /\ Advances(Here)
    <3>0. PICK h \in Nodes : h = Here
      BY <2>1
    <3>1. Looks(h, v) /\ Advances(h)
      BY <2>1, <2>5, <3>0
    <3>2. /\ nth' \in [Nodes -> Nat] /\ \A w \in Nodes : nth'[w] <= Len(adj[w])
          /\ \A w \in Nodes : nth'[w] = IF w = h THEN nth[h] + 1 ELSE nth[w]
          /\ Looked(h)' = Looked(h) \union {v}
          /\ \A w \in Nodes \ {h} : Looked(w)' = Looked(w)
      BY <1>1, <3>1, Advanced
    <3>3. ASSUME NEW u \in Nodes, NEW w \in Looked(u)'
          PROVE  w \in Looked(u) \/ (stack # <<>> /\ u = Here /\ w = v)
      BY <1>4, <3>0, <3>2, <3>3
    <3>4. \A w \in Nodes : w # Here => nth'[w] = nth[w]
      BY <3>0, <3>2
    <3> QED BY <1>4, <2>2, <2>3, <2>5, <3>2, <3>3, <3>4
  <2> QED BY <2>1, <2>4, <2>5
<1> QED BY <1>3, <1>4

\* Entering a vertex keeps the stack a path and the marks in step with it.
LEMMA EntersKept ==
  ASSUME Searching, Aside, NEW v \in Nodes, Enters(v)
  PROVE  StackInv' /\ MarkInv'
<1>0. GraphTyped /\ StackInv /\ MarkInv /\ adj' = adj /\ Nodes' = Nodes
  BY SameGraph DEF Searching, DepthInv, Aside
<1>1. /\ \A w \in Nodes : color'[w] = IF w = v THEN "gray" ELSE color[w]
      /\ \A w \in Nodes : disc'[w] = IF w = v THEN clock + 1 ELSE disc[w]
      /\ \A w \in Nodes : cc'[w] = IF w = v THEN group ELSE cc[w]
      /\ clock' = clock + 1 /\ fin' = fin /\ group' = group
      /\ Len(stack) \in Nat /\ Len(stack') = Len(stack) + 1
      /\ \A i \in 1..Len(stack) : stack'[i] = stack[i]
      /\ stack'[Len(stack) + 1] = v
  BY <1>0, Entered DEF Enters
<1>2. /\ \A w \in Nodes : w # v => path'[w] = path[w]
      /\ path'[v] = IF stack = <<>> THEN 0 ELSE Here
      /\ \A u \in Nodes : \A w \in Looked(u)' : w \in Looked(u) \/ (stack # <<>> /\ u = Here /\ w = v)
      /\ \A w \in Nodes : stack = <<>> \/ w # Here => nth'[w] = nth[w]
      /\ stack # <<>> => v \in Children(Here)
  BY Growth
<1>3. /\ color \in [Nodes -> Marks] /\ disc \in [Nodes -> Nat] /\ fin \in [Nodes -> Nat] /\ cc \in [Nodes -> Nat]
      /\ clock \in Nat /\ group \in Nat \ {0} /\ stack \in Seq(Nodes) /\ path \in [Nodes -> Nodes \union {0}]
      /\ adj \in Graphs /\ nth \in [Nodes -> Nat] /\ \A u \in Nodes : nth[u] <= Len(adj[u])
  BY <1>0 DEF GraphTyped
<1>4. color[v] = "white" /\ color'[v] = "gray" /\ path[v] = 0
  BY <1>0, <1>1 DEF Enters, MarkInv
<1>5. \A i \in 1..Len(stack) : /\ stack[i] \in Nodes /\ color[stack[i]] = "gray" /\ stack[i] # v
                               /\ disc[stack[i]] \in 1..clock
  <2>1. \A i \in 1..Len(stack) : stack[i] \in Nodes
    BY <1>3
  <2>2. \A i \in 1..Len(stack) : color[stack[i]] = "gray"
    BY <1>0, <2>1 DEF StackInv
  <2> QED BY <1>0, <1>4, <2>1, <2>2 DEF MarkInv
<1>6. stack # <<>> => /\ Len(stack) \in 1..Len(stack) /\ Here = stack[Len(stack)] /\ Here \in Nodes /\ Here # v
                      /\ color[Here] = "gray"
  BY <1>4, OnStack
<1>7. stack = <<>> => Len(stack) = 0
  OBVIOUS
<1>8. \A i : i \in 1..(Len(stack) + 1) <=> i \in 1..Len(stack) \/ i = Len(stack) + 1
  BY <1>1
<1>9. \A u : Children(u)' = Children(u)
  BY <1>0, SameGraph
<1>s. StackInv'
  <2>1. ASSUME NEW w \in Nodes PROVE color'[w] = "gray" <=> \E i \in 1..(Len(stack) + 1) : stack'[i] = w
    <3>1. CASE w = v
      BY <1>1, <1>8, <3>1
    <3>2. CASE w # v
      <4>1. color'[w] = color[w]
        BY <1>1, <3>2
      <4>2. color[w] = "gray" <=> \E i \in 1..Len(stack) : stack[i] = w
        BY <1>0 DEF StackInv
      <4> QED BY <1>1, <1>8, <3>2, <4>1, <4>2
    <3> QED BY <3>1, <3>2
  <2>2. ASSUME NEW i \in 1..(Len(stack) + 1), NEW j \in 1..(Len(stack) + 1), i < j
        PROVE  disc'[stack'[i]] < disc'[stack'[j]]
    <3>1. i \in 1..Len(stack)
      BY <1>1, <2>2
    <3>2. disc'[stack'[i]] = disc[stack[i]] /\ disc[stack[i]] \in 1..clock
      BY <1>1, <1>5, <3>1
    <3>3. CASE j = Len(stack) + 1
      <4>1. disc'[stack'[j]] = clock + 1
        BY <1>1, <3>3
      <4> QED BY <1>3, <3>2, <4>1
    <3>4. CASE j \in 1..Len(stack)
      <4>1. disc'[stack'[j]] = disc[stack[j]]
        BY <1>1, <1>5, <3>4
      <4>2. disc[stack[i]] < disc[stack[j]]
        BY <1>0, <2>2, <3>1, <3>4 DEF StackInv
      <4> QED BY <3>2, <4>1, <4>2
    <3> QED BY <1>8, <3>3, <3>4
  <2>3. ASSUME NEW i \in 1..Len(stack)
        PROVE  path'[stack'[i + 1]] = stack'[i] /\ stack'[i + 1] \in Children(stack'[i])
    <3>1. stack'[i] = stack[i]
      BY <1>1
    <3>2. CASE i = Len(stack)
      <4>1. stack # <<>>
        BY <1>1, <1>7
      <4>2. stack'[i + 1] = v /\ stack[i] = Here
        BY <1>1, <1>6, <3>2, <4>1
      <4> QED BY <1>2, <3>1, <4>1, <4>2
    <3>3. CASE i # Len(stack)
      <4>1. i \in 1..(Len(stack) - 1) /\ i + 1 \in 1..Len(stack)
        BY <1>1, <3>3
      <4>2. stack'[i + 1] = stack[i + 1] /\ stack[i + 1] # v /\ stack[i + 1] \in Nodes
        BY <1>1, <1>5, <4>1
      <4>3. path[stack[i + 1]] = stack[i] /\ stack[i + 1] \in Children(stack[i])
        BY <1>0, <4>1 DEF StackInv
      <4> QED BY <1>2, <3>1, <4>2, <4>3
    <3> QED BY <3>2, <3>3
  <2>4. path'[stack'[1]] = 0
    <3>1. CASE stack = <<>>
      BY <1>1, <1>2, <1>7, <3>1
    <3>2. CASE stack # <<>>
      <4>1. 1 \in 1..Len(stack) /\ path[stack[1]] = 0
        BY <1>0, <1>6, <3>2 DEF StackInv
      <4> QED BY <1>1, <1>2, <1>5, <4>1
    <3> QED BY <3>1, <3>2
  <2>5. (Len(stack'))- 1 = Len(stack)
    BY <1>1
  <2> QED BY <1>0, <1>1, <1>9, <2>1, <2>2, <2>3, <2>4, <2>5 DEF StackInv
<1>m. MarkInv'
  <2>1. \A w \in Nodes : color'[w] = "white" => w # v /\ color[w] = "white" /\ (stack = <<>> \/ w # Here)
    BY <1>1, <1>6
  <2>2. \A w \in Nodes : color'[w] = "white" => path'[w] = 0 /\ nth'[w] = 0 /\ cc'[w] = 0
    BY <1>0, <1>1, <1>2, <2>1 DEF MarkInv
  <2>3. ASSUME NEW w \in Nodes, color'[w] # "white" PROVE disc'[w] \in 1..clock' /\ cc'[w] \in 1..group'
    <3>1. CASE w = v
      BY <1>1, <1>3, <3>1
    <3>2. CASE w # v
      <4>1. disc[w] \in 1..clock /\ cc[w] \in 1..group
        BY <1>0, <1>1, <2>3, <3>2 DEF MarkInv
      <4> QED BY <1>1, <1>3, <3>2, <4>1
    <3> QED BY <3>1, <3>2
  <2>4. ASSUME NEW w \in Nodes, color'[w] = "black"
        PROVE  disc'[w] < fin'[w] /\ fin'[w] <= clock' /\ nth'[w] = Len(adj[w])
    <3>1. w # v /\ color[w] = "black" /\ (stack = <<>> \/ w # Here)
      BY <1>1, <1>4, <1>6, <2>4
    <3>2. disc[w] < fin[w] /\ fin[w] <= clock /\ nth[w] = Len(adj[w]) /\ fin[w] \in Nat
      BY <1>0, <1>3, <3>1 DEF MarkInv
    <3>3. disc'[w] = disc[w] /\ fin'[w] = fin[w] /\ nth'[w] = nth[w]
      BY <1>1, <1>2, <3>1
    <3> QED BY <1>1, <1>3, <3>2, <3>3
  <2>5. ASSUME NEW u \in Nodes, NEW w \in Looked(u)' PROVE color'[w] # "white"
    <3>1. w = v \/ (w \in Looked(u) /\ w \in Nodes)
      BY <1>2, <1>3, LookedIs
    <3>2. w \in Looked(u) => color[w] # "white"
      BY <1>0 DEF MarkInv
    <3> QED BY <1>1, <1>4, <3>1, <3>2
  <2>6. ASSUME NEW w \in Nodes, path'[w] # 0
        PROVE  /\ color'[w] # "white" /\ color'[path'[w]] # "white"
               /\ w \in Children(path'[w]) /\ disc'[path'[w]] < disc'[w]
    <3>1. CASE w = v
      <4>1. stack # <<>> /\ path'[w] = Here
        BY <1>2, <2>6, <3>1
      <4>2. PICK h \in Nodes : h = Here
        BY <1>6, <4>1
      <4>3. disc[h] \in 1..clock /\ h # v /\ color[h] = "gray" /\ path'[w] = h /\ w \in Children(h)
        BY <1>2, <1>5, <1>6, <3>1, <4>1, <4>2
      <4>4. disc'[h] = disc[h] /\ disc'[w] = clock + 1 /\ color'[h] = "gray" /\ color'[w] = "gray"
        BY <1>1, <3>1, <4>3
      <4> QED BY <1>3, <4>3, <4>4
    <3>2. CASE w # v
      <4>1. path'[w] = path[w] /\ path[w] # 0 /\ path[w] \in Nodes
        BY <1>2, <1>3, <2>6, <3>2
      <4>2. /\ color[w] # "white" /\ color[path[w]] # "white"
            /\ w \in Children(path[w]) /\ disc[path[w]] < disc[w]
        BY <1>0, <4>1 DEF MarkInv
      <4> QED BY <1>1, <1>4, <3>2, <4>1, <4>2
    <3> QED BY <3>1, <3>2
  <2> QED BY <1>0, <1>9, <2>2, <2>3, <2>4, <2>5, <2>6 DEF MarkInv
<1> QED BY <1>s, <1>m

\* So does leaving the one on top,
LEMMA LeaveKept ==
  ASSUME Searching, Aside, Leave
  PROVE  StackInv' /\ MarkInv'
<1>0. GraphTyped /\ StackInv /\ MarkInv /\ adj' = adj /\ Nodes' = Nodes
  BY SameGraph DEF Searching, DepthInv, Aside
<1> PICK h : h = Here
  OBVIOUS
<1>1. /\ stack # <<>> /\ h \in Nodes /\ clock' = clock + 1
      /\ \A w \in Nodes : color'[w] = IF w = h THEN "black" ELSE color[w]
      /\ \A w \in Nodes : fin'[w] = IF w = h THEN clock + 1 ELSE fin[w]
      /\ Len(stack) \in Nat \ {0} /\ Len(stack') = Len(stack) - 1
      /\ \A i \in 1..(Len(stack) - 1) : stack'[i] = stack[i]
      /\ nth[h] = Len(adj[h])
      /\ path' = path /\ nth' = nth /\ disc' = disc /\ cc' = cc
      /\ group' = IF Len(stack) = 1 THEN group + 1 ELSE group
  BY LeftTop
<1>2. /\ h = stack[Len(stack)] /\ color[h] = "gray" /\ disc[h] \in Nat
      /\ \A i \in 1..Len(stack) : stack[i] \in Nodes /\ color[stack[i]] = "gray"
  BY <1>1, OnStack
<1>3. /\ color \in [Nodes -> Marks] /\ disc \in [Nodes -> Nat] /\ fin \in [Nodes -> Nat] /\ cc \in [Nodes -> Nat]
      /\ clock \in Nat /\ group \in Nat \ {0} /\ path \in [Nodes -> Nodes \union {0}]
  BY <1>0 DEF GraphTyped
<1>4. \A i \in 1..(Len(stack) - 1) : i \in 1..Len(stack) /\ i < Len(stack)
  BY <1>1
<1>5. \A i \in 1..(Len(stack) - 1) : stack[i] # h
  <2>1. \A i \in 1..(Len(stack) - 1) : disc[stack[i]] < disc[stack[Len(stack)]]
    <3>1. Len(stack) \in 1..Len(stack)
      BY <1>1
    <3> QED BY <1>0, <1>4, <3>1 DEF StackInv
  <2> QED BY <1>2, <2>1
<1>6. Looked(h)' = Looked(h) /\ \A u : Looked(u)' = Looked(u)
  BY <1>0, <1>1 DEF Looked
<1>9. \A u : Children(u)' = Children(u)
  BY <1>0, SameGraph
<1>s. StackInv'
  <2>1. ASSUME NEW w \in Nodes PROVE color'[w] = "gray" <=> \E i \in 1..(Len(stack) - 1) : stack'[i] = w
    <3>1. color[w] = "gray" <=> \E i \in 1..Len(stack) : stack[i] = w
      BY <1>0 DEF StackInv
    <3>2. \A i \in 1..Len(stack) : i \in 1..(Len(stack) - 1) \/ i = Len(stack)
      BY <1>1
    <3>3. CASE w = h
      BY <1>1, <1>5, <3>3
    <3>4. CASE w # h
      BY <1>1, <1>2, <1>4, <3>1, <3>2, <3>4
    <3> QED BY <3>3, <3>4
  <2>2. ASSUME NEW i \in 1..(Len(stack) - 1), NEW j \in 1..(Len(stack) - 1), i < j
        PROVE  disc'[stack'[i]] < disc'[stack'[j]]
    BY <1>0, <1>1, <1>4, <2>2 DEF StackInv
  <2>3. ASSUME NEW i \in 1..((Len(stack) - 1) - 1)
        PROVE  path'[stack'[i + 1]] = stack'[i] /\ stack'[i + 1] \in Children(stack'[i])
    <3>1. i \in 1..(Len(stack) - 1) /\ i + 1 \in 1..(Len(stack) - 1)
      BY <1>1
    <3> QED BY <1>0, <1>1, <3>1 DEF StackInv
  <2>4. stack' # <<>> => path'[stack'[1]] = 0
    <3>1. ASSUME stack' # <<>> PROVE 1 \in 1..(Len(stack) - 1)
      <4>1. stack' \in Seq(Nodes)
        BY LeftTop
      <4> QED BY <1>1, <3>1, <4>1
    <3> QED BY <1>0, <1>1, <3>1 DEF StackInv
  <2> QED BY <1>0, <1>1, <1>9, <2>1, <2>2, <2>3, <2>4 DEF StackInv
<1>m. MarkInv'
  <2>1. \A w \in Nodes : color'[w] = "white" <=> color[w] = "white"
    BY <1>1, <1>2
  <2>2. \A w \in Nodes : color'[w] = "white" => path'[w] = 0 /\ nth'[w] = 0 /\ cc'[w] = 0
    BY <1>0, <1>1, <2>1 DEF MarkInv
  <2>3. ASSUME NEW w \in Nodes, color'[w] # "white" PROVE disc'[w] \in 1..clock' /\ cc'[w] \in 1..group'
    <3>1. disc[w] \in 1..clock /\ cc[w] \in 1..group
      BY <1>0, <2>1, <2>3 DEF MarkInv
    <3> QED BY <1>1, <1>3, <3>1
  <2>4. ASSUME NEW w \in Nodes, color'[w] = "black"
        PROVE  disc'[w] < fin'[w] /\ fin'[w] <= clock' /\ nth'[w] = Len(adj[w])
    <3>1. CASE w = h
      <4>1. disc[h] \in 1..clock
        BY <1>0, <1>1, <1>2 DEF MarkInv
      <4> QED BY <1>1, <1>3, <3>1, <4>1
    <3>2. CASE w # h
      <4>1. color[w] = "black" /\ fin'[w] = fin[w] /\ fin[w] \in Nat
        BY <1>1, <1>3, <2>4, <3>2
      <4>2. disc[w] < fin[w] /\ fin[w] <= clock /\ nth[w] = Len(adj[w])
        BY <1>0, <4>1 DEF MarkInv
      <4> QED BY <1>1, <1>3, <4>1, <4>2
    <3> QED BY <3>1, <3>2
  <2>5. ASSUME NEW u \in Nodes, NEW w \in Looked(u)' PROVE color'[w] # "white"
    <3>1. /\ nth[u] <= Len(adj[u]) /\ nth \in [Nodes -> Nat] /\ adj \in Graphs
      BY <1>0 DEF GraphTyped
    <3>2. w \in Looked(u) /\ w \in Nodes
      BY <1>6, <3>1, LookedIs
    <3> QED BY <1>0, <2>1, <3>2 DEF MarkInv
  <2>6. ASSUME NEW w \in Nodes, path'[w] # 0
        PROVE  /\ color'[w] # "white" /\ color'[path'[w]] # "white"
               /\ w \in Children(path'[w]) /\ disc'[path'[w]] < disc'[w]
    <3>1. path'[w] = path[w] /\ path[w] # 0 /\ path[w] \in Nodes
      BY <1>1, <1>3, <2>6
    <3>2. /\ color[w] # "white" /\ color[path[w]] # "white"
          /\ w \in Children(path[w]) /\ disc[path[w]] < disc[w]
      BY <1>0, <3>1 DEF MarkInv
    <3> QED BY <1>1, <2>1, <3>1, <3>2
  <2> QED BY <1>0, <1>9, <2>2, <2>3, <2>4, <2>5, <2>6 DEF MarkInv
<1> QED BY <1>s, <1>m

\* A look at a child that has been visited.
LEMMA Passes ==
  ASSUME Searching, Aside, Pass
  PROVE  \E h, v \in Nodes :
           /\ h = Here /\ stack # <<>> /\ color[v] # "white" /\ ~Refuses(v) /\ v \in Children(h) /\ v \notin Looked(h)
           /\ told' = told \union {<<<<h, v>>, Said(h, v)>>}
           /\ nth' \in [Nodes -> Nat] /\ \A w \in Nodes : nth'[w] <= Len(adj[w])
           /\ \A w \in Nodes : w # h => nth'[w] = nth[w]
           /\ Looked(h)' = Looked(h) \union {v} /\ \A w \in Nodes \ {h} : Looked(w)' = Looked(w)
           /\ UNCHANGED <<color, path, disc, fin, cc, stack, clock, group, refused>>
<1>1. /\ adj \in Graphs /\ nth \in [Nodes -> Nat] /\ \A w \in Nodes : nth[w] <= Len(adj[w]) /\ adj' = adj
  BY DEF Searching, GraphTyped, Aside
<1>2. stack # <<>> /\ UNCHANGED <<color, path, disc, fin, cc, stack, clock, group, refused>> /\ Advances(Here)
  BY DEF Pass
<1>3. PICK h \in Nodes : h = Here
  BY <1>2, OnStack
<1>4. PICK v \in Nodes : /\ Looks(h, v) /\ color[v] # "white" /\ ~Refuses(v)
                         /\ told' = told \union {<<<<h, v>>, Said(h, v)>>}
  BY <1>3 DEF Pass
<1>5. Advances(h)
  BY <1>2, <1>3
<1>6. v \in Children(h) /\ v \notin Looked(h)
  BY <1>1, <1>4, LooksAt
<1>7. /\ nth' \in [Nodes -> Nat] /\ \A w \in Nodes : nth'[w] <= Len(adj[w])
      /\ \A w \in Nodes : nth'[w] = IF w = h THEN nth[h] + 1 ELSE nth[w]
      /\ Looked(h)' = Looked(h) \union {v} /\ \A w \in Nodes \ {h} : Looked(w)' = Looked(w)
  BY <1>1, <1>4, <1>5, Advanced
<1> QED BY <1>2, <1>3, <1>4, <1>6, <1>7

\* and so does a look at a child that has been visited.
LEMMA PassKept ==
  ASSUME Searching, Aside, Pass
  PROVE  StackInv' /\ MarkInv'
<1>0. GraphTyped /\ StackInv /\ MarkInv /\ adj' = adj /\ Nodes' = Nodes /\ \A u : Children(u)' = Children(u)
  BY SameGraph DEF Searching, DepthInv, Aside
<1>1. PICK h \in Nodes, v \in Nodes :
           /\ h = Here /\ stack # <<>> /\ color[v] # "white"
           /\ \A w \in Nodes : w # h => nth'[w] = nth[w]
           /\ Looked(h)' = Looked(h) \union {v} /\ \A w \in Nodes \ {h} : Looked(w)' = Looked(w)
           /\ UNCHANGED <<color, path, disc, fin, cc, stack, clock, group, refused>>
  BY Passes
<1>2. color[h] = "gray"
  BY <1>1, OnStack
<1>3. StackInv'
  BY <1>0, <1>1 DEF StackInv
<1>4. MarkInv'
  <2>1. \A w \in Nodes : color'[w] = "white" => path'[w] = 0 /\ nth'[w] = 0 /\ cc'[w] = 0
    BY <1>0, <1>1, <1>2 DEF MarkInv
  <2>2. \A w \in Nodes : color'[w] # "white" => disc'[w] \in 1..clock' /\ cc'[w] \in 1..group'
    BY <1>0, <1>1 DEF MarkInv
  <2>3. \A w \in Nodes : color'[w] = "black" => disc'[w] < fin'[w] /\ fin'[w] <= clock' /\ nth'[w] = Len(adj[w])
    BY <1>0, <1>1, <1>2 DEF MarkInv
  <2>4. ASSUME NEW u \in Nodes, NEW w \in Looked(u)' PROVE color'[w] # "white"
    BY <1>0, <1>1, <2>4 DEF MarkInv
  <2>5. ASSUME NEW w \in Nodes, path'[w] # 0
        PROVE  /\ color'[w] # "white" /\ color'[path'[w]] # "white"
               /\ w \in Children(path'[w]) /\ disc'[path'[w]] < disc'[w]
    BY <1>0, <1>1, <2>5 DEF MarkInv
  <2> QED BY <1>0, <2>1, <2>2, <2>3, <2>4, <2>5 DEF MarkInv
<1> QED BY <1>3, <1>4

\* What is used of an action in the invariants of the single programs.
LEMMA EntersIs ==
  ASSUME Searching, Aside, NEW v \in Nodes, Enters(v)
  PROVE  /\ color[v] = "white" /\ color'[v] = "gray" /\ disc'[v] = clock + 1 /\ cc'[v] = group
         /\ \A w \in Nodes : w # v => color'[w] = color[w] /\ disc'[w] = disc[w] /\ cc'[w] = cc[w] /\ path'[w] = path[w]
         /\ clock \in Nat /\ fin' = fin /\ group' = group /\ refused' = refused
         /\ path[v] = 0 /\ path'[v] = IF stack = <<>> THEN 0 ELSE Here
         /\ \A u \in Nodes : \A w \in Looked(u) : w # v /\ u # v /\ w \in Nodes
         /\ \A u \in Nodes : \A w \in Looked(u)' : w \in Looked(u) \/ (stack # <<>> /\ u = Here /\ w = v)
         /\ search = "edges" => \A u \in Nodes : Looked(u)' = Looked(u)
         /\ stack # <<>> => v \in Children(Here) /\ Here # v /\ Here \in Nodes /\ color[Here] = "gray"
         /\ \A w \in Nodes : color[w] # "white" => disc[w] \in 1..clock
         /\ \A w \in Nodes : color[w] = "black" => fin[w] <= clock
         /\ stack = <<>> => \A w \in Nodes : color[w] # "gray"
<1>1. GraphTyped /\ StackInv /\ MarkInv
  BY DEF Searching, DepthInv
<1>2. Enter(v) /\ color[v] = "white"
  BY DEF Enters
<1>3. /\ color'[v] = "gray" /\ disc'[v] = clock + 1 /\ cc'[v] = group
      /\ \A w \in Nodes : w # v => color'[w] = color[w] /\ disc'[w] = disc[w] /\ cc'[w] = cc[w]
      /\ clock \in Nat /\ fin' = fin /\ group' = group /\ refused' = refused
  BY <1>1, <1>2, Entered DEF GraphTyped
<1>4. path[v] = 0 /\ path'[v] = (IF stack = <<>> THEN 0 ELSE Here) /\ \A w \in Nodes : w # v => path'[w] = path[w]
  BY <1>1, <1>2, Growth DEF MarkInv
<1>5. ASSUME NEW u \in Nodes, NEW w \in Looked(u) PROVE w # v /\ u # v /\ w \in Nodes
  <2>1. adj \in Graphs /\ nth \in [Nodes -> Nat] /\ nth[u] <= Len(adj[u])
    BY <1>1 DEF GraphTyped
  <2>2. w \in Nodes /\ nth[u] # 0
    BY <1>5, <2>1, LookedIs
  <2>3. color[w] # "white" /\ nth[v] = 0
    BY <1>1, <1>2, <2>2 DEF MarkInv
  <2> QED BY <1>2, <2>2, <2>3
<1>6. stack # <<>> => v \in Children(Here) /\ Here # v /\ Here \in Nodes /\ color[Here] = "gray"
  BY <1>2, Growth, OnStack
<1>7. stack = <<>> => \A w \in Nodes : color[w] # "gray"
  BY <1>1 DEF StackInv
<1>8. /\ \A w \in Nodes : color[w] # "white" => disc[w] \in 1..clock
      /\ \A w \in Nodes : color[w] = "black" => fin[w] <= clock
  BY <1>1 DEF MarkInv
<1>9. /\ \A u \in Nodes : \A w \in Looked(u)' : w \in Looked(u) \/ (stack # <<>> /\ u = Here /\ w = v)
      /\ search = "edges" => \A u \in Nodes : Looked(u)' = Looked(u)
  BY Growth
<1> QED BY <1>2, <1>3, <1>4, <1>5, <1>6, <1>7, <1>8, <1>9

\* The same of leaving a vertex,
LEMMA LeaveIs ==
  ASSUME Searching, Aside, Leave
  PROVE  \E h \in Nodes :
           /\ h = Here /\ stack # <<>> /\ color[h] = "gray" /\ color'[h] = "black" /\ fin'[h] = clock + 1
           /\ \A w \in Nodes : w # h => color'[w] = color[w] /\ fin'[w] = fin[w]
           /\ \A w \in Nodes : color[w] = "gray" => w = h \/ disc[w] < disc[h]
           /\ Looked(h) = Children(h) /\ \A u : Looked(u)' = Looked(u)
           /\ \A u \in Nodes : Looked(u) \subseteq Nodes
           /\ path' = path /\ disc' = disc /\ cc' = cc /\ refused' = refused /\ told' = told
           /\ disc \in [Nodes -> Nat] /\ fin \in [Nodes -> Nat] /\ clock \in Nat
           /\ \A w \in Nodes : color[w] = "black" => fin[w] <= clock
           /\ \A u \in Nodes : \A w \in Looked(u) : color[u] # "white" /\ color[w] # "white"
<1>1. GraphTyped /\ StackInv /\ MarkInv /\ adj' = adj
  BY DEF Searching, DepthInv, Aside
<1>2. /\ stack # <<>> /\ Here \in Nodes
      /\ \A w \in Nodes : color'[w] = IF w = Here THEN "black" ELSE color[w]
      /\ \A w \in Nodes : fin'[w] = IF w = Here THEN clock + 1 ELSE fin[w]
      /\ Looked(Here) = Children(Here)
      /\ path' = path /\ nth' = nth /\ disc' = disc /\ cc' = cc /\ refused' = refused /\ told' = told
  BY LeftTop
<1>3. color[Here] = "gray" /\ \A w \in Nodes : color[w] = "gray" => w = Here \/ disc[w] < disc[Here]
  BY <1>2, OnStack
<1>4. \A u : Looked(u)' = Looked(u)
  BY <1>1, <1>2 DEF Looked
<1>5. disc \in [Nodes -> Nat] /\ fin \in [Nodes -> Nat] /\ clock \in Nat
  BY <1>1 DEF GraphTyped
<1>6. ASSUME NEW u \in Nodes PROVE Looked(u) \subseteq Nodes /\ (nth[u] = 0 => Looked(u) = {})
  <2>1. adj \in Graphs /\ nth \in [Nodes -> Nat] /\ nth[u] <= Len(adj[u])
    BY <1>1 DEF GraphTyped
  <2> QED BY <2>1, LookedIs
<1>7. \A w \in Nodes : color[w] = "black" => fin[w] <= clock
  BY <1>1 DEF MarkInv
<1>8. \A u \in Nodes : \A w \in Looked(u) : color[u] # "white" /\ color[w] # "white"
  BY <1>1, <1>6 DEF MarkInv
<1> QED BY <1>2, <1>3, <1>4, <1>5, <1>6, <1>7, <1>8

\* and of a look at a child.
LEMMA PassIs ==
  ASSUME Searching, Aside, Pass
  PROVE  \E h, v \in Nodes :
           /\ h = Here /\ stack # <<>> /\ color[h] = "gray" /\ color[v] # "white" /\ ~Refuses(v)
           /\ v \in Children(h) /\ v \notin Looked(h)
           /\ told' = told \union {<<<<h, v>>, Said(h, v)>>}
           /\ Looked(h)' = Looked(h) \union {v} /\ \A w \in Nodes \ {h} : Looked(w)' = Looked(w)
           /\ UNCHANGED <<color, path, disc, fin, cc, stack, clock, group, refused>>
<1>1. PICK h \in Nodes, v \in Nodes :
           /\ h = Here /\ stack # <<>> /\ color[v] # "white" /\ ~Refuses(v) /\ v \in Children(h) /\ v \notin Looked(h)
           /\ told' = told \union {<<<<h, v>>, Said(h, v)>>}
           /\ Looked(h)' = Looked(h) \union {v} /\ \A w \in Nodes \ {h} : Looked(w)' = Looked(w)
           /\ UNCHANGED <<color, path, disc, fin, cc, stack, clock, group, refused>>
  BY Passes
<1>2. color[h] = "gray"
  BY <1>1, OnStack
<1> QED BY <1>1, <1>2

-----------------------------------------------------------------------------
\* find-simple-paths.py: a vertex that is entered is led to by all on the stack.
LEMMA DagEnters ==
  ASSUME Searching, Aside, search = "dag", DagInv, NEW v \in Nodes, Enters(v)
  PROVE  DagInv'
<1>0. Nodes' = Nodes /\ Edges' = Edges /\ (\A e : OnCycle(e)' = OnCycle(e)) /\ \A E, u : Reach(E, u)' = Reach(E, u)
  BY SameGraph DEF Aside
<1>1. /\ color[v] = "white" /\ color'[v] = "gray" /\ disc'[v] = clock + 1
      /\ \A w \in Nodes : w # v => color'[w] = color[w] /\ disc'[w] = disc[w]
      /\ clock \in Nat /\ fin' = fin /\ refused' = refused
      /\ \A u \in Nodes : \A w \in Looked(u) : w # v /\ u # v /\ w \in Nodes
      /\ \A u \in Nodes : \A w \in Looked(u)' : w \in Looked(u) \/ (stack # <<>> /\ u = Here /\ w = v)
      /\ stack # <<>> => v \in Children(Here) /\ Here # v /\ Here \in Nodes /\ color[Here] = "gray"
      /\ \A w \in Nodes : color[w] # "white" => disc[w] \in 1..clock
      /\ stack = <<>> => \A w \in Nodes : color[w] # "gray"
  BY EntersIs
<1>2. stack # <<>> => <<Here, v>> \in Edges
  BY <1>1, EdgeIs
<1>3. ASSUME NEW u \in Nodes, NEW w \in Nodes, color'[u] = "gray", color'[w] = "gray", disc'[u] <= disc'[w]
      PROVE  w \in Reach(Edges, u)
  <2>1. CASE u = w
    BY <2>1, ReachSelf
  <2>2. CASE u # v /\ w # v
    BY <1>1, <1>3, <2>2 DEF DagInv
  <2>3. CASE u = v /\ w # v
    <3>1. disc[w] \in 1..clock /\ disc'[w] = disc[w]
      BY <1>1, <1>3, <2>3
    <3> QED BY <1>1, <1>3, <2>3, <3>1
  <2>4. CASE u # v /\ w = v
    <3>1. color[u] = "gray" /\ stack # <<>> /\ disc[u] \in 1..clock
      BY <1>1, <1>3, <2>4
    <3>2. u = Here \/ disc[u] < disc[Here]
      BY <3>1, OnStack
    <3>3. disc[u] <= disc[Here]
      BY <1>1, <3>1, <3>2
    <3>4. Here \in Reach(Edges, u)
      BY <1>1, <3>1, <3>3 DEF DagInv
    <3> QED BY <1>2, <2>4, <3>1, <3>4, ReachOn
  <2> QED BY <2>1, <2>2, <2>3, <2>4
<1>4. ASSUME NEW u \in Nodes, NEW w \in Looked(u)'
      PROVE  \/ color'[w] = "black" /\ (color'[u] = "black" => fin'[w] < fin'[u])
             \/ color'[w] = "gray" /\ color'[u] = "gray" /\ disc'[u] < disc'[w]
  <2>1. CASE w \in Looked(u)
    BY <1>1, <2>1 DEF DagInv
  <2>2. CASE stack # <<>> /\ u = Here /\ w = v
    <3>1. color[u] = "gray" /\ u # v /\ disc[u] \in 1..clock
      BY <1>1, <2>2
    <3> QED BY <1>1, <2>2, <3>1
  <2> QED BY <1>1, <2>1, <2>2
<1>5. refused' => \E e \in Edges : OnCycle(e)
  BY <1>1 DEF DagInv
<1> QED BY <1>0, <1>3, <1>4, <1>5 DEF DagInv

\* A vertex is finished after all its children.
LEMMA DagLeave ==
  ASSUME Searching, Aside, search = "dag", DagInv, Leave
  PROVE  DagInv'
<1>0. Nodes' = Nodes /\ Edges' = Edges /\ (\A e : OnCycle(e)' = OnCycle(e)) /\ \A E, u : Reach(E, u)' = Reach(E, u)
  BY SameGraph DEF Aside
<1>1. PICK h \in Nodes :
           /\ color[h] = "gray" /\ color'[h] = "black" /\ fin'[h] = clock + 1
           /\ \A w \in Nodes : w # h => color'[w] = color[w] /\ fin'[w] = fin[w]
           /\ \A w \in Nodes : color[w] = "gray" => w = h \/ disc[w] < disc[h]
           /\ \A u : Looked(u)' = Looked(u)
           /\ \A u \in Nodes : Looked(u) \subseteq Nodes
           /\ disc' = disc /\ refused' = refused
           /\ disc \in [Nodes -> Nat] /\ fin \in [Nodes -> Nat] /\ clock \in Nat
           /\ \A w \in Nodes : color[w] = "black" => fin[w] <= clock
  BY LeaveIs
<1>2. \A u, w \in Nodes : color'[u] = "gray" /\ color'[w] = "gray" /\ disc'[u] <= disc'[w] => w \in Reach(Edges, u)
  BY <1>1 DEF DagInv
<1>3. ASSUME NEW u \in Nodes, NEW w \in Looked(u)'
      PROVE  \/ color'[w] = "black" /\ (color'[u] = "black" => fin'[w] < fin'[u])
             \/ color'[w] = "gray" /\ color'[u] = "gray" /\ disc'[u] < disc'[w]
  <2>1. w \in Looked(u) /\ w \in Nodes
    BY <1>1
  <2>2. \/ color[w] = "black" /\ (color[u] = "black" => fin[w] < fin[u])
        \/ color[w] = "gray" /\ color[u] = "gray" /\ disc[u] < disc[w]
    BY <2>1 DEF DagInv
  <2>3. CASE u = h
    <3>1. color[w] = "black"
      BY <1>1, <2>1, <2>2, <2>3
    <3>2. w # h /\ fin[w] <= clock
      BY <1>1, <2>1, <3>1
    <3> QED BY <1>1, <2>1, <2>3, <3>1, <3>2
  <2>4. CASE u # h /\ w = h
    BY <1>1, <2>2, <2>4
  <2>5. CASE u # h /\ w # h
    BY <1>1, <2>1, <2>2, <2>5
  <2> QED BY <2>3, <2>4, <2>5
<1>5. refused' => \E e \in Edges : OnCycle(e)
  BY <1>1 DEF DagInv
<1> QED BY <1>0, <1>2, <1>3, <1>5 DEF DagInv

\* A child that is passed is finished.
LEMMA DagPass ==
  ASSUME Searching, Aside, search = "dag", DagInv, Pass
  PROVE  DagInv'
<1>0. Nodes' = Nodes /\ Edges' = Edges /\ (\A e : OnCycle(e)' = OnCycle(e)) /\ \A E, u : Reach(E, u)' = Reach(E, u)
  BY SameGraph DEF Aside
<1>1. PICK h \in Nodes, v \in Nodes :
           /\ color[h] = "gray" /\ color[v] # "white" /\ ~Refuses(v)
           /\ Looked(h)' = Looked(h) \union {v} /\ \A w \in Nodes \ {h} : Looked(w)' = Looked(w)
           /\ UNCHANGED <<color, disc, fin, refused>>
  BY PassIs
<1>2. color[v] = "black"
  BY <1>1 DEF Refuses, Searching, GraphTyped, Marks
<1>3. ASSUME NEW u \in Nodes, NEW w \in Looked(u)'
      PROVE  \/ color'[w] = "black" /\ (color'[u] = "black" => fin'[w] < fin'[u])
             \/ color'[w] = "gray" /\ color'[u] = "gray" /\ disc'[u] < disc'[w]
  BY <1>1, <1>2, <1>3 DEF DagInv
<1> QED BY <1>0, <1>1, <1>3 DEF DagInv

\* The ancestor that ends the search leads to the vertex on top.
LEMMA DagRefuse ==
  ASSUME Searching, Aside, search = "dag", DagInv, Refuse
  PROVE  DagInv'
<1>0. Nodes' = Nodes /\ Edges' = Edges /\ (\A e : OnCycle(e)' = OnCycle(e)) /\ \A E, u : Reach(E, u)' = Reach(E, u)
  BY SameGraph DEF Aside
<1>1. PICK v \in Nodes : stack # <<>> /\ Looks(Here, v) /\ color[v] = "gray" /\ UNCHANGED <<color, nth, disc, fin>>
  BY DEF Refuse, Refuses, depthVars
<1>2. Here \in Nodes /\ color[Here] = "gray" /\ disc[Here] \in Nat /\ (v = Here \/ disc[v] < disc[Here])
  BY <1>1, OnStack
<1>3. disc[v] <= disc[Here]
  <2>1. disc \in [Nodes -> Nat]
    BY DEF Searching, GraphTyped
  <2>2. disc[v] \in Nat
    BY <2>1
  <2> QED BY <1>2, <2>2
<1>4. Here \in Reach(Edges, v)
  BY <1>1, <1>2, <1>3 DEF DagInv
<1>5. v \in Children(Here)
  BY <1>1, <1>2, LooksAt DEF Searching, GraphTyped
<1>6. <<Here, v>> \in Edges
  BY <1>2, <1>5, EdgeIs
<1>7. OnCycle(<<Here, v>>)
  BY <1>4 DEF OnCycle
<1>8. \A u : Looked(u)' = Looked(u)
  BY <1>1 DEF Looked, Aside
<1> QED BY <1>0, <1>1, <1>6, <1>7, <1>8 DEF DagInv

-----------------------------------------------------------------------------
\* check-undirected-acyclic.py: what was looked at stays so, and the vertex
\* entered is added to it.
LEMMA UagLooked ==
  ASSUME Searching, Aside, search = "uag", NEW v \in Nodes, Enters(v)
  PROVE  /\ \A u \in Nodes : Looked(u) \subseteq Looked(u)'
         /\ \A u \in Nodes : stack # <<>> /\ u = Here => v \in Looked(u)'
<1>1. /\ adj \in Graphs /\ nth \in [Nodes -> Nat] /\ \A w \in Nodes : nth[w] <= Len(adj[w])
      /\ adj' = adj
  BY DEF Searching, GraphTyped, Aside
<1>2. CASE stack = <<>>
  <2>1. nth' = nth
    BY <1>2 DEF Enters
  <2> QED BY <1>1, <1>2, <2>1 DEF Looked
<1>3. CASE stack # <<>>
  <2>1. PICK h \in Nodes : h = Here
    BY <1>3, OnStack
  <2>2. Looks(h, v) /\ Advances(h)
    BY <1>3, <2>1 DEF Enters
  <2>3. Looked(h)' = Looked(h) \union {v} /\ \A w \in Nodes \ {h} : Looked(w)' = Looked(w)
    BY <1>1, <2>2, Advanced
  <2> QED BY <1>3, <2>1, <2>3
<1> QED BY <1>2, <1>3

\* The root of a tree is not led to from any vertex of an earlier name: those
\* are finished, and with them all that they lead to.
LEMMA UagRoot ==
  ASSUME Searching, NEW v \in Nodes, Enters(v), stack = <<>>, NEW w \in Nodes, w < v
  PROVE  v \notin Reach(Edges, w)
<1> SUFFICES ASSUME v \in Reach(Edges, w) PROVE FALSE
  OBVIOUS
<1> DEFINE B == {u \in Nodes : color[u] # "white"}
<1>1. /\ GraphTyped /\ StackInv /\ MarkInv /\ color[v] = "white"
      /\ \A u \in Nodes : color[u] = "white" => v <= u
  BY DEF Searching, DepthInv, Enters
<1>2. Nodes \subseteq Nat /\ color \in [Nodes -> Marks]
  BY <1>1, GraphFacts DEF GraphTyped
<1>3. w \in B /\ v \notin B /\ B \in SUBSET Nodes
  <2>1. w \in Nat /\ v \in Nat
    BY <1>2
  <2> QED BY <1>1, <2>1
<1>4. ASSUME NEW d \in Edges, d[1] \in B PROVE d[2] \in B
  <2>1. d[1] \in Nodes /\ d[2] \in Nodes /\ d[2] \in Children(d[1])
    BY DEF Edges
  <2>2. color[d[1]] # "gray"
    BY <1>1, <2>1 DEF StackInv
  <2>3. color[d[1]] = "black"
    BY <1>2, <1>4, <2>1, <2>2 DEF Marks
  <2>4. nth[d[1]] = Len(adj[d[1]]) /\ adj \in Graphs /\ nth \in [Nodes -> Nat] /\ nth[d[1]] <= Len(adj[d[1]])
    BY <1>1, <2>1, <2>3 DEF MarkInv, GraphTyped
  <2>5. d[2] \in Looked(d[1])
    BY <2>1, <2>4, LookedIs DEF Through
  <2> QED BY <1>1, <2>1, <2>5 DEF MarkInv
<1>5. v \in B
  <2> HIDE DEF B
  <2> QED BY <1>3, <1>4, ReachWithin
<1> QED BY <1>3, <1>5

\* Every child that was looked at was found there, and its tree has an earlier
\* root.
LEMMA UagEnters ==
  ASSUME Searching, Aside, search = "uag", UagInv, NEW v \in Nodes, Enters(v)
  PROVE  UagInv'
<1>0. Nodes' = Nodes /\ Edges' = Edges /\ \A E, u : Reach(E, u)' = Reach(E, u)
  BY SameGraph DEF Aside
<1>1. /\ color[v] = "white" /\ color'[v] = "gray" /\ path[v] = 0
      /\ \A w \in Nodes : w # v => color'[w] = color[w] /\ path'[w] = path[w]
      /\ path'[v] = IF stack = <<>> THEN 0 ELSE Here
      /\ \A u \in Nodes : \A w \in Looked(u) : w # v /\ u # v /\ w \in Nodes
      /\ \A u \in Nodes : \A w \in Looked(u)' : w \in Looked(u) \/ (stack # <<>> /\ u = Here /\ w = v)
      /\ stack # <<>> => v \in Children(Here) /\ Here \in Nodes
      /\ refused' = refused
  BY EntersIs
<1>2. /\ \A u \in Nodes : Looked(u) \subseteq Looked(u)'
      /\ \A u \in Nodes : stack # <<>> /\ u = Here => v \in Looked(u)'
  BY UagLooked
<1>3. Nodes \subseteq Nat \ {0} /\ GraphTyped /\ ~refused
  BY GraphFacts DEF Searching, GraphTyped
<1>4. /\ Len(stack) \in Nat /\ Len(stack') = Len(stack) + 1 /\ stack \in Seq(Nodes)
      /\ \A i \in 1..Len(stack) : stack'[i] = stack[i] /\ stack[i] \in Nodes
      /\ stack'[Len(stack) + 1] = v
  <2>1. Enter(v) /\ stack \in Seq(Nodes)
    BY <1>3 DEF Enters, GraphTyped
  <2> QED BY <1>3, <2>1, Entered
<1>5. stack # <<>> => 1 \in 1..Len(stack) /\ Here = stack[Len(stack)] /\ Len(stack) \in 1..Len(stack)
  BY <1>4 DEF Here
<1>6. stack = <<>> => /\ Len(stack) = 0 /\ \A w \in Nodes : color[w] = "white" => v <= w
  BY DEF Enters
<1>7. stack # <<>> => v \in Reach(Edges, stack[1]) /\ stack[1] < v /\ stack[1] \in Nodes
  <2>1. stack # <<>> => Here \in Reach(Edges, stack[1]) /\ <<Here, v>> \in Edges
    BY <1>1, <1>5, EdgeIs DEF UagInv
  <2>2. stack # <<>> => stack[1] < v /\ stack[1] \in Nodes
    BY <1>1, <1>4, <1>5 DEF UagInv
  <2> QED BY <2>1, <2>2, ReachOn
<1>a. ASSUME NEW u \in Nodes, NEW w \in Looked(u)' PROVE path'[w] = u
  BY <1>1, <1>a DEF UagInv
<1>b. ASSUME NEW u \in Nodes, NEW w \in Nodes, path'[w] = u PROVE w \in Looked(u)'
  <2>1. CASE w = v
    BY <1>1, <1>2, <1>3, <1>b, <2>1
  <2>2. CASE w # v
    BY <1>1, <1>2, <1>b, <2>2 DEF UagInv
  <2> QED BY <2>1, <2>2
<1>c. ASSUME NEW u \in Nodes, path'[u] # 0 PROVE \E w \in Nodes : w < u /\ u \in Reach(Edges, w)
  BY <1>1, <1>7, <1>c DEF UagInv
<1>d. ASSUME NEW u \in Nodes, color'[u] # "white", path'[u] = 0, NEW w \in Nodes, w < u
      PROVE  u \notin Reach(Edges, w)
  <2>1. CASE u = v
    <3>1. stack = <<>>
      BY <1>1, <1>3, <1>d, <2>1
    <3> QED BY <1>d, <2>1, <3>1, UagRoot
  <2>2. CASE u # v
    BY <1>1, <1>d, <2>2 DEF UagInv
  <2> QED BY <2>1, <2>2
<1>e. ASSUME NEW u \in Nodes, color'[u] = "white" PROVE stack'[1] < u
  <2>1. u # v /\ color[u] = "white" /\ u \in Nat /\ v \in Nat
    BY <1>1, <1>3, <1>e
  <2>2. CASE stack = <<>>
    BY <1>4, <1>6, <2>1, <2>2
  <2>3. CASE stack # <<>>
    BY <1>4, <1>5, <2>1, <2>3 DEF UagInv
  <2> QED BY <2>2, <2>3
<1>f. ASSUME NEW i \in 1..Len(stack') PROVE stack'[i] \in Reach(Edges, stack'[1])
  <2>1. CASE stack = <<>>
    <3>1. stack'[i] = v /\ stack'[1] = v
      BY <1>4, <1>6, <2>1
    <3> QED BY <3>1, ReachSelf
  <2>2. CASE stack # <<>>
    <3>1. stack'[1] = stack[1]
      BY <1>4, <1>5, <2>2
    <3>2. CASE i = Len(stack) + 1
      BY <1>4, <1>7, <2>2, <3>1, <3>2
    <3>3. CASE i \in 1..Len(stack)
      BY <1>4, <2>2, <3>1, <3>3 DEF UagInv
    <3> QED BY <1>4, <3>2, <3>3
  <2> QED BY <2>1, <2>2
<1> QED BY <1>0, <1>1, <1>3, <1>a, <1>b, <1>c, <1>d, <1>e, <1>f DEF UagInv

\* A child is refused only if it is a second one's or an earlier root.
LEMMA UagRefuse ==
  ASSUME Searching, search = "uag", UagInv, Refuse
  PROVE  ~(OneParent /\ FromEarlier)
<1>1. PICK v \in Nodes : stack # <<>> /\ Looks(Here, v) /\ color[v] # "white"
  BY DEF Refuse, Refuses
<1>2. PICK h \in Nodes : h = Here
  BY <1>1, OnStack
<1>3. v \in Children(h) /\ v \notin Looked(h)
  BY <1>1, <1>2, LooksAt DEF Searching, GraphTyped
<1>4. <<h, v>> \in Edges
  BY <1>3, EdgeIs
<1>5. path \in [Nodes -> Nodes \union {0}] /\ MarkInv
  BY DEF Searching, GraphTyped, DepthInv
<1>6. CASE path[v] # 0
  <2>1. PICK u \in Nodes : u = path[v]
    BY <1>5, <1>6
  <2>2. v \in Looked(u) /\ v \in Children(u)
    BY <1>5, <1>6, <2>1 DEF UagInv, MarkInv
  <2>3. <<u, v>> \in Edges /\ <<u, v>> # <<h, v>> /\ <<u, v>>[2] = <<h, v>>[2]
    BY <1>3, <2>2, EdgeIs
  <2> QED BY <1>4, <2>3 DEF OneParent
<1>7. CASE path[v] = 0
  <2>1. \A w \in Nodes : w < v => v \notin Reach(Edges, w)
    BY <1>1, <1>7 DEF UagInv
  <2>2. <<h, v>>[2] = v
    OBVIOUS
  <2> QED BY <1>4, <2>1, <2>2 DEF FromEarlier
<1> QED BY <1>6, <1>7

\* Each step keeps this.
LEMMA UagKept ==
  ASSUME Searching, Aside, search = "uag", UagInv, (\E v \in Nodes : Enters(v)) \/ Leave \/ Pass \/ Refuse
  PROVE  UagInv'
<1>0. Nodes' = Nodes /\ Edges' = Edges /\ (\A E, u : Reach(E, u)' = Reach(E, u))
      /\ OneParent' = OneParent /\ FromEarlier' = FromEarlier
  BY SameGraph DEF Aside, OneParent, FromEarlier
<1>1. ASSUME NEW v \in Nodes, Enters(v) PROVE UagInv'
  BY <1>1, UagEnters
<1>2. CASE Leave
  <2>1. PICK h \in Nodes : /\ (\A w \in Nodes : w # h => color'[w] = color[w])
                           /\ color[h] = "gray" /\ color'[h] = "black"
                           /\ (\A u : Looked(u)' = Looked(u)) /\ path' = path /\ refused' = refused
    BY <1>2, LeaveIs
  <2>2. /\ Len(stack) \in Nat \ {0} /\ Len(stack') = Len(stack) - 1 /\ stack' \in Seq(Nodes)
        /\ \A i \in 1..(Len(stack) - 1) : stack'[i] = stack[i]
        /\ stack # <<>>
    BY <1>2, LeftTop
  <2>3. \A w \in Nodes : color'[w] = "white" <=> color[w] = "white"
    BY <2>1
  <2>4. ASSUME stack' # <<>>
        PROVE  stack'[1] = stack[1] /\ \A i \in 1..Len(stack') : stack'[i] \in Reach(Edges, stack'[1])
    <3>1. 1 \in 1..(Len(stack) - 1)
      BY <2>2, <2>4
    <3>2. stack'[1] = stack[1] /\ \A i \in 1..Len(stack') : i \in 1..Len(stack) /\ stack'[i] = stack[i]
      BY <2>2, <3>1
    <3> QED BY <2>2, <3>2 DEF UagInv
  <2> QED BY <1>0, <2>1, <2>2, <2>3, <2>4 DEF UagInv
<1>3. CASE Pass
  <2>1. \E v \in Nodes : color[v] # "white" /\ ~Refuses(v)
    BY <1>3, PassIs
  <2> QED BY <2>1 DEF Refuses
<1>4. CASE Refuse
  <2>1. UNCHANGED <<path, nth, adj, color, stack>>
    BY <1>4 DEF Refuse, Aside, depthVars
  <2>2. ~(OneParent /\ FromEarlier)
    BY <1>4, UagRefuse
  <2>3. \A u : Looked(u)' = Looked(u)
    BY <2>1 DEF Looked
  <2> QED BY <1>0, <2>1, <2>2, <2>3 DEF UagInv
<1> QED BY <1>1, <1>2, <1>3, <1>4

-----------------------------------------------------------------------------
\* identify-connected.py: the class of the vertex entered is that of the tree.
LEMMA CcEnters ==
  ASSUME Searching, Aside, CcInv, Undirected, NEW v \in Nodes, Enters(v)
  PROVE  CcInv'
<1>0. Nodes' = Nodes /\ Edges' = Edges /\ \A E, u : Reach(E, u)' = Reach(E, u)
  BY SameGraph DEF Aside
<1>1. /\ color[v] = "white" /\ color'[v] = "gray" /\ cc'[v] = group
      /\ \A w \in Nodes : w # v => color'[w] = color[w] /\ cc'[w] = cc[w]
      /\ group' = group
      /\ \A u \in Nodes : \A w \in Looked(u) : w # v /\ u # v /\ w \in Nodes
      /\ \A u \in Nodes : \A w \in Looked(u)' : w \in Looked(u) \/ (stack # <<>> /\ u = Here /\ w = v)
      /\ stack # <<>> => v \in Children(Here) /\ Here # v /\ Here \in Nodes /\ color[Here] = "gray"
  BY EntersIs
<1>2. cc \in [Nodes -> Nat] /\ group \in Nat \ {0} /\ cc[v] = 0
  BY <1>1 DEF Searching, GraphTyped, DepthInv, MarkInv
<1>3. \A w \in Nodes : color'[w] = "gray" => cc'[w] = group'
  BY <1>1 DEF CcInv
<1>4. stack' # <<>>
  <2>1. Len(stack') = Len(stack) + 1 /\ Len(stack) \in Nat /\ stack' \in Seq(Nodes)
    BY Entered DEF Enters, Searching
  <2> QED BY <2>1
<1>5. ASSUME NEW u \in Nodes, NEW w \in Looked(u)' PROVE cc'[u] = cc'[w]
  <2>1. CASE w \in Looked(u)
    BY <1>1, <2>1 DEF CcInv
  <2>2. CASE stack # <<>> /\ u = Here /\ w = v
    BY <1>1, <2>2 DEF CcInv
  <2> QED BY <1>1, <2>1, <2>2
<1>6. ASSUME NEW u \in Nodes, NEW w \in Nodes, color'[u] # "white", cc'[u] = cc'[w]
      PROVE  w \in Reach(Edges, u)
  <2>1. CASE u = w
    BY <2>1, ReachSelf
  <2>2. CASE u # v /\ w # v
    BY <1>1, <1>6, <2>2 DEF CcInv
  <2>3. CASE stack = <<>>
    <3>1. u = v \/ w = v => u = v /\ w = v
      BY <1>1, <1>2, <1>6, <2>3 DEF CcInv
    <3> QED BY <2>1, <2>2, <3>1
  <2>4. CASE stack # <<>>
    <3>1. <<Here, v>> \in Edges /\ Here \in Nodes
      BY <1>1, <2>4, EdgeIs
    <3>2. <<v, Here>> \in Edges
      BY <3>1 DEF Undirected
    <3>3. v \in Reach(Edges, Here) /\ Here \in Reach(Edges, v)
      BY <3>1, <3>2, ReachSelf, ReachOn
    <3>4. cc[Here] = group
      BY <1>1, <2>4 DEF CcInv
    <3>5. CASE u = v /\ w # v
      <4>1. w \in Reach(Edges, Here)
        BY <1>1, <1>6, <2>4, <3>4, <3>5 DEF CcInv
      <4> QED BY <3>3, <3>5, <4>1, ReachThrough
    <3>6. CASE u # v /\ w = v
      <4>1. Here \in Reach(Edges, u)
        BY <1>1, <1>6, <2>4, <3>4, <3>6 DEF CcInv
      <4> QED BY <3>3, <3>6, <4>1, ReachThrough
    <3> QED BY <2>1, <2>2, <3>5, <3>6
  <2> QED BY <2>3, <2>4
<1> QED BY <1>0, <1>3, <1>4, <1>5, <1>6 DEF CcInv

\* The class is counted up with the last vertex of a tree.
LEMMA CcLeave ==
  ASSUME Searching, Aside, CcInv, Undirected, Leave
  PROVE  CcInv'
<1>0. Nodes' = Nodes /\ Edges' = Edges /\ \A E, u : Reach(E, u)' = Reach(E, u)
  BY SameGraph DEF Aside
<1>1. PICK h \in Nodes :
           /\ h = Here /\ stack # <<>> /\ color[h] = "gray" /\ color'[h] = "black"
           /\ \A w \in Nodes : w # h => color'[w] = color[w]
           /\ \A u : Looked(u)' = Looked(u)
           /\ cc' = cc
  BY LeaveIs
<1>2. /\ Len(stack) \in Nat \ {0} /\ Len(stack') = Len(stack) - 1 /\ stack' \in Seq(Nodes)
      /\ group' = IF Len(stack) = 1 THEN group + 1 ELSE group
  BY LeftTop
<1>3. cc \in [Nodes -> Nat] /\ group \in Nat \ {0}
  BY DEF Searching, GraphTyped
<1>4. \A w \in Nodes : cc[w] <= group
  <2>1. \A w \in Nodes : color[w] = "white" => cc[w] = 0
    BY DEF Searching, DepthInv, MarkInv
  <2>2. \A w \in Nodes : color[w] # "white" => cc[w] \in 1..group
    BY DEF Searching, DepthInv, MarkInv
  <2> QED BY <1>3, <2>1, <2>2
<1>5. ASSUME NEW w \in Nodes, color'[w] = "gray" PROVE cc'[w] = group'
  <2>1. color[w] = "gray" /\ w # h
    BY <1>1, <1>5
  <2>2. Len(stack) # 1
    <3>1. \E i \in 1..Len(stack) : stack[i] = w
      BY <2>1 DEF Searching, DepthInv, StackInv
    <3>2. h = stack[Len(stack)]
      BY <1>1 DEF Here
    <3> QED BY <2>1, <3>1, <3>2
  <2> QED BY <1>1, <1>2, <2>1, <2>2 DEF CcInv
<1>6. ASSUME stack' = <<>>, NEW w \in Nodes PROVE cc'[w] < group'
  <2>1. Len(stack) = 1
    BY <1>2, <1>6
  <2> QED BY <1>1, <1>2, <1>3, <1>4, <2>1
<1>7. \A u \in Nodes : \A w \in Looked(u)' : cc'[u] = cc'[w]
  BY <1>1 DEF CcInv
<1>8. \A u, w \in Nodes : color'[u] # "white" /\ cc'[u] = cc'[w] => w \in Reach(Edges, u)
  BY <1>1 DEF CcInv
<1> QED BY <1>0, <1>5, <1>6, <1>7, <1>8 DEF CcInv

\* A child that is passed has the class of the tree, or its edge would go back to another.
LEMMA CcPass ==
  ASSUME Searching, Aside, CcInv, Undirected, Pass
  PROVE  CcInv'
<1>0. Nodes' = Nodes /\ Edges' = Edges /\ \A E, u : Reach(E, u)' = Reach(E, u)
  BY SameGraph DEF Aside
<1>1. PICK h \in Nodes, v \in Nodes :
           /\ color[h] = "gray" /\ color[v] # "white" /\ v \in Children(h)
           /\ Looked(h)' = Looked(h) \union {v} /\ \A w \in Nodes \ {h} : Looked(w)' = Looked(w)
           /\ UNCHANGED <<color, cc, stack, group>>
  BY PassIs
<1>2. cc[h] = cc[v]
  <2>1. CASE color[v] = "gray"
    BY <1>1, <2>1 DEF CcInv
  <2>2. CASE color[v] = "black"
    <3>1. Looked(v) = Children(v)
      <4>1. nth[v] = Len(adj[v])
        BY <2>2 DEF Searching, DepthInv, MarkInv
      <4>2. adj \in Graphs /\ nth \in [Nodes -> Nat] /\ nth[v] <= Len(adj[v])
        BY DEF Searching, GraphTyped
      <4> QED BY <4>1, <4>2, LookedIs DEF Through
    <3>2. <<h, v>> \in Edges
      BY <1>1, EdgeIs
    <3>3. <<v, h>> \in Edges
      BY <3>2 DEF Undirected
    <3>4. h \in Looked(v)
      BY <3>1, <3>3, EdgeIs
    <3> QED BY <3>4 DEF CcInv
  <2> QED BY <1>1, <2>1, <2>2 DEF Searching, GraphTyped, Marks
<1>3. \A u \in Nodes : \A w \in Looked(u)' : cc'[u] = cc'[w]
  BY <1>1, <1>2 DEF CcInv
<1> QED BY <1>0, <1>1, <1>3 DEF CcInv

\* The classes, whatever the step.
LEMMA CcKept ==
  ASSUME Searching, Aside, search = "cc", CcInv, (\E v \in Nodes : Enters(v)) \/ Leave \/ Pass \/ Refuse
  PROVE  CcInv'
<1>1. Undirected' = Undirected
  BY SameGraph DEF Aside
<1>2. CASE ~Undirected
  BY <1>1, <1>2 DEF CcInv
<1>3. CASE Undirected
  <2>1. ~Refuse
    BY DEF Refuse, Refuses
  <2> QED BY <1>3, <2>1, CcEnters, CcLeave, CcPass
<1> QED BY <1>2, <1>3

\* What may be said of an edge.
Kinds == {"tree", "back", "forward", "cross"}

\* A line more is printed of one edge.
LEMMA TellsMore ==
  ASSUME NEW d, NEW k \in Kinds, told' = told \union {<<d, k>>}
  PROVE  Tells(d)' = Tells(d) \union {k} /\ \A e : e # d => Tells(e)' = Tells(e)
<1>1. Tells(d)' = Tells(d) \union {k}
  BY DEF Tells, Kinds
<1>2. ASSUME NEW e, e # d PROVE Tells(e)' = Tells(e)
  BY <1>2 DEF Tells
<1> QED BY <1>1, <1>2

\* dfs-edges.py: entering a child prints that its edge is one of the tree.
LEMMA EdgesEnters ==
  ASSUME Searching, Aside, search = "edges", EdgesInv, NEW v \in Nodes, Enters(v)
  PROVE  EdgesInv'
<1>0. Nodes' = Nodes /\ \A u : Children(u)' = Children(u)
  BY SameGraph DEF Aside
<1>1. /\ color[v] = "white" /\ color'[v] = "gray" /\ disc'[v] = clock + 1
      /\ \A w \in Nodes : w # v => color'[w] = color[w] /\ disc'[w] = disc[w] /\ path'[w] = path[w]
      /\ clock \in Nat /\ fin' = fin
      /\ path[v] = 0 /\ path'[v] = IF stack = <<>> THEN 0 ELSE Here
      /\ \A u \in Nodes : \A w \in Looked(u) : w # v /\ u # v /\ w \in Nodes
      /\ \A u \in Nodes : Looked(u)' = Looked(u)
      /\ stack # <<>> => v \in Children(Here) /\ Here # v /\ Here \in Nodes /\ color[Here] = "gray"
      /\ \A w \in Nodes : color[w] = "black" => fin[w] <= clock
  BY EntersIs
<1>2. fin \in [Nodes -> Nat] /\ adj \in Graphs /\ Nodes \subseteq Nat \ {0}
  BY GraphFacts DEF Searching, GraphTyped
<1>3. ASSUME NEW u \in Nodes, NEW w \in Nodes, color'[u] = "gray", color'[w] = "black", disc'[w] <= disc'[u]
      PROVE  fin'[w] < disc'[u]
  <2>1. w # v /\ color[w] = "black" /\ disc'[w] = disc[w] /\ fin[w] \in Nat
    BY <1>1, <1>2, <1>3
  <2>2. CASE u = v
    BY <1>1, <2>1, <2>2
  <2>3. CASE u # v
    BY <1>1, <1>3, <2>1, <2>3 DEF EdgesInv
  <2> QED BY <2>2, <2>3
<1>4. ASSUME NEW e, ~(stack # <<>> /\ e = <<Here, v>>) PROVE Tells(e)' = Tells(e)
  <2>1. CASE stack = <<>>
    <3>1. told' = told
      BY <2>1 DEF Enters
    <3> QED BY <3>1 DEF Tells
  <2>2. CASE stack # <<>>
    <3>1. PICK h : h = Here
      OBVIOUS
    <3>2. told' = told \union {<<<<h, v>>, "tree">>} /\ "tree" \in Kinds
      BY <2>2, <3>1 DEF Enters, Kinds
    <3>3. e # <<h, v>>
      BY <1>4, <2>2, <3>1
    <3> QED BY <3>2, <3>3, TellsMore
  <2> QED BY <2>1, <2>2
<1>5. stack # <<>> => \A h : h = Here => Tells(<<h, v>>)' = Tells(<<h, v>>) \union {"tree"}
  <2>1. ASSUME stack # <<>>, NEW h, h = Here PROVE Tells(<<h, v>>)' = Tells(<<h, v>>) \union {"tree"}
    <3>1. told' = told \union {<<<<h, v>>, "tree">>} /\ "tree" \in Kinds
      BY <2>1 DEF Enters, Kinds
    <3> QED BY <3>1, TellsMore
  <2> QED BY <2>1
<1>6. ASSUME NEW u \in Nodes, NEW w \in Children(u) \ Looked(u)
      PROVE  Tells(<<u, w>>)' = IF path'[w] = u THEN {"tree"} ELSE {}
  <2>0. w \in Nodes
    BY <1>2, GraphFacts
  <2>1. Tells(<<u, w>>) = IF path[w] = u THEN {"tree"} ELSE {}
    BY DEF EdgesInv
  <2>2. CASE w # v
    BY <1>1, <1>4, <2>0, <2>1, <2>2
  <2>3. CASE w = v
    <3>0. u # 0 /\ Tells(<<u, w>>) = {}
      BY <1>1, <1>2, <2>1, <2>3
    <3>1. CASE stack # <<>> /\ u = Here
      BY <1>1, <1>5, <2>3, <3>0, <3>1
    <3>2. CASE ~(stack # <<>> /\ u = Here)
      <4>1. <<u, w>> # <<Here, v>> \/ stack = <<>>
        BY <3>2
      <4>2. path'[w] # u
        BY <1>1, <2>3, <3>0, <3>2
      <4> QED BY <1>4, <3>0, <4>1, <4>2
    <3> QED BY <3>1, <3>2
  <2> QED BY <2>2, <2>3
<1>7. ASSUME NEW u \in Nodes, NEW w \in Looked(u), u \notin Children(w)
      PROVE  IF path'[w] = u THEN Tells(<<u, w>>)' = {"tree", "forward"}
                             ELSE Backward(u, w)' \/ Forward(u, w)' \/ Across(u, w)'
  <2>1. w # v /\ u # v /\ w \in Nodes
    BY <1>1
  <2>2. Tells(<<u, w>>)' = Tells(<<u, w>>)
    BY <1>4, <2>1
  <2>3. /\ color'[w] = color[w] /\ disc'[w] = disc[w] /\ path'[w] = path[w] /\ fin'[w] = fin[w]
        /\ color'[u] = color[u] /\ disc'[u] = disc[u] /\ fin'[u] = fin[u]
    BY <1>1, <2>1
  <2>4. IF path[w] = u THEN Tells(<<u, w>>) = {"tree", "forward"}
                       ELSE Backward(u, w) \/ Forward(u, w) \/ Across(u, w)
    BY <1>7 DEF EdgesInv
  <2> QED BY <2>2, <2>3, <2>4 DEF Backward, Forward, Across
<1> QED BY <1>0, <1>1, <1>3, <1>6, <1>7 DEF EdgesInv

\* When a vertex is finished, what was said of its edges stays true.
LEMMA EdgesLeave ==
  ASSUME Searching, Aside, search = "edges", EdgesInv, Leave
  PROVE  EdgesInv'
<1>0. Nodes' = Nodes /\ \A u : Children(u)' = Children(u)
  BY SameGraph DEF Aside
<1>1. PICK h \in Nodes :
           /\ color[h] = "gray" /\ color'[h] = "black" /\ fin'[h] = clock + 1
           /\ \A w \in Nodes : w # h => color'[w] = color[w] /\ fin'[w] = fin[w]
           /\ \A w \in Nodes : color[w] = "gray" => w = h \/ disc[w] < disc[h]
           /\ \A u : Looked(u)' = Looked(u)
           /\ \A u \in Nodes : Looked(u) \subseteq Nodes
           /\ path' = path /\ disc' = disc /\ told' = told
           /\ disc \in [Nodes -> Nat] /\ fin \in [Nodes -> Nat] /\ clock \in Nat
           /\ \A w \in Nodes : color[w] = "black" => fin[w] <= clock
           /\ \A u \in Nodes : \A w \in Looked(u) : color[u] # "white" /\ color[w] # "white"
  BY LeaveIs
<1>2. \A e : Tells(e)' = Tells(e)
  BY <1>1 DEF Tells
<1>3. ASSUME NEW u \in Nodes, NEW w \in Nodes, color'[u] = "gray", color'[w] = "black", disc'[w] <= disc'[u]
      PROVE  fin'[w] < disc'[u]
  <2>1. u # h /\ color[u] = "gray"
    BY <1>1, <1>3
  <2>2. disc[u] \in Nat /\ disc[h] \in Nat /\ disc[u] < disc[h]
    BY <1>1, <2>1
  <2>3. w # h
    BY <1>1, <1>3, <2>2
  <2> QED BY <1>1, <1>3, <2>1, <2>3 DEF EdgesInv
<1>4. \A u \in Nodes : \A w \in Children(u) \ Looked(u) :
         Tells(<<u, w>>)' = IF path'[w] = u THEN {"tree"} ELSE {}
  BY <1>1, <1>2 DEF EdgesInv
<1>5. ASSUME NEW u \in Nodes, NEW w \in Looked(u), u \notin Children(w)
      PROVE  IF path'[w] = u THEN Tells(<<u, w>>)' = {"tree", "forward"}
                             ELSE Backward(u, w)' \/ Forward(u, w)' \/ Across(u, w)'
  <2>0. w \in Nodes /\ color[u] # "white" /\ color[w] # "white" /\ color \in [Nodes -> Marks]
    BY <1>1 DEF Searching, GraphTyped
  <2>1. IF path[w] = u THEN Tells(<<u, w>>) = {"tree", "forward"}
                       ELSE Backward(u, w) \/ Forward(u, w) \/ Across(u, w)
    BY <1>5 DEF EdgesInv
  <2>2. CASE path[w] = u
    BY <1>1, <1>2, <2>1, <2>2
  <2>3. CASE path[w] # u /\ Backward(u, w)
    <3>1. Tells(<<u, w>>) = {"back"} /\ disc[w] < disc[u]
      BY <2>3 DEF Backward
    <3>2. color'[w] = "gray" \/ (color'[u] = "black" /\ color'[w] = "black" /\ fin'[u] < fin'[w])
      <4>1. CASE color[w] = "gray" /\ w = h
        <5>1. u # h /\ disc[u] \in Nat /\ disc[h] \in Nat
          BY <1>1, <3>1, <4>1
        <5>2. color[u] = "black"
          BY <1>1, <2>0, <3>1, <4>1, <5>1 DEF Marks
        <5>3. fin[u] <= clock /\ fin[u] \in Nat
          BY <1>1, <5>2
        <5> QED BY <1>1, <4>1, <5>1, <5>2, <5>3
      <4>2. CASE color[w] = "gray" /\ w # h
        BY <1>1, <2>0, <4>2
      <4>3. CASE color[w] # "gray"
        BY <1>1, <2>0, <2>3, <4>3 DEF Backward
      <4> QED BY <4>1, <4>2, <4>3
    <3> QED BY <1>1, <1>2, <2>3, <3>1, <3>2 DEF Backward
  <2>4. CASE path[w] # u /\ Forward(u, w)
    <3>1. Tells(<<u, w>>) = {"forward"} /\ disc[u] < disc[w] /\ color[w] = "black" /\ w # h
      BY <1>1, <2>4 DEF Forward
    <3>2. color'[w] = "black" /\ fin'[w] = fin[w] /\ fin[w] <= clock /\ fin[w] \in Nat
      BY <1>1, <2>0, <3>1
    <3>3. color'[u] = "gray" \/ fin'[w] < fin'[u]
      BY <1>1, <2>4, <3>2 DEF Forward
    <3> QED BY <1>1, <1>2, <2>4, <3>1, <3>2, <3>3 DEF Forward
  <2>5. CASE path[w] # u /\ Across(u, w)
    <3>1. Tells(<<u, w>>) = {"cross"} /\ color[w] = "black" /\ fin[w] < disc[u] /\ w # h
      BY <1>1, <2>5 DEF Across
    <3>2. color'[w] = "black" /\ fin'[w] = fin[w]
      BY <1>1, <2>0, <3>1
    <3> QED BY <1>1, <1>2, <2>5, <3>1, <3>2 DEF Across
  <2> QED BY <2>1, <2>2, <2>3, <2>4, <2>5
<1> QED BY <1>0, <1>1, <1>3, <1>4, <1>5 DEF EdgesInv

\* What is said of an edge to a vertex visited before fits the times.
LEMMA EdgesPass ==
  ASSUME Searching, Aside, search = "edges", EdgesInv, Pass
  PROVE  EdgesInv'
<1>0. Nodes' = Nodes /\ \A u : Children(u)' = Children(u)
  BY SameGraph DEF Aside
<1>1. PICK h \in Nodes, v \in Nodes :
           /\ h = Here /\ stack # <<>> /\ color[h] = "gray" /\ color[v] # "white"
           /\ v \in Children(h) /\ v \notin Looked(h)
           /\ told' = told \union {<<<<h, v>>, Said(h, v)>>}
           /\ Looked(h)' = Looked(h) \union {v} /\ \A w \in Nodes \ {h} : Looked(w)' = Looked(w)
           /\ UNCHANGED <<color, path, disc, fin>>
  BY PassIs
<1>2. Tells(<<h, v>>)' = Tells(<<h, v>>) \union {Said(h, v)} /\ \A e : e # <<h, v>> => Tells(e)' = Tells(e)
  <2>1. PICK k \in Kinds : k = Said(h, v)
    BY DEF Said, Kinds
  <2>2. told' = told \union {<<<<h, v>>, k>>}
    BY <1>1, <2>1
  <2>3. Tells(<<h, v>>)' = Tells(<<h, v>>) \union {k} /\ \A e : e # <<h, v>> => Tells(e)' = Tells(e)
    BY <2>2, TellsMore
  <2> QED BY <2>1, <2>3
<1>3. \A u, w \in Nodes : color'[u] = "gray" /\ color'[w] = "black" /\ disc'[w] <= disc'[u] => fin'[w] < disc'[u]
  BY <1>1 DEF EdgesInv
<1>4. ASSUME NEW u \in Nodes, NEW w \in Children(u) \ Looked(u)'
      PROVE  Tells(<<u, w>>)' = IF path'[w] = u THEN {"tree"} ELSE {}
  <2>1. w \notin Looked(u) /\ <<u, w>> # <<h, v>>
    BY <1>1, <1>4
  <2> QED BY <1>1, <1>2, <2>1 DEF EdgesInv
<1>5. ASSUME NEW u \in Nodes, NEW w \in Looked(u)', u \notin Children(w)
      PROVE  IF path'[w] = u THEN Tells(<<u, w>>)' = {"tree", "forward"}
                             ELSE Backward(u, w)' \/ Forward(u, w)' \/ Across(u, w)'
  <2>1. CASE <<u, w>> # <<h, v>>
    <3>1. w \in Looked(u)
      BY <1>1, <2>1
    <3>2. Tells(<<u, w>>)' = Tells(<<u, w>>)
      BY <1>2, <2>1
    <3> QED BY <1>1, <1>5, <3>1, <3>2 DEF EdgesInv, Backward, Forward, Across
  <2>2. CASE u = h /\ w = v
    <3>0. /\ disc \in [Nodes -> Nat] /\ fin \in [Nodes -> Nat] /\ color \in [Nodes -> Marks]
          /\ v # h
      BY <1>1, <1>5, <2>2 DEF Searching, GraphTyped
    <3>1. Tells(<<h, v>>) = IF path[v] = h THEN {"tree"} ELSE {}
      BY <1>1 DEF EdgesInv
    <3>2. Tells(<<h, v>>)' = (IF path[v] = h THEN {"tree"} ELSE {}) \union {Said(h, v)}
      BY <1>2, <3>1
    <3>3. CASE color[v] = "gray"
      <4>1. Said(h, v) = "back"
        BY <3>3 DEF Said
      <4>2. path[v] # h /\ disc[v] < disc[h]
        BY <1>1, <3>0, <3>3, OnStack
      <4> QED BY <1>1, <2>2, <3>2, <3>3, <4>1, <4>2 DEF Backward
    <3>4. CASE color[v] = "black"
      <4>1. h \notin Children(v)
        BY <1>5, <2>2
      <4>2. CASE disc[h] < disc[v]
        <5>1. Said(h, v) = "forward"
          BY <3>4, <4>1, <4>2 DEF Said
        <5> QED BY <1>1, <2>2, <3>2, <3>4, <4>2, <5>1 DEF Forward
      <4>3. CASE ~(disc[h] < disc[v])
        <5>1. Said(h, v) = "cross"
          BY <3>4, <4>1, <4>3 DEF Said
        <5>2. path[v] # h
          <6>1. path[v] # 0 => disc[path[v]] < disc[v]
            BY DEF Searching, DepthInv, MarkInv
          <6>2. h # 0
            BY GraphFacts DEF Searching, GraphTyped
          <6> QED BY <4>3, <6>1, <6>2
        <5>3. disc[h] \in Nat /\ disc[v] \in Nat
          BY <3>0
        <5>4. fin[v] < disc[h]
          BY <1>1, <3>4, <4>3, <5>3 DEF EdgesInv
        <5> QED BY <1>1, <2>2, <3>2, <3>4, <5>1, <5>2, <5>4 DEF Across
      <4> QED BY <4>2, <4>3
    <3> QED BY <1>1, <3>0, <3>3, <3>4 DEF Marks
  <2> QED BY <2>1, <2>2
<1> QED BY <1>0, <1>3, <1>4, <1>5 DEF EdgesInv

\* The lines printed, whatever the step.
LEMMA EdgesKept ==
  ASSUME Searching, Aside, search = "edges", EdgesInv, (\E v \in Nodes : Enters(v)) \/ Leave \/ Pass \/ Refuse
  PROVE  EdgesInv'
<1>1. ~Refuse
  BY DEF Refuse, Refuses
<1> QED BY <1>1, EdgesEnters, EdgesLeave, EdgesPass

\* A depth-first search keeps the types.
LEMMA DepthTyped ==
  ASSUME Searching, Aside, (\E v \in Nodes : Enters(v)) \/ Leave \/ Pass \/ Refuse
  PROVE  GraphTyped'
<1>0. GraphTyped /\ Nodes' = Nodes /\ ~refused
  BY SameGraph DEF Searching, Aside
<1>1. /\ adj' \in Graphs /\ search' \in DepthFirst \union {"bfs", "wrestlers", "topo"} /\ start' \in Nat
      /\ dist' \in [Nodes' -> Int] /\ que' \in Seq(Nodes') /\ listed' \in Seq(Nodes')
      /\ passed' \subseteq Nodes' /\ cnt' \in [Nodes' -> Int]
  BY <1>0 DEF GraphTyped, Aside, topoVars
<1>2. ASSUME NEW v \in Nodes, Enters(v) PROVE GraphTyped'
  <2>1. /\ color' \in [Nodes -> Marks] /\ disc' \in [Nodes -> Nat] /\ cc' \in [Nodes -> Nat]
        /\ clock' \in Nat /\ fin' = fin /\ group' = group /\ refused' = refused /\ stack' \in Seq(Nodes)
    BY <1>0, <1>2, Entered DEF Enters
  <2>2. /\ path' \in [Nodes -> Nodes \union {0}]
        /\ nth' \in [Nodes -> Nat] /\ \A w \in Nodes : nth'[w] <= Len(adj[w])
    BY <1>2, Growth
  <2>3. fin' \in [Nodes' -> Nat] /\ group' \in Nat \ {0} /\ refused' \in BOOLEAN /\ ~refused' /\ adj' = adj
    BY <1>0, <2>1 DEF GraphTyped, Aside
  <2> QED BY <1>0, <1>1, <2>1, <2>2, <2>3 DEF GraphTyped
<1>3. CASE Leave
  <2>1. /\ color' \in [Nodes -> Marks] /\ fin' \in [Nodes -> Nat] /\ clock' \in Nat /\ stack' \in Seq(Nodes)
        /\ path' = path /\ nth' = nth /\ disc' = disc /\ cc' = cc /\ refused' = refused
        /\ group' = IF Len(stack) = 1 THEN group + 1 ELSE group
    BY <1>3, LeftTop
  <2>2. /\ path' \in [Nodes' -> Nodes' \union {0}] /\ disc' \in [Nodes' -> Nat] /\ cc' \in [Nodes' -> Nat]
        /\ nth' \in [Nodes' -> Nat] /\ (\A w \in Nodes : nth'[w] <= Len(adj[w]))
        /\ refused' \in BOOLEAN /\ ~refused' /\ adj' = adj
    BY <1>0, <2>1 DEF GraphTyped, Aside
  <2>3. group' \in Nat \ {0}
    BY <1>0, <2>1 DEF GraphTyped
  <2> QED BY <1>0, <1>1, <2>1, <2>2, <2>3 DEF GraphTyped
<1>4. CASE Pass
  <2>1. /\ nth' \in [Nodes -> Nat] /\ \A w \in Nodes : nth'[w] <= Len(adj[w])
        /\ UNCHANGED <<color, path, disc, fin, cc, stack, clock, group, refused>>
    BY <1>4, Passes
  <2>2. adj' = adj
    BY DEF Aside
  <2> QED BY <1>0, <1>1, <2>1, <2>2 DEF GraphTyped
<1>5. CASE Refuse
  <2>1. UNCHANGED <<color, path, nth, disc, fin, cc, stack, clock, group>> /\ refused' = TRUE
    BY <1>5 DEF Refuse, depthVars
  <2>2. search \in {"dag", "uag"}
    BY <1>5 DEF Refuse, Refuses
  <2>3. adj' = adj /\ search' = search
    BY DEF Aside
  <2> QED BY <1>0, <1>1, <2>1, <2>2, <2>3 DEF GraphTyped
<1> QED BY <1>2, <1>3, <1>4, <1>5

\* A step of a depth-first search keeps its invariant.
LEMMA DepthKept ==
  ASSUME GraphTyped, DepthInv, DepthStep, UNCHANGED <<adj, search, start>>
  PROVE  GraphTyped' /\ DepthInv'
<1>1. Searching /\ Aside
  BY DEF Searching, Aside, DepthStep
<1>2. (\E v \in Nodes : Enters(v)) \/ Leave \/ Pass \/ Refuse
  BY RootOrVisit DEF DepthStep
<1>3. GraphTyped'
  BY <1>1, <1>2, DepthTyped
<1>4. StackInv' /\ MarkInv'
  <2>1. CASE Refuse
    <3>1. UNCHANGED <<adj, color, path, nth, disc, fin, cc, stack, clock, group>>
      BY <1>1, <2>1 DEF Refuse, Aside, depthVars
    <3>2. Nodes' = Nodes /\ (\A u : Children(u)' = Children(u)) /\ \A u : Looked(u)' = Looked(u)
      BY <3>1, SameGraph DEF Looked
    <3>3. StackInv'
      BY <3>1, <3>2 DEF DepthInv, StackInv
    <3>4. MarkInv'
      BY <3>1, <3>2 DEF DepthInv, MarkInv
    <3> QED BY <3>3, <3>4
  <2> QED BY <1>1, <1>2, <2>1, EntersKept, LeaveKept, PassKept
<1>5. search' = "dag" => DagInv'
  <2>1. ASSUME search = "dag" PROVE DagInv'
    <3>1. DagInv
      BY <2>1 DEF DepthInv
    <3> QED BY <1>1, <1>2, <2>1, <3>1, DagEnters, DagLeave, DagPass, DagRefuse
  <2> QED BY <2>1
<1>6. search' = "uag" => UagInv'
  <2>1. ASSUME search = "uag" PROVE UagInv'
    BY <1>1, <1>2, <2>1, UagKept DEF DepthInv
  <2> QED BY <2>1
<1>7. search' = "cc" => CcInv'
  <2>1. ASSUME search = "cc" PROVE CcInv'
    BY <1>1, <1>2, <2>1, CcKept DEF DepthInv
  <2> QED BY <2>1
<1>8. search' = "edges" => EdgesInv'
  <2>1. ASSUME search = "edges" PROVE EdgesInv'
    BY <1>1, <1>2, <2>1, EdgesKept DEF DepthInv
  <2> QED BY <2>1
<1>9. que' = <<>>
  BY <1>1 DEF Aside, DepthInv
<1> QED BY <1>3, <1>4, <1>5, <1>6, <1>7, <1>8, <1>9 DEF DepthInv

-----------------------------------------------------------------------------
(* What the depth-first programs answer                                    *)

\* The search is over, and nothing was refused.
LEMMA AllBlack ==
  ASSUME GraphTyped, DepthInv, search \in DepthFirst, Answered(search), ~refused
  PROVE  /\ stack = <<>> /\ \A u \in Nodes : color[u] = "black" /\ Looked(u) = Children(u)
         /\ \A u \in Nodes : Children(u) \subseteq Nodes
         /\ \A u \in Nodes : disc[u] \in Nat /\ fin[u] \in Nat /\ disc[u] < fin[u]
<1>1. stack = <<>> /\ \A v \in Nodes : color[v] # "white"
  BY DEF Answered
<1>2. \A v \in Nodes : color[v] # "gray"
  BY <1>1 DEF DepthInv, StackInv
<1>3. color \in [Nodes -> Marks] /\ disc \in [Nodes -> Nat] /\ fin \in [Nodes -> Nat]
  BY DEF GraphTyped
<1>4. \A v \in Nodes : color[v] = "black"
  BY <1>1, <1>2, <1>3 DEF Marks
<1>5. ASSUME NEW u \in Nodes PROVE Looked(u) = Children(u) /\ Children(u) \subseteq Nodes
  <2>1. nth[u] = Len(adj[u])
    BY <1>4 DEF DepthInv, MarkInv
  <2>2. adj \in Graphs /\ nth \in [Nodes -> Nat] /\ nth[u] <= Len(adj[u])
    BY DEF GraphTyped
  <2> QED BY <2>1, <2>2, LookedIs, GraphFacts DEF Through
<1>6. \A u \in Nodes : disc[u] < fin[u]
  BY <1>4 DEF DepthInv, MarkInv
<1> QED BY <1>1, <1>3, <1>4, <1>5, <1>6

\* A cycle is noticed, and only a cycle.
LEMMA DagAnswer == ASSUME GraphTyped, search \in DepthFirst => DepthInv PROVE DagExact
<1> SUFFICES ASSUME Answered("dag")
             PROVE  /\ refused <=> \E e \in Edges : OnCycle(e)
                    /\ ~refused => \A e \in Edges : fin[e[2]] < fin[e[1]]
  BY DEF DagExact
<1>1. search = "dag" /\ search \in DepthFirst /\ DepthInv /\ DagInv /\ Answered(search)
  BY DEF Answered, DepthFirst, DepthInv
<1>2. refused => \E e \in Edges : OnCycle(e)
  BY <1>1 DEF DagInv
<1>3. ASSUME ~refused
      PROVE  (\A e \in Edges : fin[e[2]] < fin[e[1]]) /\ ~\E e \in Edges : OnCycle(e)
  <2>1. /\ \A u \in Nodes : color[u] = "black" /\ Looked(u) = Children(u)
        /\ \A u \in Nodes : fin[u] \in Nat
    BY <1>1, <1>3, AllBlack
  <2>2. ASSUME NEW e \in Edges PROVE e[1] \in Nodes /\ e[2] \in Nodes /\ fin[e[2]] < fin[e[1]]
    <3>1. e[1] \in Nodes /\ e[2] \in Nodes /\ e[2] \in Children(e[1])
      BY DEF Edges
    <3>2. e[2] \in Looked(e[1])
      BY <2>1, <3>1
    <3> QED BY <1>1, <2>1, <3>1, <3>2 DEF DagInv
  <2>3. ASSUME NEW e \in Edges, OnCycle(e) PROVE FALSE
    <3> DEFINE S == {w \in Nodes : fin[w] <= fin[e[2]]}
    <3>1. e[2] \in S /\ S \in SUBSET Nodes
      BY <2>1, <2>2
    <3>2. ASSUME NEW d \in Edges, d[1] \in S PROVE d[2] \in S
      <4>1. fin[d[2]] < fin[d[1]] /\ fin[d[1]] <= fin[e[2]] /\ d[2] \in Nodes /\ d[1] \in Nodes
        BY <2>2, <3>2
      <4>2. fin[d[2]] \in Nat /\ fin[d[1]] \in Nat /\ fin[e[2]] \in Nat
        BY <2>1, <2>2, <4>1
      <4> QED BY <4>1, <4>2
    <3>3. e[1] \in Reach(Edges, e[2])
      BY <2>3 DEF OnCycle
    <3>4. e[1] \in S
      <4> HIDE DEF S
      <4> QED BY <3>1, <3>2, <3>3, ReachWithin
    <3>5. fin[e[1]] <= fin[e[2]] /\ fin[e[2]] < fin[e[1]] /\ fin[e[1]] \in Nat /\ fin[e[2]] \in Nat
      BY <2>1, <2>2, <3>4
    <3> QED BY <3>5
  <2> QED BY <2>2, <2>3
<1> QED BY <1>2, <1>3

\* What is accepted: the parent of a vertex is the only one that it is a child
\* of, and every tree grows from its first vertex.
LEMMA UagAccepts ==
  ASSUME GraphTyped, DepthInv, search = "uag", UagInv, Answered("uag"), ~refused
  PROVE  OneParent /\ FromEarlier
<1>1. \A u \in Nodes : Looked(u) = Children(u)
  BY AllBlack DEF DepthFirst
<1>2. ASSUME NEW e \in Edges PROVE e[1] \in Nodes /\ e[2] \in Nodes /\ path[e[2]] = e[1] /\ e = <<e[1], e[2]>>
  BY <1>1 DEF Edges, UagInv
<1>3. OneParent
  <2> SUFFICES ASSUME NEW e \in Edges, NEW f \in Edges, e[2] = f[2] PROVE e = f
    BY DEF OneParent
  <2> QED BY <1>2
<1>4. FromEarlier
  <2> SUFFICES ASSUME NEW e \in Edges PROVE \E w \in Nodes : w < e[2] /\ e[2] \in Reach(Edges, w)
    BY DEF FromEarlier
  <2>1. path[e[2]] # 0 /\ e[2] \in Nodes
    BY <1>2, GraphFacts DEF GraphTyped
  <2> QED BY <2>1 DEF UagInv
<1> QED BY <1>3, <1>4

\* Where every vertex is found once, taking away an edge cuts its ends apart.
LEMMA UagForest ==
  ASSUME GraphTyped, search \in DepthFirst => DepthInv, Answered("uag"), ~refused,
         NEW e \in Edges
  PROVE  e[1] \notin Reach(Both(Edges \ {e}), e[2])
<1> SUFFICES ASSUME e[1] \in Reach(Both(Edges \ {e}), e[2]) PROVE FALSE
  OBVIOUS
<1>1. search = "uag" /\ search \in DepthFirst /\ DepthInv /\ UagInv /\ Answered(search)
  BY DEF Answered, DepthFirst, DepthInv
<1>2. PICK a \in Nodes, b \in Nodes : e = <<a, b>> /\ b \in Children(a) /\ a = e[1] /\ b = e[2]
  BY DEF Edges
<1>3. /\ \A u \in Nodes : Looked(u) = Children(u) /\ disc[u] \in Nat
  BY <1>1, AllBlack
\* The parent of a vertex is the only one that it is a child of.
<1>4. \A u, v \in Nodes : <<u, v>> \in Edges => path[v] = u /\ disc[u] < disc[v]
  <2>1. \A u, v \in Nodes : <<u, v>> \in Edges => path[v] = u
    BY <1>1, <1>3, EdgeIs DEF UagInv
  <2>2. 0 \notin Nodes
    BY GraphFacts DEF GraphTyped
  <2> QED BY <1>1, <2>1, <2>2 DEF DepthInv, MarkInv
<1> DEFINE S == Reach(Edges, b)
           Later == {w \in Nodes : disc[b] <= disc[w]}
<1>5. S \in SUBSET Nodes /\ b \in S
  BY ReachSelf, ReachIsNode
<1>6. \A w \in S : disc[b] <= disc[w]
  <2>1. b \in Later /\ Later \in SUBSET Nodes
    BY <1>3
  <2>2. ASSUME NEW d \in Edges, d[1] \in Later PROVE d[2] \in Later
    <3>1. PICK u \in Nodes, v \in Nodes : d = <<u, v>> /\ d[1] = u /\ d[2] = v
      BY DEF Edges
    <3>2. disc[u] < disc[v] /\ disc[b] <= disc[u] /\ disc[u] \in Nat /\ disc[v] \in Nat /\ disc[b] \in Nat
      BY <1>3, <1>4, <2>2, <3>1
    <3> QED BY <3>1, <3>2
  <2>3. \A w \in S : w \in Later
    <3> HIDE DEF Later
    <3> QED BY <2>1, <2>2, ReachWithin
  <2> QED BY <2>3
<1>7. ASSUME NEW u \in Nodes, NEW v \in S, <<u, v>> \in Edges, v # b PROVE u \in S
  <2>1. CASE u = v
    BY <2>1
  <2>2. CASE u # v /\ u \notin S
    <3> DEFINE R == S \ {v}
    <3>1. b \in R /\ R \in SUBSET Nodes /\ v \in Nodes
      BY <1>5, <1>7
    <3>2. ASSUME NEW d \in Edges, d[1] \in R PROVE d[2] \in R
      <4>1. PICK x \in Nodes, y \in Nodes : d = <<x, y>> /\ d[1] = x /\ d[2] = y
        BY DEF Edges
      <4>2. y \in S
        BY <3>2, <4>1, ReachOn
      <4>3. y = v => x = u
        BY <1>4, <1>7, <3>1, <4>1
      <4> QED BY <2>2, <3>2, <4>1, <4>2, <4>3
    <3>3. v \in R
      <4> HIDE DEF R
      <4> QED BY <3>1, <3>2, ReachWithin
    <3> QED BY <3>3
  <2> QED BY <2>1, <2>2
<1>8. ASSUME NEW d \in Both(Edges \ {e}), d[1] \in S PROVE d[2] \in S
  <2>1. CASE d \in Edges
    <3>1. PICK x \in Nodes, y \in Nodes : d = <<x, y>> /\ d[1] = x /\ d[2] = y
      BY <2>1 DEF Edges
    <3> QED BY <1>8, <2>1, <3>1, ReachOn
  <2>2. CASE \E f \in Edges \ {e} : d = <<f[2], f[1]>>
    <3>1. PICK f \in Edges \ {e} : d = <<f[2], f[1]>>
      BY <2>2
    <3>2. PICK x \in Nodes, y \in Nodes : f = <<x, y>> /\ d[1] = y /\ d[2] = x
      BY <3>1 DEF Edges
    <3>3. CASE y = b
      <4>1. <<a, b>> \in Edges /\ <<x, b>> \in Edges
        BY <1>2, <3>2, <3>3
      <4>2. x = a
        BY <1>4, <4>1
      <4> QED BY <1>2, <3>1, <3>2, <3>3, <4>2
    <3>4. CASE y # b
      BY <1>7, <1>8, <3>1, <3>2, <3>4
    <3> QED BY <3>3, <3>4
  <2> QED BY <2>1, <2>2 DEF Both
<1>9. a \in S
  <2>1. a \in Reach(Both(Edges \ {e}), b)
    BY <1>2
  <2> HIDE DEF S
  <2> QED BY <1>5, <1>8, <2>1, ReachWithin
<1>10. disc[a] < disc[b] /\ disc[b] <= disc[a] /\ disc[a] \in Nat /\ disc[b] \in Nat
  BY <1>2, <1>3, <1>4, <1>6, <1>9
<1> QED BY <1>10

\* Of an edge in both directions, taking away one leaves the other.
LEMMA UagAnswer == ASSUME GraphTyped, search \in DepthFirst => DepthInv PROVE AcceptedExact
<1> SUFFICES ASSUME Answered("uag")
             PROVE  /\ ~refused <=> OneParent /\ FromEarlier
                    /\ ~refused => \A e \in Edges : /\ <<e[2], e[1]>> \notin Edges
                                                    /\ e[1] \notin Reach(Both(Edges \ {e}), e[2])
  BY DEF AcceptedExact
<1>1. search = "uag" /\ DepthInv /\ UagInv
  BY DEF Answered, DepthFirst, DepthInv
<1>2. ~refused <=> OneParent /\ FromEarlier
  <2>1. refused \in BOOLEAN /\ (refused => ~(OneParent /\ FromEarlier))
    BY <1>1 DEF UagInv, GraphTyped
  <2>2. ~refused => OneParent /\ FromEarlier
    BY <1>1, UagAccepts
  <2> QED BY <2>1, <2>2
<1>3. ASSUME ~refused, NEW e \in Edges
      PROVE  <<e[2], e[1]>> \notin Edges /\ e[1] \notin Reach(Both(Edges \ {e}), e[2])
  <2>1. e[1] \notin Reach(Both(Edges \ {e}), e[2])
    BY <1>3, UagForest
  <2>2. PICK a \in Nodes, b \in Nodes : e = <<a, b>> /\ a = e[1] /\ b = e[2]
    BY DEF Edges
  <2>3. a # b
    BY <2>1, <2>2, ReachSelf
  <2>4. ASSUME <<b, a>> \in Edges PROVE FALSE
    <3>1. <<b, a>> \in Both(Edges \ {e})
      BY <2>2, <2>3, <2>4 DEF Both
    <3>2. b \in Reach(Both(Edges \ {e}), b)
      BY ReachSelf
    <3>3. a \in Reach(Both(Edges \ {e}), b)
      BY <3>1, <3>2, ReachOn
    <3> QED BY <2>1, <2>2, <3>3
  <2> QED BY <2>1, <2>2, <2>4
<1> QED BY <1>2, <1>3

\* Two vertices are in a class exactly if they are connected.
LEMMA CcAnswer == ASSUME GraphTyped, search \in DepthFirst => DepthInv PROVE ComponentsExact
<1> SUFFICES ASSUME Answered("cc"), Undirected, NEW u \in Nodes, NEW v \in Nodes
             PROVE  cc[u] = cc[v] <=> v \in Reach(Edges, u)
  BY DEF ComponentsExact
<1>1. search = "cc" /\ search \in DepthFirst /\ DepthInv /\ CcInv /\ Answered(search) /\ ~refused
  BY DEF Answered, DepthFirst, DepthInv, GraphTyped
<1>2. \A w \in Nodes : color[w] = "black" /\ Looked(w) = Children(w)
  BY <1>1, AllBlack
<1>3. cc[u] = cc[v] => v \in Reach(Edges, u)
  BY <1>1, <1>2 DEF CcInv
<1>4. ASSUME v \in Reach(Edges, u) PROVE cc[u] = cc[v]
  <2> DEFINE S == {w \in Nodes : cc[w] = cc[u]}
  <2>1. u \in S /\ S \in SUBSET Nodes
    OBVIOUS
  <2>2. ASSUME NEW d \in Edges, d[1] \in S PROVE d[2] \in S
    <3>1. d[1] \in Nodes /\ d[2] \in Nodes /\ d[2] \in Children(d[1])
      BY DEF Edges
    <3>2. d[2] \in Looked(d[1])
      BY <1>2, <3>1
    <3>3. cc[d[1]] = cc[d[2]]
      BY <1>1, <3>1, <3>2 DEF CcInv
    <3> QED BY <2>2, <3>1, <3>3
  <2>3. v \in S
    <3> HIDE DEF S
    <3> QED BY <1>4, <2>1, <2>2, ReachWithin
  <2> QED BY <2>3
<1> QED BY <1>3, <1>4

\* What is printed is the kind the times of the finished search give.
LEMMA EdgesAnswer == ASSUME GraphTyped, search \in DepthFirst => DepthInv PROVE KindsPrinted
<1> SUFFICES ASSUME Answered("edges"), NEW e \in Edges, <<e[2], e[1]>> \notin Edges
             PROVE  Tells(e) = IF Kind(e) = "tree" THEN {"tree", "forward"} ELSE {Kind(e)}
  BY DEF KindsPrinted
<1>1. search = "edges" /\ search \in DepthFirst /\ DepthInv /\ EdgesInv /\ Answered(search) /\ ~refused
  BY DEF Answered, DepthFirst, DepthInv, GraphTyped
<1>2. PICK u \in Nodes, v \in Nodes : e = <<u, v>> /\ v \in Children(u) /\ e[1] = u /\ e[2] = v
  BY DEF Edges
<1>3. u \notin Children(v)
  BY <1>2, EdgeIs
<1>4. /\ color[u] = "black" /\ color[v] = "black" /\ v \in Looked(u)
      /\ disc[u] \in Nat /\ fin[u] \in Nat /\ disc[u] < fin[u]
      /\ disc[v] \in Nat /\ fin[v] \in Nat /\ disc[v] < fin[v]
  BY <1>1, <1>2, AllBlack
<1>5. IF path[v] = u THEN Tells(e) = {"tree", "forward"}
                     ELSE Backward(u, v) \/ Forward(u, v) \/ Across(u, v)
  BY <1>1, <1>2, <1>3, <1>4 DEF EdgesInv
<1>6. CASE path[v] = u
  BY <1>2, <1>5, <1>6 DEF Kind
<1>7. CASE path[v] # u /\ Backward(u, v)
  <2>1. Tells(e) = {"back"} /\ disc[v] < disc[u] /\ fin[u] < fin[v]
    BY <1>2, <1>4, <1>7 DEF Backward
  <2>2. Kind(e) = "back"
    BY <1>2, <1>4, <1>7, <2>1 DEF Kind
  <2> QED BY <2>1, <2>2
<1>8. CASE path[v] # u /\ Forward(u, v)
  <2>1. Tells(e) = {"forward"} /\ disc[u] < disc[v] /\ fin[v] < fin[u]
    BY <1>2, <1>4, <1>8 DEF Forward
  <2>2. Kind(e) = "forward"
    BY <1>2, <1>4, <1>8, <2>1 DEF Kind
  <2> QED BY <2>1, <2>2
<1>9. CASE path[v] # u /\ Across(u, v)
  <2>1. Tells(e) = {"cross"} /\ fin[v] < disc[u]
    BY <1>2, <1>9 DEF Across
  <2>2. Kind(e) = "cross"
    BY <1>2, <1>4, <1>9, <2>1 DEF Kind
  <2> QED BY <2>1, <2>2
<1> QED BY <1>5, <1>6, <1>7, <1>8, <1>9

-----------------------------------------------------------------------------
(* The graph programs: breadth first                                       *)

\* The queue.
LEMMA QueHead ==
  ASSUME que \in Seq(Nodes), que # <<>>
  PROVE  /\ Head(que) = que[1] /\ que[1] \in Nodes /\ Len(que) \in Nat \ {0} /\ 1 \in 1..Len(que)
         /\ \A i \in 1..Len(que) : que[i] \in Nodes
<1>1. Len(que) \in Nat \ {0} /\ \A i \in 1..Len(que) : que[i] \in Nodes
  OBVIOUS
<1>2. 1 \in 1..Len(que)
  BY <1>1
<1> QED BY <1>1, <1>2

\* A vertex at the end of the queue.
LEMMA QueGrows ==
  ASSUME que \in Seq(Nodes), NEW v \in Nodes, que' = Append(que, v)
  PROVE  /\ que' \in Seq(Nodes) /\ Len(que') = Len(que) + 1 /\ Len(que) \in Nat /\ que' # <<>>
         /\ \A i \in 1..Len(que) : que'[i] = que[i]
         /\ que'[Len(que) + 1] = v
         /\ \A i : i \in 1..(Len(que) + 1) <=> i \in 1..Len(que) \/ i = Len(que) + 1
<1>1. Len(que) \in Nat
  OBVIOUS
<1>2. \A i : i \in 1..(Len(que) + 1) <=> i \in 1..Len(que) \/ i = Len(que) + 1
  BY <1>1
<1>3. que' \in Seq(Nodes) /\ Len(que') = Len(que) + 1 /\ que'[Len(que) + 1] = v /\ \A i \in 1..Len(que) : que'[i] = que[i]
  OBVIOUS
<1>4. que' # <<>>
  BY <1>1, <1>3
<1> QED BY <1>1, <1>2, <1>3, <1>4

\* The queue without its head.
LEMMA QueShrinks ==
  ASSUME que \in Seq(Nodes), que # <<>>, que' = Tail(que)
  PROVE  /\ que' \in Seq(Nodes) /\ Len(que') = Len(que) - 1
         /\ \A i \in 1..(Len(que) - 1) : que'[i] = que[i + 1] /\ i + 1 \in 1..Len(que)
         /\ \A i \in 1..Len(que) : i # 1 => i - 1 \in 1..(Len(que) - 1) /\ que'[i - 1] = que[i]
         /\ que' # <<>> => 1 \in 1..(Len(que) - 1) /\ que'[1] = que[2]
<1>1. Len(que) \in Nat \ {0}
  BY QueHead
<1>2. que' \in Seq(Nodes) /\ Len(que') = Len(que) - 1 /\ \A i \in 1..(Len(que) - 1) : que'[i] = que[i + 1]
  <2>1. que' \in Seq(Nodes) /\ Len(que') = Len(que) - 1
    BY HeadTailProperties
  <2>2. \A i \in 1..(Len(que) - 1) : que'[i] = que[i + 1]
    BY <1>1
  <2> QED BY <2>1, <2>2
<1>3. \A i \in 1..(Len(que) - 1) : i + 1 \in 1..Len(que)
  BY <1>1
<1>4. \A i \in 1..Len(que) : i # 1 => i - 1 \in 1..(Len(que) - 1) /\ que'[i - 1] = que[i]
  <2>1. ASSUME NEW i \in 1..Len(que), i # 1 PROVE i - 1 \in 1..(Len(que) - 1) /\ que'[i - 1] = que[i]
    <3>1. i - 1 \in 1..(Len(que) - 1) /\ (i - 1) + 1 = i
      BY <1>1, <2>1
    <3>2. que'[i - 1] = que[(i - 1) + 1]
      BY <1>2, <3>1
    <3> QED BY <3>1, <3>2
  <2> QED BY <2>1
<1>5. que' # <<>> => 1 \in 1..(Len(que) - 1) /\ que'[1] = que[2]
  <2>1. ASSUME que' # <<>> PROVE 1 \in 1..(Len(que) - 1)
    <3>1. Len(que') # 0
      BY <1>2, <2>1
    <3> QED BY <1>1, <1>2, <3>1
  <2>2. 1 \in 1..(Len(que) - 1) => que'[1] = que[1 + 1]
    BY <1>2
  <2> QED BY <2>1, <2>2
<1> QED BY <1>2, <1>3, <1>4, <1>5

\* The head of the queue has its children behind it.
LEMMA Dequeued ==
  ASSUME GraphTyped, que # <<>>, Through(Head(que)), Dequeue, adj' = adj
  PROVE  /\ nth' \in [Nodes -> Nat] /\ \A w \in Nodes : nth'[w] <= Len(adj[w])
         /\ \A w \in Nodes : nth'[w] = IF w = que[1] THEN 0 ELSE nth[w]
         /\ Looked(que[1]) = Children(que[1])
         /\ \A w \in Nodes : w # que[1] => Looked(w)' = Looked(w)
         /\ \A w \in Nodes : w = que[1] => Looked(w)' = {}
<1>1. /\ adj \in Graphs /\ nth \in [Nodes -> Nat] /\ (\A w \in Nodes : nth[w] <= Len(adj[w]))
      /\ que \in Seq(Nodes)
  BY DEF GraphTyped
<1>2. Head(que) = que[1] /\ que[1] \in Nodes
  BY <1>1, QueHead
<1>3. \A w \in Nodes : nth'[w] = IF w = que[1] THEN 0 ELSE nth[w]
  BY <1>1, <1>2 DEF Dequeue
<1>4. nth' \in [Nodes -> Nat]
  BY <1>1, <1>2 DEF Dequeue
<1>5. \A w \in Nodes : Len(adj[w]) \in Nat
  BY <1>1, GraphFacts
<1>6. \A w \in Nodes : nth'[w] <= Len(adj[w])
  BY <1>1, <1>3, <1>5
<1>7. Looked(que[1]) = Children(que[1])
  BY <1>1, <1>2, LookedIs
<1>8. \A w \in Nodes : w # que[1] => Looked(w)' = Looked(w)
  BY <1>3 DEF Looked
<1>9. \A w \in Nodes : w = que[1] => Looked(w)' = {}
  <2>1. ASSUME NEW w \in Nodes, w = que[1] PROVE Looked(w)' = {}
    <3>1. nth'[w] = 0
      BY <1>3, <2>1
    <3>2. 1..nth'[w] = {}
      BY <3>1
    <3> QED BY <3>2 DEF Looked
  <2> QED BY <2>1
<1> QED BY <1>3, <1>4, <1>6, <1>7, <1>8, <1>9

\* The head of the queue looks at a child.
LEMMA HeadLooks ==
  ASSUME GraphTyped, que # <<>>, NEW v \in Nodes, Looks(Head(que), v), adj' = adj
  PROVE  /\ v \in Children(que[1]) /\ v \notin Looked(que[1]) /\ <<que[1], v>> \in Edges
         /\ Advances(Head(que)) =>
              /\ nth' \in [Nodes -> Nat] /\ \A w \in Nodes : nth'[w] <= Len(adj[w])
              /\ \A w \in Nodes : w # que[1] => nth'[w] = nth[w] /\ Looked(w)' = Looked(w)
              /\ \A w \in Nodes : w = que[1] => Looked(w)' = Looked(w) \union {v}
<1>1. /\ adj \in Graphs /\ nth \in [Nodes -> Nat] /\ (\A w \in Nodes : nth[w] <= Len(adj[w]))
      /\ que \in Seq(Nodes)
  BY DEF GraphTyped
<1>2. PICK h \in Nodes : h = que[1] /\ h = Head(que)
  BY <1>1, QueHead
<1>3. Looks(h, v)
  BY <1>2
<1>4. v \in Children(h) /\ v \notin Looked(h)
  BY <1>1, <1>3, LooksAt
<1>5. <<h, v>> \in Edges
  BY <1>4, EdgeIs
<1>6. ASSUME Advances(Head(que))
      PROVE  /\ nth' \in [Nodes -> Nat] /\ \A w \in Nodes : nth'[w] <= Len(adj[w])
             /\ \A w \in Nodes : w # que[1] => nth'[w] = nth[w] /\ Looked(w)' = Looked(w)
             /\ \A w \in Nodes : w = que[1] => Looked(w)' = Looked(w) \union {v}
  <2>1. Advances(h)
    BY <1>2, <1>6
  <2>2. /\ nth' \in [Nodes -> Nat] /\ \A w \in Nodes : nth'[w] <= Len(adj[w])
        /\ \A w \in Nodes : nth'[w] = IF w = h THEN nth[h] + 1 ELSE nth[w]
        /\ Looked(h)' = Looked(h) \union {v}
        /\ \A w \in Nodes \ {h} : Looked(w)' = Looked(w)
    BY <1>1, <1>3, <2>1, Advanced
  <2>3. \A w \in Nodes : w # h => nth'[w] = nth[w] /\ Looked(w)' = Looked(w)
    BY <2>2
  <2>4. \A w \in Nodes : w = h => Looked(w)' = Looked(w) \union {v}
    BY <2>2
  <2> QED BY <1>2, <2>2, <2>3, <2>4
<1> QED BY <1>2, <1>4, <1>5, <1>6

\* A walk goes on.
LEMMA WalkOn ==
  ASSUME NEW k \in Nat, NEW u \in Nodes, NEW v \in Nodes, WalkTo(k, u), <<u, v>> \in Edges
  PROVE  WalkTo(k + 1, v)
<1>1. PICK w \in [0..k -> Nodes] : w[0] = start /\ w[k] = u /\ \A i \in 0..(k - 1) : <<w[i], w[i + 1]>> \in Edges
  BY DEF WalkTo
<1> DEFINE x == [i \in 0..(k + 1) |-> IF i = k + 1 THEN v ELSE w[i]]
<1>2. \A i \in 0..(k + 1) : i = k + 1 \/ i \in 0..k
  OBVIOUS
<1>3. x \in [0..(k + 1) -> Nodes]
  BY <1>2
<1>4. x[0] = start /\ x[k + 1] = v
  BY <1>1
<1>5. ASSUME NEW i \in 0..((k + 1) - 1) PROVE <<x[i], x[i + 1]>> \in Edges
  <2>1. i \in 0..k /\ i \in 0..(k + 1) /\ i + 1 \in 0..(k + 1) /\ i # k + 1
    OBVIOUS
  <2>2. x[i] = w[i]
    BY <2>1
  <2>3. CASE i = k
    <3>1. x[i + 1] = v
      BY <2>1, <2>3
    <3> QED BY <1>1, <2>2, <2>3, <3>1
  <2>4. CASE i # k
    <3>1. i \in 0..(k - 1) /\ i + 1 # k + 1
      BY <2>1, <2>4
    <3>2. x[i + 1] = w[i + 1]
      BY <2>1, <3>1
    <3> QED BY <1>1, <2>2, <3>1, <3>2
  <2> QED BY <2>3, <2>4
<1> HIDE DEF x
<1> QED BY <1>3, <1>4, <1>5 DEF WalkTo

\* The shortest walk leads nowhere.
LEMMA WalkStart == ASSUME start \in Nodes PROVE WalkTo(0, start)
<1> DEFINE w == [i \in 0..0 |-> start]
<1>1. w \in [0..0 -> Nodes] /\ w[0] = start /\ \A i \in 0..(0 - 1) : <<w[i], w[i + 1]>> \in Edges
  OBVIOUS
<1> HIDE DEF w
<1> QED BY <1>1 DEF WalkTo

\* A breadth-first search under way, and what its steps leave alone.
Broad  == GraphTyped /\ BreadthInv /\ search = "bfs" /\ que # <<>>
BAside == UNCHANGED <<adj, search, start, passed, refused, depthVars, topoVars>>

\* What the invariant says of the search, without the actions.
LEMMA BroadFacts ==
  ASSUME Broad, BAside
  PROVE  /\ Nodes' = Nodes /\ Edges' = Edges /\ adj' = adj /\ start' = start /\ stack' = <<>>
         /\ (\A u : Children(u)' = Children(u)) /\ (\A E, u : Reach(E, u)' = Reach(E, u))
         /\ \A k, v : WalkTo(k, v)' = WalkTo(k, v)
         /\ adj \in Graphs /\ color \in [Nodes -> Marks] /\ path \in [Nodes -> Nodes \union {0}]
         /\ dist \in [Nodes -> Int] /\ nth \in [Nodes -> Nat] /\ que \in Seq(Nodes)
         /\ que[1] \in Nodes /\ Head(que) = que[1] /\ color[que[1]] = "gray" /\ dist[que[1]] \in Nat
         /\ Len(que) \in Nat \ {0} /\ 1 \in 1..Len(que)
         /\ \A i \in 1..Len(que) : que[i] \in Nodes /\ color[que[i]] = "gray" /\ dist[que[i]] \in Nat
         /\ \A u \in Nodes : Children(u) \subseteq Nodes
         /\ \A u \in Nodes : Looked(u) \subseteq Children(u)
<1>1. adj' = adj /\ start' = start /\ stack' = stack /\ stack = <<>>
  BY DEF BAside, depthVars, Broad, BreadthInv
<1>2. Nodes' = Nodes /\ Edges' = Edges /\ (\A u : Children(u)' = Children(u)) /\ (\A E, u : Reach(E, u)' = Reach(E, u))
  BY <1>1, SameGraph
<1>3. \A k, v : WalkTo(k, v)' = WalkTo(k, v)
  BY <1>1, <1>2 DEF WalkTo
<1>4. /\ adj \in Graphs /\ color \in [Nodes -> Marks] /\ path \in [Nodes -> Nodes \union {0}]
      /\ dist \in [Nodes -> Int] /\ nth \in [Nodes -> Nat] /\ que \in Seq(Nodes) /\ que # <<>>
      /\ \A u \in Nodes : nth[u] <= Len(adj[u])
  BY DEF Broad, GraphTyped
<1>5. /\ que[1] \in Nodes /\ Head(que) = que[1] /\ Len(que) \in Nat \ {0} /\ 1 \in 1..Len(que)
      /\ \A i \in 1..Len(que) : que[i] \in Nodes
  BY <1>4, QueHead
<1>6. \A i \in 1..Len(que) : color[que[i]] = "gray"
  BY <1>5 DEF Broad, BreadthInv
<1>7. \A i \in 1..Len(que) : dist[que[i]] \in Nat
  BY <1>5, <1>6 DEF Broad, BreadthInv
<1>8. \A u \in Nodes : Children(u) \subseteq Nodes
  BY <1>4, GraphFacts
<1>9. \A u \in Nodes : Looked(u) \subseteq Children(u)
  BY <1>4, LookedIs
<1> QED BY <1>1, <1>2, <1>3, <1>4, <1>5, <1>6, <1>7, <1>8, <1>9

\* A breadth-first search keeps the types.
LEMMA BreadthTyped ==
  ASSUME Broad, BAside, color' \in [Nodes -> Marks], path' \in [Nodes -> Nodes \union {0}],
         dist' \in [Nodes -> Int], que' \in Seq(Nodes),
         nth' \in [Nodes -> Nat], \A w \in Nodes : nth'[w] <= Len(adj[w])
  PROVE  GraphTyped'
<1>1. Nodes' = Nodes /\ adj' = adj
  BY BroadFacts
<1>2. GraphTyped /\ UNCHANGED <<search, start, passed, refused, disc, fin, cc, stack, clock, group, cnt, listed>>
  BY DEF Broad, BAside, depthVars, topoVars
<1> QED BY <1>1, <1>2 DEF GraphTyped

\* A vertex that is found is one step further than the head of the queue, as far as any in it.
LEMMA FindKept == ASSUME Broad, BAside, Find PROVE GraphTyped' /\ BreadthInv'
<1>0. /\ Nodes' = Nodes /\ Edges' = Edges /\ adj' = adj /\ start' = start /\ stack' = <<>>
      /\ (\A u : Children(u)' = Children(u)) /\ (\A E, u : Reach(E, u)' = Reach(E, u))
      /\ \A k, v : WalkTo(k, v)' = WalkTo(k, v)
      /\ adj \in Graphs /\ color \in [Nodes -> Marks] /\ path \in [Nodes -> Nodes \union {0}]
      /\ dist \in [Nodes -> Int] /\ nth \in [Nodes -> Nat] /\ que \in Seq(Nodes)
      /\ Head(que) = que[1]
      /\ Len(que) \in Nat \ {0} /\ 1 \in 1..Len(que)
      /\ \A i \in 1..Len(que) : que[i] \in Nodes /\ color[que[i]] = "gray" /\ dist[que[i]] \in Nat
      /\ \A u \in Nodes : Children(u) \subseteq Nodes
      /\ \A u \in Nodes : Looked(u) \subseteq Children(u)
  BY BroadFacts
<1>b. BreadthInv /\ GraphTyped /\ que # <<>>
  BY DEF Broad
<1>1. PICK h \in Nodes : h = que[1] /\ h = Head(que) /\ color[h] = "gray" /\ dist[h] \in Nat
  BY BroadFacts
<1>2. PICK v \in Nodes : /\ Looks(Head(que), v) /\ color[v] = "white"
                         /\ color' = [color EXCEPT ![v] = "gray"] /\ path' = [path EXCEPT ![v] = h]
                         /\ dist' = [dist EXCEPT ![v] = dist[h] + 1] /\ que' = Append(que, v)
  BY <1>1 DEF Find
<1>3. Advances(Head(que))
  BY DEF Find
<1>4. /\ v \in Children(h) /\ <<h, v>> \in Edges
      /\ nth' \in [Nodes -> Nat] /\ \A w \in Nodes : nth'[w] <= Len(adj[w])
      /\ \A w \in Nodes : w # h => nth'[w] = nth[w] /\ Looked(w)' = Looked(w)
      /\ \A w \in Nodes : w = h => Looked(w)' = Looked(w) \union {v}
  BY <1>0, <1>1, <1>2, <1>3, <1>b, HeadLooks
<1>5. /\ color'[v] = "gray" /\ path'[v] = h /\ dist'[v] = dist[h] + 1
      /\ \A w \in Nodes : w # v => color'[w] = color[w] /\ path'[w] = path[w] /\ dist'[w] = dist[w]
      /\ color' \in [Nodes -> Marks] /\ path' \in [Nodes -> Nodes \union {0}] /\ dist' \in [Nodes -> Int]
  BY <1>0, <1>1, <1>2 DEF Marks
<1>6. /\ que' \in Seq(Nodes) /\ Len(que') = Len(que) + 1 /\ que' # <<>>
      /\ \A i \in 1..Len(que) : que'[i] = que[i]
      /\ que'[Len(que) + 1] = v
      /\ \A i : i \in 1..(Len(que) + 1) <=> i \in 1..Len(que) \/ i = Len(que) + 1
  BY <1>0, <1>2, QueGrows
<1>7. GraphTyped'
  BY <1>4, <1>5, <1>6, BreadthTyped
<1>8. h # v /\ que'[1] = h /\ nth[v] = 0 /\ v # start
  BY <1>0, <1>1, <1>2, <1>6, <1>b DEF BreadthInv
<1>9. \A i \in 1..Len(que) : que[i] # v /\ dist'[que[i]] = dist[que[i]] /\ dist[que[i]] <= dist[h] + 1 /\ dist[h] <= dist[que[i]]
  <2>1. \A i \in 1..Len(que) : que[i] # v /\ dist[que[i]] <= dist[h] + 1
    BY <1>0, <1>1, <1>2, <1>b DEF BreadthInv
  <2>2. ASSUME NEW i \in 1..Len(que) PROVE dist[h] <= dist[que[i]]
    <3>1. CASE i = 1
      BY <1>0, <1>1, <3>1
    <3>2. CASE i # 1
      <4>1. 1 < i
        BY <3>2
      <4> QED BY <1>0, <1>1, <1>b, <4>1 DEF BreadthInv
    <3> QED BY <3>1, <3>2
  <2> QED BY <1>0, <1>5, <2>1, <2>2
<1>10. ASSUME NEW w \in Nodes PROVE color'[w] = "gray" <=> \E i \in 1..Len(que') : que'[i] = w
  <2>1. CASE w = v
    BY <1>0, <1>5, <1>6, <2>1
  <2>2. CASE w # v
    <3>1. color[w] = "gray" <=> \E i \in 1..Len(que) : que[i] = w
      BY <1>b DEF BreadthInv
    <3> QED BY <1>5, <1>6, <2>2, <3>1
  <2> QED BY <2>1, <2>2
<1>11. ASSUME NEW i \in 1..Len(que'), NEW j \in 1..Len(que'), i < j
       PROVE  que'[i] # que'[j] /\ dist'[que'[i]] <= dist'[que'[j]]
  <2>1. i \in 1..Len(que)
    BY <1>0, <1>6, <1>11
  <2>2. CASE j = Len(que) + 1
    BY <1>1, <1>5, <1>6, <1>9, <2>1, <2>2
  <2>3. CASE j \in 1..Len(que)
    <3>1. que[i] # que[j] /\ dist[que[i]] <= dist[que[j]]
      BY <1>11, <1>b, <2>1, <2>3 DEF BreadthInv
    <3> QED BY <1>6, <1>9, <2>1, <2>3, <3>1
  <2> QED BY <1>6, <2>2, <2>3
<1>12. ASSUME NEW i \in 1..Len(que')
       PROVE  dist'[que'[i]] <= dist'[que'[1]] + 1 /\ (i > 1 => nth'[que'[i]] = 0)
  <2>0. dist'[que'[1]] = dist[h]
    BY <1>5, <1>8
  <2>1. CASE i = Len(que) + 1
    <3>1. nth'[v] = 0
      BY <1>4, <1>8
    <3> QED BY <1>1, <1>5, <1>6, <2>0, <2>1, <3>1
  <2>2. CASE i \in 1..Len(que)
    <3>1. i > 1 => nth'[que[i]] = 0
      <4>1. ASSUME i > 1 PROVE que[i] # h /\ nth[que[i]] = 0
        <5>1. 1 < i
          BY <2>2, <4>1
        <5> QED BY <1>0, <1>1, <1>b, <2>2, <4>1, <5>1 DEF BreadthInv
      <4> QED BY <1>0, <1>4, <2>2, <4>1
    <3> QED BY <1>6, <1>9, <2>0, <2>2, <3>1
  <2> QED BY <1>6, <2>1, <2>2
<1>13. ASSUME NEW u \in Nodes, color'[u] = "black", NEW i \in 1..Len(que') PROVE dist'[u] <= dist'[que'[i]]
  <2>1. u # v /\ color[u] = "black" /\ dist'[u] = dist[u] /\ dist[u] \in Int
    BY <1>0, <1>5, <1>13
  <2>2. dist[u] <= dist[h]
    BY <1>0, <1>1, <1>b, <2>1 DEF BreadthInv
  <2>3. CASE i = Len(que) + 1
    BY <1>1, <1>5, <1>6, <2>1, <2>2, <2>3
  <2>4. CASE i \in 1..Len(que)
    BY <1>6, <1>9, <1>b, <2>1, <2>4 DEF BreadthInv
  <2> QED BY <1>6, <2>3, <2>4
<1>14. ASSUME NEW u \in Nodes, color'[u] = "black", NEW w \in Children(u)
       PROVE  color'[w] # "white" /\ dist'[w] <= dist'[u] + 1
  <2>1. u # v /\ color[u] = "black" /\ w \in Nodes
    BY <1>0, <1>5, <1>14
  <2>2. color[w] # "white" /\ dist[w] <= dist[u] + 1
    BY <1>b, <2>1 DEF BreadthInv
  <2> QED BY <1>2, <1>5, <2>1, <2>2
<1>15. ASSUME NEW w \in Looked(h)' PROVE color'[w] # "white" /\ dist'[w] <= dist'[h] + 1
  <2>1. CASE w = v
    BY <1>1, <1>5, <1>8, <2>1
  <2>2. CASE w # v
    <3>1. w \in Looked(h) /\ w \in Nodes
      BY <1>0, <1>4, <1>15, <2>2
    <3>2. color[w] # "white" /\ dist[w] <= dist[h] + 1
      BY <1>1, <1>b, <3>1 DEF BreadthInv
    <3> QED BY <1>5, <1>8, <2>2, <3>1, <3>2
  <2> QED BY <2>1, <2>2
<1>16. start \in Nodes /\ color'[start] # "white" /\ dist'[start] = 0 /\ path'[start] = 0
  BY <1>5, <1>8, <1>b DEF BreadthInv
<1>17. \A w \in Nodes : color'[w] = "white" => dist'[w] = Infinity /\ path'[w] = 0 /\ nth'[w] = 0
  <2>1. \A w \in Nodes : color'[w] = "white" => w # v /\ w # h /\ color[w] = "white"
    BY <1>1, <1>5
  <2>2. \A w \in Nodes : color[w] = "white" => dist[w] = Infinity /\ path[w] = 0 /\ nth[w] = 0
    BY <1>b DEF BreadthInv
  <2> QED BY <1>4, <1>5, <2>1, <2>2
<1>18. ASSUME NEW w \in Nodes, color'[w] # "white"
       PROVE  dist'[w] \in Nat /\ WalkTo(dist'[w], w) /\ w \in Reach(Edges, start)
  <2>1. CASE w = v
    <3>1. WalkTo(dist[h], h) /\ h \in Reach(Edges, start)
      BY <1>1, <1>b DEF BreadthInv
    <3>2. WalkTo(dist[h] + 1, v) /\ v \in Reach(Edges, start)
      BY <1>1, <1>4, <3>1, WalkOn, ReachOn
    <3> QED BY <1>1, <1>5, <2>1, <3>2
  <2>2. CASE w # v
    BY <1>18, <1>5, <1>b, <2>2 DEF BreadthInv
  <2> QED BY <2>1, <2>2
<1>19. ASSUME NEW w \in Nodes, color'[w] # "white", w # start
       PROVE  /\ path'[w] # 0 /\ color'[path'[w]] # "white" /\ dist'[w] = dist'[path'[w]] + 1
              /\ <<path'[w], w>> \in Edges
  <2>1. CASE w = v
    <3>1. h # 0
      BY <1>0, GraphFacts
    <3> QED BY ZenonT(60), <1>1, <1>4, <1>5, <1>8, <2>1, <3>1
  <2>2. CASE w # v
    <3>1. color[w] # "white" /\ path'[w] = path[w] /\ dist'[w] = dist[w]
      BY <1>19, <1>5, <2>2
    <3>2. /\ path[w] # 0 /\ color[path[w]] # "white" /\ dist[w] = dist[path[w]] + 1
          /\ <<path[w], w>> \in Edges
      BY <1>19, <1>b, <3>1 DEF BreadthInv
    <3>3. path[w] \in Nodes /\ path[w] # v
      BY <1>0, <1>2, <3>2
    <3> QED BY <1>5, <3>1, <3>2, <3>3
  <2> QED BY <2>1, <2>2
<1>20. BreadthInv'
  BY <1>0, <1>6, <1>8, <1>10, <1>11, <1>12, <1>13, <1>14, <1>15, <1>16, <1>17, <1>18, <1>19 DEF BreadthInv
<1> QED BY <1>7, <1>20

\* A look at a vertex found before changes nothing but the loop.
LEMMA SkipKept == ASSUME Broad, BAside, Skip PROVE GraphTyped' /\ BreadthInv'
<1>0. /\ Nodes' = Nodes /\ Edges' = Edges /\ adj' = adj /\ start' = start /\ stack' = <<>>
      /\ (\A u : Children(u)' = Children(u)) /\ (\A E, u : Reach(E, u)' = Reach(E, u))
      /\ \A k, v : WalkTo(k, v)' = WalkTo(k, v)
      /\ color \in [Nodes -> Marks] /\ path \in [Nodes -> Nodes \union {0}]
      /\ dist \in [Nodes -> Int] /\ que \in Seq(Nodes)
      /\ Head(que) = que[1] /\ Len(que) \in Nat \ {0} /\ 1 \in 1..Len(que)
      /\ \A i \in 1..Len(que) : que[i] \in Nodes /\ color[que[i]] = "gray" /\ dist[que[i]] \in Nat
  BY BroadFacts
<1>b. BreadthInv /\ GraphTyped /\ que # <<>>
  BY DEF Broad
<1>1. PICK h \in Nodes : h = que[1] /\ color[h] = "gray" /\ dist[h] \in Nat
  BY BroadFacts
<1>2. PICK v \in Nodes : Looks(Head(que), v) /\ color[v] # "white"
  BY DEF Skip
<1>3. Advances(Head(que)) /\ UNCHANGED <<color, path, dist, que>>
  BY DEF Skip
<1>4. /\ nth' \in [Nodes -> Nat] /\ \A w \in Nodes : nth'[w] <= Len(adj[w])
      /\ \A w \in Nodes : w # h => nth'[w] = nth[w] /\ Looked(w)' = Looked(w)
      /\ \A w \in Nodes : w = h => Looked(w)' = Looked(w) \union {v}
  BY <1>0, <1>1, <1>2, <1>3, <1>b, HeadLooks
<1>5. GraphTyped'
  BY <1>0, <1>3, <1>4, BreadthTyped
<1>6. dist[v] <= dist[h] + 1
  <2>1. CASE color[v] = "gray"
    <3>1. PICK i \in 1..Len(que) : que[i] = v
      BY <1>b, <2>1 DEF BreadthInv
    <3> QED BY <1>1, <1>b, <3>1 DEF BreadthInv
  <2>2. CASE color[v] = "black"
    <3>1. dist[v] <= dist[h] /\ dist[v] \in Int
      BY <1>0, <1>1, <1>b, <2>2 DEF BreadthInv
    <3> QED BY <1>1, <3>1
  <2> QED BY <1>0, <1>2, <2>1, <2>2 DEF Marks
<1>7. ASSUME NEW w \in Looked(h)' PROVE color'[w] # "white" /\ dist'[w] <= dist'[h] + 1
  <2>1. CASE w = v
    BY <1>2, <1>3, <1>6, <2>1
  <2>2. CASE w # v
    <3>1. w \in Looked(h)
      BY <1>4, <1>7, <2>2
    <3> QED BY <1>1, <1>3, <1>b, <3>1 DEF BreadthInv
  <2> QED BY <2>1, <2>2
<1>8. \A w \in Nodes : color[w] = "white" => w # h
  BY <1>1
<1>9. ASSUME NEW i \in 1..Len(que), i > 1 PROVE nth'[que[i]] = 0
  <2>1. 1 < i
    BY <1>9
  <2>2. que[i] # h /\ nth[que[i]] = 0
    BY <1>0, <1>1, <1>9, <1>b, <2>1 DEF BreadthInv
  <2> QED BY <1>0, <1>4, <2>2
<1>10. \A i \in 1..Len(que) : dist[que[i]] <= dist[que[1]] + 1
  BY <1>b DEF BreadthInv
<1>11. \A w \in Nodes : color[w] = "white" => dist[w] = Infinity /\ path[w] = 0 /\ nth'[w] = 0
  <2>1. \A w \in Nodes : color[w] = "white" => dist[w] = Infinity /\ path[w] = 0 /\ nth[w] = 0
    BY <1>b DEF BreadthInv
  <2> QED BY <1>4, <1>8, <2>1
<1>12. BreadthInv'
  BY <1>0, <1>1, <1>3, <1>7, <1>9, <1>10, <1>11, <1>b DEF BreadthInv
<1> QED BY <1>5, <1>12

\* The head is done with: its children have their distances.
LEMMA BlackenKept == ASSUME Broad, BAside, Blacken PROVE GraphTyped' /\ BreadthInv'
<1>0. /\ Nodes' = Nodes /\ Edges' = Edges /\ adj' = adj /\ start' = start /\ stack' = <<>>
      /\ (\A u : Children(u)' = Children(u)) /\ (\A E, u : Reach(E, u)' = Reach(E, u))
      /\ \A k, v : WalkTo(k, v)' = WalkTo(k, v)
      /\ color \in [Nodes -> Marks] /\ path \in [Nodes -> Nodes \union {0}]
      /\ dist \in [Nodes -> Int] /\ que \in Seq(Nodes)
      /\ Head(que) = que[1] /\ Len(que) \in Nat \ {0} /\ 1 \in 1..Len(que)
      /\ \A i \in 1..Len(que) : que[i] \in Nodes /\ color[que[i]] = "gray" /\ dist[que[i]] \in Nat
      /\ \A u \in Nodes : Children(u) \subseteq Nodes
  BY BroadFacts
<1>b. BreadthInv /\ GraphTyped /\ que # <<>>
  BY DEF Broad
<1>1. PICK h \in Nodes : h = que[1] /\ h = Head(que) /\ color[h] = "gray" /\ dist[h] \in Nat
  BY BroadFacts
<1>2. /\ Through(Head(que)) /\ Dequeue /\ que' = Tail(que) /\ color' = [color EXCEPT ![h] = "black"]
      /\ path' = path /\ dist' = dist
  BY <1>1 DEF Blacken, Dequeue
<1>3. /\ nth' \in [Nodes -> Nat] /\ \A w \in Nodes : nth'[w] <= Len(adj[w])
      /\ \A w \in Nodes : nth'[w] = IF w = h THEN 0 ELSE nth[w]
      /\ Looked(h) = Children(h)
      /\ \A w \in Nodes : w # h => Looked(w)' = Looked(w)
  BY <1>0, <1>1, <1>2, <1>b, Dequeued
<1>4. /\ que' \in Seq(Nodes) /\ Len(que') = Len(que) - 1
      /\ \A i \in 1..(Len(que) - 1) : que'[i] = que[i + 1] /\ i + 1 \in 1..Len(que)
      /\ \A i \in 1..Len(que) : i # 1 => i - 1 \in 1..(Len(que) - 1) /\ que'[i - 1] = que[i]
      /\ que' # <<>> => 1 \in 1..(Len(que) - 1) /\ que'[1] = que[2]
  BY <1>0, <1>2, <1>b, QueShrinks
<1>5. color'[h] = "black" /\ color' \in [Nodes -> Marks] /\ \A w \in Nodes : w # h => color'[w] = color[w]
  BY <1>0, <1>2 DEF Marks
<1>6. GraphTyped'
  BY <1>0, <1>2, <1>3, <1>4, <1>5, BreadthTyped
<1>7. \A i \in 1..Len(que) : i # 1 => que[i] # h /\ dist[h] <= dist[que[i]] /\ nth[que[i]] = 0
  <2>1. ASSUME NEW i \in 1..Len(que), i # 1 PROVE que[i] # h /\ dist[h] <= dist[que[i]] /\ nth[que[i]] = 0
    <3>1. 1 < i /\ i > 1
      BY <2>1
    <3> QED BY <1>0, <1>1, <1>b, <3>1 DEF BreadthInv
  <2> QED BY <2>1
<1>8. \A i \in 1..(Len(que) - 1) : que'[i] # h /\ dist[h] <= dist[que'[i]] /\ nth[que'[i]] = 0 /\ que'[i] \in Nodes
  BY SMTT(30), <1>0, <1>4, <1>7
<1>10. ASSUME NEW w \in Nodes PROVE color'[w] = "gray" <=> \E i \in 1..Len(que') : que'[i] = w
  <2>1. CASE w = h
    BY <1>4, <1>5, <1>8, <2>1
  <2>2. CASE w # h
    <3>1. color'[w] = "gray" <=> \E i \in 1..Len(que) : que[i] = w
      BY <1>5, <1>b, <2>2 DEF BreadthInv
    <3>2. \A i \in 1..Len(que) : que[i] = w => i # 1
      BY <1>1, <2>2
    <3> QED BY SMTT(30), <1>4, <3>1, <3>2
  <2> QED BY <2>1, <2>2
<1>11. ASSUME NEW i \in 1..Len(que'), NEW j \in 1..Len(que'), i < j
       PROVE  que'[i] # que'[j] /\ dist'[que'[i]] <= dist'[que'[j]]
  <2>1. que'[i] = que[i + 1] /\ i + 1 \in 1..Len(que) /\ que'[j] = que[j + 1] /\ j + 1 \in 1..Len(que) /\ i + 1 < j + 1
    BY <1>4, <1>11
  <2> QED BY <1>2, <1>b, <2>1 DEF BreadthInv
<1>12. ASSUME NEW i \in 1..Len(que')
       PROVE  dist'[que'[i]] <= dist'[que'[1]] + 1 /\ (i > 1 => nth'[que'[i]] = 0)
  <2>1. 1 \in 1..(Len(que) - 1) /\ i \in 1..(Len(que) - 1)
    BY <1>0, <1>4, <1>12
  <2>2. dist[que'[i]] <= dist[h] + 1
    BY <1>1, <1>4, <1>b, <2>1 DEF BreadthInv
  <2>3. dist[h] <= dist[que'[1]] /\ dist[que'[1]] \in Nat /\ dist[que'[i]] \in Nat
    BY <1>0, <1>4, <1>8, <2>1
  <2>4. nth'[que'[i]] = 0
    BY <1>3, <1>8, <2>1
  <2> QED BY <1>1, <1>2, <2>2, <2>3, <2>4
<1>13. ASSUME NEW u \in Nodes, color'[u] = "black", NEW i \in 1..Len(que') PROVE dist'[u] <= dist'[que'[i]]
  <2>1. que'[i] = que[i + 1] /\ i + 1 \in 1..Len(que) /\ dist[h] <= dist[que'[i]]
    BY <1>4, <1>8
  <2>2. CASE u = h
    BY <1>2, <2>1, <2>2
  <2>3. CASE u # h
    BY <1>2, <1>5, <1>13, <1>b, <2>1, <2>3 DEF BreadthInv
  <2> QED BY <2>2, <2>3
<1>14. ASSUME NEW u \in Nodes, color'[u] = "black", NEW w \in Children(u)
       PROVE  color'[w] # "white" /\ dist'[w] <= dist'[u] + 1
  <2>0. w \in Nodes
    BY <1>0
  <2>1. color[w] # "white" => color'[w] # "white"
    BY <1>5, <2>0
  <2>2. CASE u = h
    <3>1. w \in Looked(h)
      BY <1>3, <2>2
    <3> QED BY <1>1, <1>2, <1>b, <2>1, <2>2, <3>1 DEF BreadthInv
  <2>3. CASE u # h
    BY <1>2, <1>5, <1>14, <1>b, <2>1, <2>3 DEF BreadthInv
  <2> QED BY <2>2, <2>3
<1>15. ASSUME que' # <<>> PROVE Looked(que[1])' = {}
  <2>1. que'[1] \in Nodes /\ nth'[que'[1]] = 0
    BY <1>3, <1>4, <1>8, <1>15
  <2>2. 1..nth'[que'[1]] = {}
    BY <2>1
  <2> QED BY <2>2 DEF Looked
<1>16. \A w \in Nodes : color'[w] = "white" <=> color[w] = "white"
  BY <1>1, <1>5
<1>17. start \in Nodes /\ color'[start] # "white" /\ dist'[start] = 0 /\ path'[start] = 0
  BY <1>2, <1>16, <1>b DEF BreadthInv
<1>18. \A w \in Nodes : color'[w] = "white" => dist'[w] = Infinity /\ path'[w] = 0 /\ nth'[w] = 0
  <2>1. \A w \in Nodes : color[w] = "white" => dist[w] = Infinity /\ path[w] = 0 /\ nth[w] = 0
    BY <1>b DEF BreadthInv
  <2> QED BY <1>2, <1>3, <1>16, <2>1
<1>19. \A w \in Nodes : color'[w] # "white" => dist'[w] \in Nat /\ WalkTo(dist'[w], w) /\ w \in Reach(Edges, start)
  BY <1>2, <1>16, <1>b DEF BreadthInv
<1>20. ASSUME NEW w \in Nodes, color'[w] # "white", w # start
       PROVE  /\ path'[w] # 0 /\ color'[path'[w]] # "white" /\ dist'[w] = dist'[path'[w]] + 1
              /\ <<path'[w], w>> \in Edges
  <2>1. /\ path[w] # 0 /\ color[path[w]] # "white" /\ dist[w] = dist[path[w]] + 1
        /\ <<path[w], w>> \in Edges
    BY <1>16, <1>20, <1>b DEF BreadthInv
  <2>2. path[w] \in Nodes
    BY <1>0, <2>1
  <2> QED BY <1>2, <1>16, <2>1, <2>2
<1>21. BreadthInv'
  BY <1>0, <1>10, <1>11, <1>12, <1>13, <1>14, <1>15, <1>17, <1>18, <1>19, <1>20 DEF BreadthInv
<1> QED BY <1>6, <1>21

\* A step of a breadth-first search keeps its invariant.
LEMMA BreadthKept ==
  ASSUME GraphTyped, BreadthInv, BreadthStep, UNCHANGED <<adj, search, start>>
  PROVE  GraphTyped' /\ BreadthInv'
<1>1. Broad /\ BAside
  BY DEF Broad, BAside, BreadthStep
<1> QED BY <1>1, FindKept, SkipKept, BlackenKept DEF BreadthStep

\* A finite set has an element of the greatest value.
LEMMA Greatest ==
  ASSUME NEW S, IsFiniteSet(S), S # {}, NEW f, \A x \in S : f[x] \in Int
  PROVE  \E m \in S : \A x \in S : f[x] <= f[m]
<1> DEFINE Peak(U) == \E m \in U : \A x \in U : f[x] <= f[m]
           Bad == {U \in SUBSET S : U # {} /\ ~Peak(U)}
           Sizes == {Cardinality(U) : U \in Bad}
<1>1. \A U \in SUBSET S : IsFiniteSet(U) /\ Cardinality(U) \in Nat
  BY FS_Subset, FS_CardinalityType
<1>2. SUFFICES ASSUME Bad # {} PROVE FALSE
  OBVIOUS
<1>3. Sizes \subseteq Nat /\ Sizes # {}
  BY <1>1, <1>2
<1>4. PICK U \in Bad : \A V \in Bad : Cardinality(U) <= Cardinality(V)
  <2>1. PICK n \in Sizes : \A m \in Sizes : n <= m
    <3> HIDE DEF Sizes
    <3> QED BY <1>3, LeastNat
  <2> QED BY <2>1
<1>5. PICK x \in U : TRUE
  BY <1>4
<1>6. Cardinality(U \ {x}) = Cardinality(U) - 1
  BY <1>1, <1>4, <1>5, FS_RemoveElement
<1>7. U \ {x} \notin Bad
  <2>1. Cardinality(U) \in Nat
    BY <1>1, <1>4
  <2> HIDE DEF Bad
  <2> QED BY <1>4, <1>6, <2>1
<1>8. CASE U \ {x} = {}
  <2>1. \A y \in U : f[y] <= f[x]
    BY <1>4, <1>5, <1>8
  <2> QED BY <1>4, <1>5, <2>1
<1>9. CASE U \ {x} # {}
  <2>1. PICK m \in U \ {x} : \A y \in U \ {x} : f[y] <= f[m]
    BY <1>4, <1>7, <1>9
  <2>2. f[m] \in Int /\ f[x] \in Int /\ \A y \in U : f[y] \in Int
    BY <1>4, <1>5, <2>1
  <2>3. CASE f[x] <= f[m]
    <3>1. \A y \in U : f[y] <= f[m]
      BY <2>1, <2>3
    <3> QED BY <1>4, <2>1, <3>1
  <2>4. CASE f[m] <= f[x]
    <3>1. \A y \in U : f[y] <= f[x]
      BY <2>1, <2>2, <2>4
    <3> QED BY <1>4, <1>5, <3>1
  <2> QED BY <2>2, <2>3, <2>4
<1> QED BY <1>8, <1>9

\* The queue is empty: no walk leads out of what was visited, or there sooner.
LEMMA BreadthDone ==
  ASSUME GraphTyped, BreadthInv, que = <<>>
  PROVE  /\ \A v \in Nodes : color[v] # "white" => color[v] = "black" /\ dist[v] \in Nat
         /\ \A u \in Nodes : color[u] = "black" => \A v \in Children(u) : color[v] = "black" /\ dist[v] <= dist[u] + 1
<1>1. \A v \in Nodes : color[v] # "gray"
  BY DEF BreadthInv
<1>2. \A v \in Nodes : color[v] # "white" => color[v] = "black"
  BY <1>1 DEF GraphTyped, Marks
<1>3. \A u \in Nodes : Children(u) \subseteq Nodes
  BY GraphFacts DEF GraphTyped
<1>4. \A v \in Nodes : color[v] # "white" => dist[v] \in Nat
  BY DEF BreadthInv
<1>5. \A u \in Nodes : color[u] = "black" => \A v \in Children(u) : color[v] # "white" /\ dist[v] <= dist[u] + 1
  BY DEF BreadthInv
<1> QED BY <1>2, <1>3, <1>4, <1>5

\* No walk is shorter than the distance found.
LEMMA WalkBounds ==
  ASSUME GraphTyped, BreadthInv, que = <<>>, NEW k \in Nat, NEW v \in Nodes, WalkTo(k, v)
  PROVE  color[v] = "black" /\ dist[v] <= k
<1>1. PICK w \in [0..k -> Nodes] : w[0] = start /\ w[k] = v /\ \A i \in 0..(k - 1) : <<w[i], w[i + 1]>> \in Edges
  BY DEF WalkTo
<1> DEFINE Wrong == {i \in 0..k : ~(color[w[i]] = "black" /\ dist[w[i]] <= i)}
<1>2. SUFFICES ASSUME Wrong # {} PROVE FALSE
  <2>1. k \in 0..k
    OBVIOUS
  <2> QED BY <1>1, <2>1
<1>3. PICK n \in Wrong : \A m \in Wrong : n <= m
  <2>1. Wrong \subseteq Nat
    OBVIOUS
  <2> HIDE DEF Wrong
  <2> QED BY <1>2, <2>1, LeastNat
<1>4. CASE n = 0
  <2>1. start \in Nodes /\ color[start] # "white" /\ dist[start] = 0
    BY DEF BreadthInv
  <2> QED BY <1>1, <1>3, <1>4, <2>1, BreadthDone
<1>5. CASE n # 0
  <2>1. n \in 0..k
    BY <1>3
  <2>2. PICK m \in 0..(k - 1) : n = m + 1
    <3>1. n - 1 \in 0..(k - 1) /\ n = (n - 1) + 1
      BY <1>5, <2>1
    <3> QED BY <3>1
  <2>3. m \in 0..k /\ m \notin Wrong
    BY <1>3, <2>2
  <2>4. color[w[m]] = "black" /\ dist[w[m]] <= m /\ w[m] \in Nodes
    BY <2>3
  <2>5. w[n] \in Children(w[m]) /\ w[n] \in Nodes
    BY <1>1, <2>2, EdgeIs
  <2>6. color[w[n]] = "black" /\ dist[w[n]] <= dist[w[m]] + 1 /\ dist[w[m]] \in Nat /\ dist[w[n]] \in Nat
    <3>1. color[w[n]] = "black" /\ dist[w[n]] <= dist[w[m]] + 1
      BY <2>4, <2>5, BreadthDone
    <3>2. color[w[m]] # "white" /\ color[w[n]] # "white"
      BY <2>4, <3>1
    <3> QED BY <2>4, <2>5, <3>1, <3>2, BreadthDone
  <2>7. dist[w[n]] <= n
    BY <2>2, <2>4, <2>6
  <2> QED BY <1>3, <2>6, <2>7
<1> QED BY <1>4, <1>5

\* The distances are those of shortest walks, and the paths lead back along them.
LEMMA BfsAnswer == ASSUME GraphTyped, search = "bfs" => BreadthInv PROVE BfsShortest
<1> SUFFICES ASSUME Answered("bfs"), NEW v \in Nodes
             PROVE  /\ dist[v] # Infinity <=> v \in Reach(Edges, start)
                    /\ dist[v] # Infinity => WalkTo(dist[v], v) /\ \A k \in 0..(dist[v] - 1) : ~WalkTo(k, v)
                    /\ path[v] = 0 <=> v = start \/ dist[v] = Infinity
                    /\ path[v] # 0 => <<path[v], v>> \in Edges /\ dist[v] = dist[path[v]] + 1
  BY DEF BfsShortest
<1>1. search = "bfs" /\ BreadthInv /\ que = <<>> /\ start \in Nodes
  BY DEF Answered, BreadthInv, GraphTyped
<1>2. dist[v] # Infinity <=> color[v] # "white"
  BY <1>1 DEF BreadthInv, Infinity
<1>3. dist[v] # Infinity <=> v \in Reach(Edges, start)
  <2>1. color[v] # "white" => v \in Reach(Edges, start)
    BY <1>1 DEF BreadthInv
  <2>2. ASSUME v \in Reach(Edges, start) PROVE color[v] # "white"
    <3> DEFINE S == {w \in Nodes : color[w] = "black"}
    <3>1. start \in S /\ S \in SUBSET Nodes
      BY <1>1, BreadthDone DEF BreadthInv
    <3>2. ASSUME NEW d \in Edges, d[1] \in S PROVE d[2] \in S
      <4>1. d[1] \in Nodes /\ d[2] \in Nodes /\ d[2] \in Children(d[1])
        BY DEF Edges
      <4> QED BY <1>1, <3>2, <4>1, BreadthDone
    <3>3. v \in S
      <4> HIDE DEF S
      <4> QED BY <2>2, <3>1, <3>2, ReachWithin
    <3> QED BY <3>3
  <2> QED BY <1>2, <2>1, <2>2
<1>4. ASSUME dist[v] # Infinity PROVE WalkTo(dist[v], v) /\ \A k \in 0..(dist[v] - 1) : ~WalkTo(k, v)
  <2>1. dist[v] \in Nat /\ WalkTo(dist[v], v)
    BY <1>1, <1>2, <1>4 DEF BreadthInv
  <2>2. ASSUME NEW k \in 0..(dist[v] - 1), WalkTo(k, v) PROVE FALSE
    <3>1. k \in Nat /\ k < dist[v]
      BY <2>1
    <3>2. dist[v] <= k
      BY <1>1, <2>2, <3>1, WalkBounds
    <3> QED BY <2>1, <3>1, <3>2
  <2> QED BY <2>1, <2>2
<1>5. path[v] = 0 <=> v = start \/ dist[v] = Infinity
  BY <1>1, <1>2 DEF BreadthInv
<1>6. path[v] # 0 => <<path[v], v>> \in Edges /\ dist[v] = dist[path[v]] + 1
  BY <1>1 DEF BreadthInv
<1> QED BY <1>3, <1>4, <1>5, <1>6

\* The greatest distance is that of the vertex furthest away.
LEMMA TreeAnswer == ASSUME GraphTyped, search = "bfs" => BreadthInv PROVE DepthOfTree
<1> SUFFICES ASSUME Answered("bfs"), Reach(Edges, start) = Nodes
             PROVE  /\ \E v \in Nodes : WalkTo(Deepest, v) /\ \A k \in 0..(Deepest - 1) : ~WalkTo(k, v)
                    /\ \A v \in Nodes : \E k \in 0..Deepest : WalkTo(k, v)
  BY DEF DepthOfTree
<1>1. search = "bfs" /\ BreadthInv /\ start \in Nodes /\ dist \in [Nodes -> Int]
  BY DEF Answered, BreadthInv, GraphTyped
<1>2. \A v \in Nodes : dist[v] # Infinity /\ WalkTo(dist[v], v) /\ \A k \in 0..(dist[v] - 1) : ~WalkTo(k, v)
  BY BfsAnswer DEF BfsShortest
<1>3. \A v \in Nodes : dist[v] \in Nat
  <2>1. \A v \in Nodes : color[v] # "white"
    BY <1>1, <1>2 DEF BreadthInv
  <2> QED BY <1>1, <2>1 DEF BreadthInv
<1>4. PICK m \in Nodes : \A v \in Nodes : dist[v] <= dist[m]
  <2>1. IsFiniteSet(Nodes)
    BY GraphFacts DEF GraphTyped
  <2>2. Nodes # {} /\ \A v \in Nodes : dist[v] \in Int
    BY <1>1
  <2> QED BY <2>1, <2>2, Greatest
<1>5. dist[m] \in Range(dist) /\ Range(dist) = {dist[v] : v \in Nodes}
  BY <1>1 DEF Range
<1>6. Deepest \in Range(dist) /\ \A v \in Nodes : dist[v] <= Deepest
  BY <1>4, <1>5 DEF Deepest
<1>7. PICK d \in Nodes : dist[d] = Deepest
  BY <1>5, <1>6
<1>8. WalkTo(Deepest, d) /\ \A k \in 0..(Deepest - 1) : ~WalkTo(k, d)
  <2>1. WalkTo(dist[d], d) /\ \A k \in 0..(dist[d] - 1) : ~WalkTo(k, d)
    BY <1>2
  <2> QED BY <1>7, <2>1
<1>9. ASSUME NEW v \in Nodes PROVE \E k \in 0..Deepest : WalkTo(k, v)
  <2>1. dist[v] \in 0..Deepest
    BY <1>3, <1>6, <1>7
  <2> QED BY <1>2, <2>1
<1> QED BY <1>8, <1>9

-----------------------------------------------------------------------------
(* The graph programs: colors                                              *)

\* The wrestlers are being colored, of rivalries that go both ways.
Coloring == GraphTyped /\ ColorInv /\ search = "wrestlers" /\ Undirected /\ que # <<>> /\ ~refused
CAside   == UNCHANGED <<adj, search, start, path, dist, depthVars, topoVars>>
Two      == {"white", "black"}

\* Of two colors, the other one.
LEMMA NegFacts ==
  /\ \A c : Neg(c) \in Two /\ Neg(c) # c /\ Neg(c) # "gray"
  /\ \A c, d \in Two : d = Neg(c) <=> c # d
  /\ \A c, d \in Two : d = Neg(c) <=> c = Neg(d)
BY DEF Neg, Two

\* What the invariant says of the coloring, without the actions.
LEMMA ColorFacts ==
  ASSUME Coloring, CAside
  PROVE  /\ Nodes' = Nodes /\ Edges' = Edges /\ adj' = adj /\ start' = start /\ stack' = <<>> /\ start \in Nodes
         /\ (\A u : Children(u)' = Children(u)) /\ (\A E, u : Reach(E, u)' = Reach(E, u))
         /\ Colorings' = Colorings
         /\ adj \in Graphs /\ color \in [Nodes -> Marks] /\ nth \in [Nodes -> Nat]
         /\ que \in Seq(Nodes) /\ passed \subseteq Nodes /\ refused = FALSE
         /\ que[1] \in Nodes /\ Head(que) = que[1] /\ color[que[1]] \in Two
         /\ Len(que) \in Nat \ {0} /\ 1 \in 1..Len(que)
         /\ \A i \in 1..Len(que) : que[i] \in Nodes
         /\ \A u \in Nodes : Children(u) \subseteq Nodes /\ Looked(u) \subseteq Children(u)
         /\ \A u, v \in Nodes : v \in Children(u) => u \in Children(v) /\ u # v
<1>1. adj' = adj /\ start' = start /\ stack' = stack /\ stack = <<>> /\ start \in Nodes
  BY DEF CAside, depthVars, Coloring, ColorInv
<1>2. Nodes' = Nodes /\ Edges' = Edges /\ (\A u : Children(u)' = Children(u)) /\ (\A E, u : Reach(E, u)' = Reach(E, u))
  BY <1>1, SameGraph
<1>3. Colorings' = Colorings
  BY <1>1, <1>2 DEF Colorings, Proper
<1>4. /\ adj \in Graphs /\ color \in [Nodes -> Marks] /\ nth \in [Nodes -> Nat]
      /\ que \in Seq(Nodes) /\ passed \subseteq Nodes /\ refused = FALSE
      /\ que # <<>> /\ \A u \in Nodes : nth[u] <= Len(adj[u])
  BY DEF Coloring, GraphTyped
<1>5. /\ que[1] \in Nodes /\ Head(que) = que[1] /\ Len(que) \in Nat \ {0} /\ 1 \in 1..Len(que)
      /\ \A i \in 1..Len(que) : que[i] \in Nodes
  BY <1>4, QueHead
<1>6. color[que[1]] \in Two
  BY <1>4, <1>5 DEF Coloring, ColorInv, Marks, Two
<1>7. \A u \in Nodes : Children(u) \subseteq Nodes /\ Looked(u) \subseteq Children(u)
  BY <1>4, GraphFacts, LookedIs
<1>8. ASSUME NEW u \in Nodes, NEW v \in Nodes, v \in Children(u) PROVE u \in Children(v) /\ u # v
  <2>1. <<u, v>> \in Edges
    BY <1>8, EdgeIs
  <2>2. <<v, u>> \in Edges /\ u # v
    BY <2>1 DEF Coloring, Undirected
  <2> QED BY <2>2, EdgeIs
<1> QED BY <1>1, <1>2, <1>3, <1>4, <1>5, <1>6, <1>7, <1>8

\* The coloring keeps the types.
LEMMA ColorTyped ==
  ASSUME Coloring, CAside, color' \in [Nodes -> Marks], que' \in Seq(Nodes), passed' \subseteq Nodes,
         refused' \in BOOLEAN, nth' \in [Nodes -> Nat], \A w \in Nodes : nth'[w] <= Len(adj[w])
  PROVE  GraphTyped'
<1>1. Nodes' = Nodes /\ adj' = adj
  BY ColorFacts
<1>2. GraphTyped /\ UNCHANGED <<search, start, path, dist, disc, fin, cc, stack, clock, group, cnt, listed>> /\ search = "wrestlers"
  BY DEF Coloring, CAside, depthVars, topoVars
<1> QED BY <1>1, <1>2 DEF GraphTyped

\* What two colors of all that can be reached have to do with those that are given.
LEMMA Forced ==
  ASSUME Coloring, NEW c \in Colorings, NEW u \in Nodes, NEW v \in Nodes, color[u] # "gray", v \in Children(u)
  PROVE  /\ u \in Reach(Edges, start) /\ v \in Reach(Edges, start)
         /\ c[u] \in Two /\ c[v] \in Two /\ c[start] \in Two /\ c[u] # c[v]
         /\ c[u] = c[start] <=> color[u] = "white"
<1>1. u \in Reach(Edges, start) /\ (c[u] = c[start] <=> color[u] = "white") /\ start \in Nodes
  BY DEF Coloring, ColorInv
<1>2. <<u, v>> \in Edges
  BY EdgeIs
<1>3. v \in Reach(Edges, start) /\ start \in Reach(Edges, start)
  BY <1>1, <1>2, ReachOn, ReachSelf
<1>4. c \in [Reach(Edges, start) -> Two] /\ Proper(c)
  BY DEF Colorings, Two
<1>5. c[u] # c[v]
  BY <1>1, <1>2, <1>4 DEF Proper
<1> QED BY <1>1, <1>3, <1>4, <1>5

\* A rival is refused only if no two colors are possible.
LEMMA RivalRefused ==
  ASSUME Coloring, NEW h \in Nodes, NEW v \in Nodes, color[h] \in Two, v \in Children(h),
         Neg(color[h]) \in {color[w] : w \in Children(v)}, CAside
  PROVE  Colorings = {}
<1> SUFFICES ASSUME NEW c \in Colorings PROVE FALSE
  OBVIOUS
<1>1. PICK w \in Children(v) : color[w] = Neg(color[h])
  OBVIOUS
<1>2. w \in Nodes /\ v \in Children(w) /\ color[w] # "gray" /\ color[h] # "gray"
  BY <1>1, ColorFacts, NegFacts DEF Two
<1>3. c[h] \in Two /\ c[v] \in Two /\ c[start] \in Two /\ c[h] # c[v] /\ (c[h] = c[start] <=> color[h] = "white")
  BY <1>2, Forced
<1>4. c[w] \in Two /\ c[w] # c[v] /\ (c[w] = c[start] <=> color[w] = "white")
  BY <1>2, Forced
<1> QED BY <1>1, <1>3, <1>4 DEF Two, Neg

\* A rival that has its color gets no other one.
LEMMA RivalAgrees ==
  ASSUME Coloring, CAside, NEW v \in Nodes, v \in Children(que[1]), v \notin passed, color[v] # "gray",
         Neg(color[que[1]]) \notin {color[w] : w \in Children(v)}
  PROVE  color[v] = Neg(color[que[1]])
<1>1. /\ que[1] \in Nodes /\ color[que[1]] \in Two /\ color \in [Nodes -> Marks]
      /\ \A a, b \in Nodes : b \in Children(a) => a \in Children(b) /\ a # b
  BY ColorFacts
<1>2. v # start
  <2>1. start \in passed \/ que[1] = start
    BY DEF Coloring, ColorInv
  <2>2. que[1] # v
    BY <1>1
  <2> QED BY <2>1, <2>2
<1>3. PICK p \in Nodes : v \in Children(p) /\ color[p] # "gray" /\ color[v] = Neg(color[p])
  BY <1>2 DEF Coloring, ColorInv
<1>4. p \in Children(v)
  BY <1>1, <1>3
<1>5. color[p] # Neg(color[que[1]])
  BY <1>4
<1>6. color[p] \in Two
  BY <1>1, <1>3 DEF Marks, Two
<1>7. color[p] = color[que[1]]
  BY <1>1, <1>5, <1>6 DEF Two, Neg
<1> QED BY <1>3, <1>7

\* A rival gets the color it must have, or none is possible.
LEMMA RivalKept == ASSUME Coloring, CAside, Rival PROVE GraphTyped' /\ ColorInv'
<1>0. /\ Nodes' = Nodes /\ Edges' = Edges /\ adj' = adj /\ start' = start /\ stack' = <<>> /\ start \in Nodes
      /\ (\A u : Children(u)' = Children(u)) /\ (\A E, u : Reach(E, u)' = Reach(E, u))
      /\ Colorings' = Colorings
      /\ color \in [Nodes -> Marks] /\ nth \in [Nodes -> Nat]
      /\ que \in Seq(Nodes) /\ passed \subseteq Nodes /\ refused = FALSE
      /\ Len(que) \in Nat \ {0} /\ 1 \in 1..Len(que)
      /\ \A i \in 1..Len(que) : que[i] \in Nodes
      /\ \A u \in Nodes : Children(u) \subseteq Nodes /\ Looked(u) \subseteq Children(u)
      /\ \A u, v \in Nodes : v \in Children(u) => u \in Children(v) /\ u # v
  BY ColorFacts
<1>b. ColorInv /\ GraphTyped /\ que # <<>>
  BY DEF Coloring
<1>1. PICK h \in Nodes : h = que[1] /\ h = Head(que) /\ color[h] \in Two
  BY ColorFacts
<1>2. PICK v \in Nodes :
        /\ Looks(Head(que), v) /\ v \notin passed
        /\ IF Neg(color[h]) \in {color[w] : w \in Children(v)}
           THEN refused' = TRUE /\ UNCHANGED <<color, que, nth>>
           ELSE /\ color' = [color EXCEPT ![v] = Neg(color[h])]
                /\ que' = Append(que, v)
                /\ Advances(Head(que)) /\ UNCHANGED refused
  BY <1>1 DEF Rival
<1>3. passed' = passed
  BY DEF Rival
<1>4. v \in Children(h) /\ <<h, v>> \in Edges
  BY <1>0, <1>1, <1>2, <1>b, HeadLooks
<1>5. CASE Neg(color[h]) \in {color[w] : w \in Children(v)}
  <2>1. refused' = TRUE /\ color' = color /\ que' = que /\ nth' = nth
    BY <1>2, <1>5
  <2>2. Colorings = {}
    BY <1>1, <1>4, <1>5, RivalRefused
  <2>3. \A u : Looked(u)' = Looked(u)
    BY <1>0, <2>1 DEF Looked
  <2>4. ColorInv'
    BY <1>0, <1>3, <1>b, <2>1, <2>2, <2>3 DEF ColorInv
  <2>5. \A w \in Nodes : nth'[w] <= Len(adj[w])
    BY <1>b, <2>1 DEF GraphTyped
  <2>6. GraphTyped'
    BY <1>0, <1>3, <2>1, <2>5, ColorTyped
  <2> QED BY <2>4, <2>6
<1>6. CASE Neg(color[h]) \notin {color[w] : w \in Children(v)}
  <2>1. /\ color' = [color EXCEPT ![v] = Neg(color[h])] /\ que' = Append(que, v)
        /\ Advances(Head(que)) /\ refused' = refused
    BY <1>2, <1>6
  <2>2. Neg(color[h]) \in Two
    BY NegFacts
  <2>3. /\ color'[v] = Neg(color[h]) /\ \A w \in Nodes : w # v => color'[w] = color[w]
        /\ color' \in [Nodes -> Marks]
    BY <1>0, <2>1, <2>2 DEF Marks, Two
  <2>4. /\ que' \in Seq(Nodes) /\ Len(que') = Len(que) + 1 /\ que' # <<>>
        /\ \A i \in 1..Len(que) : que'[i] = que[i]
        /\ que'[Len(que) + 1] = v
        /\ \A i : i \in 1..(Len(que) + 1) <=> i \in 1..Len(que) \/ i = Len(que) + 1
    BY <1>0, <2>1, QueGrows
  <2>5. /\ nth' \in [Nodes -> Nat] /\ \A w \in Nodes : nth'[w] <= Len(adj[w])
        /\ \A w \in Nodes : w # h => nth'[w] = nth[w] /\ Looked(w)' = Looked(w)
        /\ \A w \in Nodes : w = h => Looked(w)' = Looked(w) \union {v}
    BY <1>0, <1>1, <1>2, <1>b, <2>1, HeadLooks
  <2>6. GraphTyped'
    BY <1>0, <1>3, <2>1, <2>3, <2>4, <2>5, ColorTyped
  \* No color changes that was given before.
  <2>7. \A w \in Nodes : color[w] # "gray" => color'[w] = color[w]
    <3>1. color[v] # "gray" => color[v] = Neg(color[h])
      BY <1>1, <1>2, <1>4, <1>6, RivalAgrees
    <3> QED BY <2>3, <3>1
  <2>8. \A w \in Nodes : color'[w] # "gray" => w = v \/ color[w] # "gray"
    BY <2>3
  <2>9. color'[h] = color[h] /\ color'[v] # "gray" /\ color[h] # "gray"
    BY <1>1, <2>2, <2>3, <2>7 DEF Two
  <2>10. color'[start] = "white"
    BY <1>0, <1>b, <2>7 DEF ColorInv
  <2>11. ASSUME NEW w \in Nodes, color'[w] # "gray" PROVE w \in passed' \/ \E i \in 1..Len(que') : que'[i] = w
    <3>1. CASE w = v
      BY <1>0, <2>4, <3>1
    <3>2. CASE color[w] # "gray"
      BY <1>3, <1>b, <2>4, <3>2 DEF ColorInv
    <3> QED BY <2>8, <2>11, <3>1, <3>2
  <2>12. ASSUME NEW i \in 1..Len(que') PROVE color'[que'[i]] # "gray"
    <3>1. CASE i = Len(que) + 1
      BY <2>4, <2>9, <3>1
    <3>2. CASE i \in 1..Len(que)
      BY <1>0, <1>b, <2>4, <2>7, <3>2 DEF ColorInv
    <3> QED BY <2>4, <3>1, <3>2
  <2>13. ASSUME NEW u \in passed' PROVE color'[u] # "gray" /\ \A w \in Children(u) : color'[w] = Neg(color'[u])
    <3>1. u \in Nodes /\ color[u] # "gray" /\ \A w \in Children(u) : color[w] = Neg(color[u])
      BY <1>0, <1>3, <1>b DEF ColorInv
    <3>2. \A w \in Children(u) : w \in Nodes /\ color[w] # "gray"
      BY <1>0, <3>1, NegFacts
    <3> QED BY <2>7, <3>1, <3>2
  <2>14. ASSUME NEW u \in Nodes, NEW w \in Looked(u)' PROVE color'[w] = Neg(color'[u])
    <3>1. CASE w \in Looked(u)
      <4>1. w \in Nodes /\ color[w] = Neg(color[u]) /\ color[w] # "gray"
        BY <1>0, <1>b, <3>1, NegFacts DEF ColorInv
      <4>2. u = h
        <5>1. Looked(u) # {} => nth[u] # 0
          BY <1>b, LookedIs DEF GraphTyped
        <5>2. nth[u] \in Nat
          BY <1>0
        <5>3. nth[u] > 0
          BY <3>1, <5>1, <5>2
        <5> QED BY <1>1, <1>b, <5>3 DEF ColorInv
      <4> QED BY <2>7, <2>9, <4>1, <4>2
    <3>2. CASE u = h /\ w = v
      BY <2>3, <2>9, <3>2
    <3> QED BY <2>5, <2>14, <3>1, <3>2
  <2>15. ASSUME NEW u \in Nodes, nth'[u] > 0 PROVE que' # <<>> /\ u = que'[1]
    <3>1. u = h
      <4>1. u # h => nth[u] > 0
        BY <2>5, <2>15
      <4> QED BY <1>1, <1>b, <4>1 DEF ColorInv
    <3> QED BY <1>0, <1>1, <2>4, <3>1
  <2>16. start \in passed' \/ (que' # <<>> /\ que'[1] = start)
    BY <1>0, <1>3, <1>b, <2>4 DEF ColorInv
  <2>17. ASSUME NEW w \in Nodes, color'[w] # "gray", w # start
         PROVE  \E u \in Nodes : w \in Children(u) /\ color'[u] # "gray" /\ color'[w] = Neg(color'[u])
    <3>1. CASE w = v
      BY <1>4, <2>3, <2>9, <3>1
    <3>2. CASE color[w] # "gray"
      <4>1. PICK u \in Nodes : w \in Children(u) /\ color[u] # "gray" /\ color[w] = Neg(color[u])
        BY <1>b, <2>17, <3>2 DEF ColorInv
      <4> QED BY <2>7, <3>2, <4>1
    <3> QED BY <2>8, <2>17, <3>1, <3>2
  <2>18. ASSUME NEW w \in Nodes, color'[w] # "gray"
         PROVE  w \in Reach(Edges, start) /\ \A c \in Colorings : c[w] = c[start] <=> color'[w] = "white"
    <3>1. CASE w = v
      <4>1. h \in Reach(Edges, start)
        BY <1>b, <2>9 DEF ColorInv
      <4>2. v \in Reach(Edges, start)
        BY <1>4, <4>1, ReachOn
      <4>3. ASSUME NEW c \in Colorings PROVE c[v] = c[start] <=> Neg(color[h]) = "white"
        <5>1. c[h] \in Two /\ c[v] \in Two /\ c[start] \in Two /\ c[h] # c[v] /\ (c[h] = c[start] <=> color[h] = "white")
          BY <1>4, <2>9, Forced
        <5> QED BY <1>1, <5>1 DEF Two, Neg
      <4> QED BY <2>3, <3>1, <4>2, <4>3
    <3>2. CASE color[w] # "gray"
      <4>1. w \in Reach(Edges, start) /\ \A c \in Colorings : c[w] = c[start] <=> color[w] = "white"
        BY <1>b, <3>2 DEF ColorInv
      <4> QED BY <2>7, <3>2, <4>1
    <3> QED BY <2>8, <2>18, <3>1, <3>2
  <2>19. ColorInv'
    BY <1>0, <2>1, <2>10, <2>11, <2>12, <2>13, <2>14, <2>15, <2>16, <2>17, <2>18 DEF ColorInv
  <2> QED BY <2>6, <2>19
<1> QED BY <1>5, <1>6

\* A rival that was passed has the other color.
LEMMA RivalPassedKept == ASSUME Coloring, CAside, RivalPassed PROVE GraphTyped' /\ ColorInv'
<1>0. /\ Nodes' = Nodes /\ Edges' = Edges /\ adj' = adj /\ start' = start /\ stack' = <<>> /\ start \in Nodes
      /\ (\A u : Children(u)' = Children(u)) /\ (\A E, u : Reach(E, u)' = Reach(E, u))
      /\ Colorings' = Colorings
      /\ color \in [Nodes -> Marks]
      /\ que \in Seq(Nodes) /\ passed \subseteq Nodes /\ refused = FALSE
      /\ \A u, v \in Nodes : v \in Children(u) => u \in Children(v) /\ u # v
  BY ColorFacts
<1>b. ColorInv /\ GraphTyped /\ que # <<>>
  BY DEF Coloring
<1>1. PICK h \in Nodes : h = que[1] /\ color[h] \in Two
  BY ColorFacts
<1>2. PICK v \in passed : Looks(Head(que), v)
  BY DEF RivalPassed
<1>3. Advances(Head(que)) /\ UNCHANGED <<color, que, passed, refused>> /\ v \in Nodes
  BY <1>0, <1>2 DEF RivalPassed
<1>4. /\ v \in Children(h)
      /\ nth' \in [Nodes -> Nat] /\ \A w \in Nodes : nth'[w] <= Len(adj[w])
      /\ \A w \in Nodes : w # h => nth'[w] = nth[w] /\ Looked(w)' = Looked(w)
      /\ \A w \in Nodes : w = h => Looked(w)' = Looked(w) \union {v}
  BY <1>0, <1>1, <1>2, <1>3, <1>b, HeadLooks
<1>5. GraphTyped'
  BY <1>0, <1>3, <1>4, ColorTyped
<1>6. color[v] = Neg(color[h])
  <2>1. h \in Children(v)
    BY <1>0, <1>3, <1>4
  <2>2. color[h] = Neg(color[v]) /\ color[v] # "gray"
    BY <1>2, <1>b, <2>1 DEF ColorInv
  <2>3. color[v] \in Two
    BY <1>0, <1>3, <2>2 DEF Marks, Two
  <2> QED BY <1>1, <2>2, <2>3, NegFacts
<1>7. \A u \in Nodes : \A w \in Looked(u)' : color'[w] = Neg(color'[u])
  BY <1>3, <1>4, <1>6, <1>b DEF ColorInv
<1>8. \A u \in Nodes : nth'[u] > 0 => u = que[1]
  BY <1>1, <1>4, <1>b DEF ColorInv
<1>9. ColorInv'
  BY <1>0, <1>3, <1>7, <1>8, <1>b DEF ColorInv
<1> QED BY <1>5, <1>9

\* One is passed when all his rivals have the other color.
LEMMA WrestlerPassesKept == ASSUME Coloring, CAside, WrestlerPasses PROVE GraphTyped' /\ ColorInv'
<1>0. /\ Nodes' = Nodes /\ Edges' = Edges /\ adj' = adj /\ start' = start /\ stack' = <<>> /\ start \in Nodes
      /\ (\A u : Children(u)' = Children(u)) /\ (\A E, u : Reach(E, u)' = Reach(E, u))
      /\ Colorings' = Colorings
      /\ color \in [Nodes -> Marks] /\ nth \in [Nodes -> Nat]
      /\ que \in Seq(Nodes) /\ passed \subseteq Nodes /\ refused = FALSE
      /\ Len(que) \in Nat \ {0} /\ 1 \in 1..Len(que)
  BY ColorFacts
<1>b. ColorInv /\ GraphTyped /\ que # <<>>
  BY DEF Coloring
<1>1. PICK h \in Nodes : h = que[1] /\ h = Head(que) /\ color[h] \in Two
  BY ColorFacts
<1>2. /\ Through(Head(que)) /\ Dequeue /\ que' = Tail(que) /\ passed' = passed \union {h}
      /\ color' = color /\ refused' = refused
  BY <1>1 DEF WrestlerPasses, Dequeue
<1>3. /\ nth' \in [Nodes -> Nat] /\ \A w \in Nodes : nth'[w] <= Len(adj[w])
      /\ \A w \in Nodes : nth'[w] = IF w = h THEN 0 ELSE nth[w]
      /\ Looked(h) = Children(h)
      /\ \A w \in Nodes : w # h => Looked(w)' = Looked(w)
      /\ \A w \in Nodes : w = h => Looked(w)' = {}
  BY <1>0, <1>1, <1>2, <1>b, Dequeued
<1>4. /\ que' \in Seq(Nodes) /\ Len(que') = Len(que) - 1
      /\ \A i \in 1..(Len(que) - 1) : que'[i] = que[i + 1] /\ i + 1 \in 1..Len(que)
      /\ \A i \in 1..Len(que) : i # 1 => i - 1 \in 1..(Len(que) - 1) /\ que'[i - 1] = que[i]
  BY <1>0, <1>2, <1>b, QueShrinks
<1>5. GraphTyped'
  BY <1>0, <1>2, <1>3, <1>4, ColorTyped
<1>6. ASSUME NEW v \in Nodes, color[v] # "gray" PROVE v \in passed' \/ \E i \in 1..Len(que') : que'[i] = v
  <2>1. v \in passed \/ \E i \in 1..Len(que) : que[i] = v
    BY <1>6, <1>b DEF ColorInv
  <2> QED BY <1>1, <1>2, <1>4, <2>1
<1>7. \A i \in 1..Len(que') : color[que'[i]] # "gray"
  BY <1>4, <1>b DEF ColorInv
<1>8. ASSUME NEW u \in passed' PROVE color[u] # "gray" /\ \A w \in Children(u) : color[w] = Neg(color[u])
  <2>1. CASE u \in passed
    BY <1>b, <2>1 DEF ColorInv
  <2>2. CASE u = h
    BY <1>1, <1>3, <1>b, <2>2 DEF ColorInv, Two
  <2> QED BY <1>2, <2>1, <2>2
<1>9. \A u \in Nodes : \A w \in Looked(u)' : color[w] = Neg(color[u])
  BY <1>3, <1>b DEF ColorInv
<1>10. \A u \in Nodes : ~(nth'[u] > 0)
  BY <1>0, <1>1, <1>3, <1>b DEF ColorInv
<1>11. start \in passed'
  BY <1>1, <1>2, <1>b DEF ColorInv
<1>12. ColorInv'
  BY <1>0, <1>2, <1>6, <1>7, <1>8, <1>9, <1>10, <1>11, <1>b DEF ColorInv
<1> QED BY <1>5, <1>12

\* A step of the coloring keeps its invariant.
LEMMA ColorKept ==
  ASSUME GraphTyped, ColorInv, Undirected, ColorStep, UNCHANGED <<adj, search, start>>
  PROVE  GraphTyped' /\ ColorInv'
<1>1. Coloring /\ CAside
  BY DEF Coloring, CAside, ColorStep
<1> QED BY <1>1, RivalKept, RivalPassedKept, WrestlerPassesKept DEF ColorStep

\* All that were reached are colored, and no two rivals alike.
LEMMA ColorAnswer == ASSUME GraphTyped, search = "wrestlers" /\ Undirected => ColorInv PROVE ColoringExact
<1> SUFFICES ASSUME Answered("wrestlers"), Undirected
             PROVE  IF refused THEN ~\E c \in [Reach(Edges, start) -> {"white", "black"}] : Proper(c)
                    ELSE Proper(color) /\ \A v \in Reach(Edges, start) : color[v] # "gray"
  BY DEF ColoringExact
<1>1. search = "wrestlers" /\ ColorInv /\ (refused \/ que = <<>>)
  BY DEF Answered
<1>2. CASE refused
  BY <1>1, <1>2 DEF ColorInv, Colorings
<1>3. CASE ~refused
  <2>1. que = <<>> /\ start \in Nodes /\ passed \subseteq Nodes
    BY <1>1, <1>3 DEF ColorInv, GraphTyped
  <2>2. \A v \in Nodes : color[v] # "gray" <=> v \in passed
    <3>1. Len(que) = 0
      BY <2>1
    <3>2. ~\E i \in 1..Len(que) : TRUE
      BY <3>1
    <3> QED BY <1>1, <3>2 DEF ColorInv
  <2>3. start \in passed
    BY <1>1, <2>1 DEF ColorInv
  <2>4. ASSUME NEW d \in Edges, d[1] \in passed PROVE d[2] \in passed /\ color[d[1]] # color[d[2]]
    <3>1. d[1] \in Nodes /\ d[2] \in Nodes /\ d[2] \in Children(d[1])
      BY DEF Edges
    <3>2. color[d[2]] = Neg(color[d[1]])
      BY <1>1, <2>4, <3>1 DEF ColorInv
    <3>3. color[d[2]] # "gray" /\ color[d[1]] # color[d[2]]
      BY <3>2, NegFacts
    <3> QED BY <2>2, <3>1, <3>3
  <2>5. \A v \in Reach(Edges, start) : v \in passed
    BY <2>1, <2>3, <2>4, ReachWithin
  <2>6. Proper(color)
    BY <2>4, <2>5 DEF Proper
  <2>7. \A v \in Reach(Edges, start) : color[v] # "gray"
    BY <2>1, <2>2, <2>5
  <2> QED BY <1>3, <2>6, <2>7
<1> QED BY <1>2, <1>3

-----------------------------------------------------------------------------
(* The graph programs: topological order                                   *)

\* The vertices are being printed in order.
Ordering == GraphTyped /\ TopoInv /\ search = "topo" /\ que # <<>>
TAside   == UNCHANGED <<adj, search, start, color, path, dist, passed, refused, depthVars>>

\* What the invariant says of the sorting, without the actions.
LEMMA TopoFacts ==
  ASSUME Ordering, TAside
  PROVE  /\ Nodes' = Nodes /\ adj' = adj /\ stack' = <<>>
         /\ (\A u : Children(u)' = Children(u)) /\ (\A u : Parents(u)' = Parents(u))
         /\ adj \in Graphs /\ nth \in [Nodes -> Nat] /\ cnt \in [Nodes -> Int]
         /\ que \in Seq(Nodes) /\ listed \in Seq(Nodes)
         /\ que[1] \in Nodes /\ Head(que) = que[1]
         /\ Len(que) \in Nat \ {0} /\ 1 \in 1..Len(que)
         /\ \A i \in 1..Len(que) : que[i] \in Nodes
         /\ Range(que) = {que[i] : i \in 1..Len(que)} /\ Range(listed) = {listed[i] : i \in 1..Len(listed)}
         /\ que[1] \in Range(que) /\ que[1] \notin Range(listed)
         /\ \A v \in Nodes : IsFiniteSet(Pending(v))
         /\ \A u, v \in Nodes : v \in Looked(u) => v \in Children(u) /\ u = que[1]
<1>1. adj' = adj /\ stack' = stack /\ stack = <<>>
  BY DEF TAside, depthVars, Ordering, TopoInv
<1>2. Nodes' = Nodes /\ (\A u : Children(u)' = Children(u)) /\ (\A u : Parents(u)' = Parents(u))
  BY <1>1, SameGraph
<1>3. /\ adj \in Graphs /\ nth \in [Nodes -> Nat] /\ cnt \in [Nodes -> Int]
      /\ que \in Seq(Nodes) /\ listed \in Seq(Nodes) /\ que # <<>> /\ \A u \in Nodes : nth[u] <= Len(adj[u])
  BY DEF Ordering, GraphTyped
<1>4. /\ que[1] \in Nodes /\ Head(que) = que[1] /\ Len(que) \in Nat \ {0} /\ 1 \in 1..Len(que)
      /\ \A i \in 1..Len(que) : que[i] \in Nodes
  BY <1>3, QueHead
<1>5. DOMAIN que = 1..Len(que) /\ DOMAIN listed = 1..Len(listed)
  BY <1>3
<1>6. Range(que) = {que[i] : i \in 1..Len(que)} /\ Range(listed) = {listed[i] : i \in 1..Len(listed)}
  BY <1>5 DEF Range
<1>7. que[1] \in Range(que) /\ que[1] \notin Range(listed)
  <2>1. que[1] \in Range(que)
    BY <1>4, <1>6
  <2> QED BY <2>1 DEF Ordering, TopoInv
<1>8. \A v \in Nodes : IsFiniteSet(Pending(v))
  <2>1. IsFiniteSet(Nodes)
    BY <1>3, GraphFacts
  <2>2. \A v \in Nodes : Pending(v) \in SUBSET Nodes
    BY DEF Pending, Parents
  <2> QED BY <2>1, <2>2, FS_Subset
<1>9. ASSUME NEW u \in Nodes, NEW v \in Nodes, v \in Looked(u) PROVE v \in Children(u) /\ u = que[1]
  <2>1. Looked(u) \subseteq Children(u) /\ (nth[u] = 0 => Looked(u) = {})
    BY <1>3, LookedIs
  <2>2. nth[u] > 0
    BY <1>3, <1>9, <2>1
  <2> QED BY <1>9, <2>1, <2>2 DEF Ordering, TopoInv
<1> QED BY <1>1, <1>2, <1>3, <1>4, <1>6, <1>7, <1>8, <1>9

\* The sorting keeps the types.
LEMMA TopoTyped ==
  ASSUME Ordering, TAside, cnt' \in [Nodes -> Int], que' \in Seq(Nodes), listed' \in Seq(Nodes),
         nth' \in [Nodes -> Nat], \A w \in Nodes : nth'[w] <= Len(adj[w])
  PROVE  GraphTyped'
<1>1. Nodes' = Nodes /\ adj' = adj
  BY TopoFacts
<1>2. GraphTyped /\ UNCHANGED <<search, start, color, path, dist, passed, refused, disc, fin, cc, stack, clock, group>>
  BY DEF Ordering, TAside, depthVars
<1> QED BY <1>1, <1>2 DEF GraphTyped

\* The elements of a list that is one longer.
LEMMA RangeGrows ==
  ASSUME NEW s \in Seq(Nodes), NEW v \in Nodes
  PROVE  Range(Append(s, v)) = Range(s) \union {v}
<1>1. Len(s) \in Nat /\ DOMAIN s = 1..Len(s) /\ DOMAIN Append(s, v) = 1..(Len(s) + 1)
  OBVIOUS
<1>2. Append(s, v)[Len(s) + 1] = v /\ \A i \in 1..Len(s) : Append(s, v)[i] = s[i]
  OBVIOUS
<1>3. \A i : i \in 1..(Len(s) + 1) <=> i \in 1..Len(s) \/ i = Len(s) + 1
  BY <1>1
<1>4. Len(s) + 1 \in 1..(Len(s) + 1)
  BY <1>1
<1> QED BY <1>1, <1>2, <1>3, <1>4 DEF Range

\* A vertex is counted down once for each parent, and queued at the last.
LEMMA CountDownKept == ASSUME Ordering, TAside, CountDown PROVE GraphTyped' /\ TopoInv'
<1>0. /\ Nodes' = Nodes /\ adj' = adj /\ stack' = <<>>
      /\ (\A u : Children(u)' = Children(u)) /\ (\A u : Parents(u)' = Parents(u))
      /\ nth \in [Nodes -> Nat] /\ cnt \in [Nodes -> Int]
      /\ que \in Seq(Nodes) /\ listed \in Seq(Nodes)
      /\ Len(que) \in Nat \ {0} /\ 1 \in 1..Len(que)
      /\ \A i \in 1..Len(que) : que[i] \in Nodes
      /\ Range(que) = {que[i] : i \in 1..Len(que)}
      /\ \A v \in Nodes : IsFiniteSet(Pending(v))
      /\ \A u, v \in Nodes : v \in Looked(u) => v \in Children(u) /\ u = que[1]
  BY TopoFacts
<1>b. TopoInv /\ GraphTyped /\ que # <<>>
  BY DEF Ordering
<1>1. PICK h \in Nodes : h = que[1] /\ h = Head(que) /\ h \in Range(que) /\ h \notin Range(listed)
  BY TopoFacts
<1>2. PICK v \in Nodes : /\ Looks(Head(que), v)
                         /\ cnt' = [cnt EXCEPT ![v] = @ - 1]
                         /\ que' = IF cnt[v] = 1 THEN Append(que, v) ELSE que
  BY DEF CountDown
<1>3. Advances(Head(que)) /\ listed' = listed
  BY DEF CountDown
<1>4. /\ v \in Children(h) /\ v \notin Looked(h)
      /\ nth' \in [Nodes -> Nat] /\ \A w \in Nodes : nth'[w] <= Len(adj[w])
      /\ \A w \in Nodes : w # h => nth'[w] = nth[w] /\ Looked(w)' = Looked(w)
      /\ \A w \in Nodes : w = h => Looked(w)' = Looked(w) \union {v}
  BY <1>0, <1>1, <1>2, <1>3, <1>b, HeadLooks
<1>5. h \in Parents(v)
  BY <1>4 DEF Parents
<1>6. h \in Pending(v)
  BY <1>1, <1>4, <1>5 DEF Pending
<1>7. Pending(v)' = Pending(v) \ {h}
  <2>1. \A u \in Parents(v) : u \in Nodes
    BY DEF Parents
  <2> QED BY <1>0, <1>3, <1>4, <2>1 DEF Pending
<1>8. ASSUME NEW w \in Nodes, w # v PROVE Pending(w)' = Pending(w)
  <2>1. \A u \in Parents(w) : u \in Nodes
    BY DEF Parents
  <2>2. \A u \in Nodes : w \in Looked(u)' <=> w \in Looked(u)
    BY <1>4, <1>8
  <2> QED BY <1>0, <1>3, <2>1, <2>2 DEF Pending
<1>9. cnt[v] = Cardinality(Pending(v)) /\ IsFiniteSet(Pending(v)) /\ Cardinality(Pending(v)) \in Nat
  BY <1>0, <1>b, FS_CardinalityType DEF TopoInv
<1>10. Cardinality(Pending(v) \ {h}) = Cardinality(Pending(v)) - 1 /\ IsFiniteSet(Pending(v) \ {h})
  BY <1>6, <1>9, FS_RemoveElement
<1>11. cnt[v] = 1 <=> Pending(v)' = {}
  <2>1. Cardinality(Pending(v) \ {h}) = 0 <=> Pending(v) \ {h} = {}
    BY <1>10, FS_EmptySet
  <2> QED BY <1>7, <1>9, <1>10, <2>1
<1>12. v \notin Range(que) \union Range(listed)
  BY <1>6, <1>b DEF TopoInv
<1>13. /\ que' \in Seq(Nodes) /\ Len(que') \in Nat /\ que' # <<>> /\ que'[1] = h
       /\ \A i \in 1..Len(que) : que'[i] = que[i]
       /\ cnt[v] # 1 => que' = que
       /\ cnt[v] = 1 => /\ Len(que') = Len(que) + 1 /\ que'[Len(que) + 1] = v
                        /\ \A i : i \in 1..(Len(que) + 1) <=> i \in 1..Len(que) \/ i = Len(que) + 1
  <2>1. CASE cnt[v] = 1
    <3>1. que' = Append(que, v)
      BY <1>2, <2>1
    <3>2. /\ que' \in Seq(Nodes) /\ Len(que') = Len(que) + 1 /\ que' # <<>>
          /\ \A i \in 1..Len(que) : que'[i] = que[i]
          /\ que'[Len(que) + 1] = v
          /\ \A i : i \in 1..(Len(que) + 1) <=> i \in 1..Len(que) \/ i = Len(que) + 1
      BY <1>0, <3>1, QueGrows
    <3> QED BY <1>0, <1>1, <2>1, <3>2
  <2>2. CASE cnt[v] # 1
    <3>1. que' = que
      BY <1>2, <2>2
    <3> QED BY <1>0, <1>1, <1>b, <2>2, <3>1
  <2> QED BY <2>1, <2>2
<1>14. Range(que') = IF cnt[v] = 1 THEN Range(que) \union {v} ELSE Range(que)
  BY <1>0, <1>2, RangeGrows
<1>15. cnt' \in [Nodes -> Int] /\ cnt'[v] = cnt[v] - 1 /\ \A w \in Nodes : w # v => cnt'[w] = cnt[w]
  BY <1>0, <1>2
<1>16. GraphTyped'
  BY <1>0, <1>3, <1>4, <1>13, <1>15, TopoTyped
<1>17. ASSUME NEW w \in Nodes PROVE cnt'[w] = Cardinality(Pending(w)')
  <2>1. CASE w = v
    BY <1>7, <1>9, <1>10, <1>15, <2>1
  <2>2. CASE w # v
    BY <1>8, <1>15, <1>b, <2>2 DEF TopoInv
  <2> QED BY <2>1, <2>2
<1>18. ASSUME NEW w \in Nodes PROVE Pending(w)' = {} <=> w \in Range(que') \union Range(listed)
  <2>1. CASE w = v
    BY <1>11, <1>12, <1>14, <2>1
  <2>2. CASE w # v
    <3>1. Pending(w) = {} <=> w \in Range(que) \union Range(listed)
      BY <1>b DEF TopoInv
    <3> QED BY <1>8, <1>14, <2>2, <3>1
  <2> QED BY <2>1, <2>2
<1>19. ASSUME NEW i \in 1..Len(que'), NEW j \in 1..Len(que'), i # j PROVE que'[i] # que'[j]
  <2>0. \A a, b \in 1..Len(que) : a # b => que[a] # que[b]
    BY <1>b DEF TopoInv
  <2>1. CASE cnt[v] # 1
    BY <1>13, <1>19, <2>0, <2>1
  <2>2. CASE cnt[v] = 1
    <3>1. \A a \in 1..Len(que) : que[a] # v
      BY <1>0, <1>12
    <3> QED BY <1>13, <1>19, <2>0, <2>2, <3>1
  <2> QED BY <2>1, <2>2
<1>20. Range(que') \intersect Range(listed) = {}
  BY <1>12, <1>14, <1>b DEF TopoInv
<1>21. \A u \in Nodes : nth'[u] > 0 => que' # <<>> /\ u = que'[1]
  BY <1>1, <1>4, <1>13, <1>b DEF TopoInv
<1>22. \A w \in Range(que') \union Range(listed) : w \notin Parents(w)
  <2>1. ASSUME cnt[v] = 1, v \in Parents(v) PROVE FALSE
    <3>1. v \notin Looked(v)
      BY <1>0, <1>1, <1>12
    <3>2. v \in Pending(v)
      BY <1>12, <2>1, <3>1 DEF Pending
    <3>3. v = h
      BY <1>7, <1>11, <2>1, <3>2
    <3> QED BY <1>1, <1>12, <3>3
  <2> QED BY <1>14, <1>b, <2>1 DEF TopoInv
<1>23. \A j \in 1..Len(listed') : \A u \in Parents(listed'[j]) : \E i \in 1..(j - 1) : listed'[i] = u
  <2>1. \A j \in 1..Len(listed) : \A u \in Parents(listed[j]) : \E i \in 1..(j - 1) : listed[i] = u
    BY <1>b DEF TopoInv
  <2> QED BY <1>3, <2>1
<1>24. \A i, j \in 1..Len(listed) : i # j => listed[i] # listed[j]
  BY <1>b DEF TopoInv
<1>25. TopoInv'
  <2>1. (\A w \in Nodes : cnt[w] = Cardinality(Pending(w)))'
    BY <1>0, <1>17
  <2>2. (\A w \in Nodes : Pending(w) = {} <=> w \in Range(que) \union Range(listed))'
    BY <1>0, <1>3, <1>18
  <2>3. (Range(que) \intersect Range(listed) = {})'
    BY <1>3, <1>20
  <2>4. (\A w \in Range(que) \union Range(listed) : w \notin Parents(w))'
    BY <1>0, <1>3, <1>22
  <2>5. (\A i, j \in 1..Len(que) : i # j => que[i] # que[j])'
    BY <1>19
  <2>6. (\A i, j \in 1..Len(listed) : i # j => listed[i] # listed[j])'
    BY <1>3, <1>24
  <2>7. (\A u \in Nodes : nth[u] > 0 => que # <<>> /\ u = que[1])'
    BY <1>0, <1>21
  <2>8. (\A j \in 1..Len(listed) : \A u \in Parents(listed[j]) : \E i \in 1..(j - 1) : listed[i] = u)'
    BY <1>0, <1>23
  <2> QED BY <1>0, <2>1, <2>2, <2>3, <2>4, <2>5, <2>6, <2>7, <2>8 DEF TopoInv
<1> QED BY <1>16, <1>25

\* What is printed has its parents before it.
LEMMA PrintNameKept == ASSUME Ordering, TAside, PrintName PROVE GraphTyped' /\ TopoInv'
<1>0. /\ Nodes' = Nodes /\ adj' = adj /\ stack' = <<>>
      /\ (\A u : Children(u)' = Children(u)) /\ (\A u : Parents(u)' = Parents(u))
      /\ nth \in [Nodes -> Nat] /\ cnt \in [Nodes -> Int]
      /\ que \in Seq(Nodes) /\ listed \in Seq(Nodes)
      /\ Len(que) \in Nat \ {0} /\ 1 \in 1..Len(que)
      /\ Range(que) = {que[i] : i \in 1..Len(que)} /\ Range(listed) = {listed[i] : i \in 1..Len(listed)}
      /\ \A u, v \in Nodes : v \in Looked(u) => v \in Children(u) /\ u = que[1]
  BY TopoFacts
<1>b. TopoInv /\ GraphTyped /\ que # <<>>
  BY DEF Ordering
<1>1. PICK h \in Nodes : h = que[1] /\ h = Head(que) /\ h \in Range(que) /\ h \notin Range(listed)
  BY TopoFacts
<1>2. Through(Head(que)) /\ Dequeue /\ que' = Tail(que) /\ listed' = Append(listed, h) /\ cnt' = cnt
  BY <1>1 DEF PrintName, Dequeue
<1>3. /\ nth' \in [Nodes -> Nat] /\ \A w \in Nodes : nth'[w] <= Len(adj[w])
      /\ \A w \in Nodes : nth'[w] = IF w = h THEN 0 ELSE nth[w]
      /\ Looked(h) = Children(h)
      /\ \A w \in Nodes : w # h => Looked(w)' = Looked(w)
      /\ \A w \in Nodes : w = h => Looked(w)' = {}
  BY <1>0, <1>1, <1>2, <1>b, Dequeued
<1>4. /\ que' \in Seq(Nodes) /\ Len(que') = Len(que) - 1
      /\ \A i \in 1..(Len(que) - 1) : que'[i] = que[i + 1] /\ i + 1 \in 1..Len(que)
      /\ \A i \in 1..Len(que) : i # 1 => i - 1 \in 1..(Len(que) - 1) /\ que'[i - 1] = que[i]
  BY <1>0, <1>2, <1>b, QueShrinks
<1>4a. Len(que) \in Nat
  BY <1>0
<1>4b. Range(que) = {que[i] : i \in 1..Len(que)}
  BY <1>0
<1>5. /\ listed' \in Seq(Nodes) /\ Len(listed') = Len(listed) + 1 /\ Len(listed) \in Nat
      /\ \A i \in 1..Len(listed) : listed'[i] = listed[i]
      /\ listed'[Len(listed) + 1] = h
      /\ \A i : i \in 1..(Len(listed) + 1) <=> i \in 1..Len(listed) \/ i = Len(listed) + 1
  <2>1. Len(listed) \in Nat
    BY <1>0
  <2>2. \A i : i \in 1..(Len(listed) + 1) <=> i \in 1..Len(listed) \/ i = Len(listed) + 1
    BY <2>1
  <2>3. listed' \in Seq(Nodes) /\ Len(listed') = Len(listed) + 1 /\ listed'[Len(listed) + 1] = h
    BY <1>0, <1>2
  <2>4. \A i \in 1..Len(listed) : listed'[i] = listed[i]
    BY <1>0, <1>2
  <2> QED BY <2>1, <2>2, <2>3, <2>4
<1>6. GraphTyped'
  BY <1>0, <1>2, <1>3, <1>4, <1>5, TopoTyped
<1>7. Range(listed') = Range(listed) \union {h}
  BY <1>0, <1>2, RangeGrows
<1>8. \A i \in 1..Len(que) : i # 1 => que[i] # h
  BY <1>0, <1>1, <1>b DEF TopoInv
<1>9. Range(que') = Range(que) \ {h}
  <2>1. Range(que') = {que'[i] : i \in 1..(Len(que) - 1)}
    <3>1. DOMAIN que' = 1..(Len(que) - 1)
      BY <1>4
    <3> QED BY <3>1 DEF Range
  <2>2. ASSUME NEW i \in 1..(Len(que) - 1) PROVE que'[i] \in Range(que) \ {h}
    <3>1. que'[i] = que[i + 1] /\ i + 1 \in 1..Len(que)
      BY <1>4
    <3>2. i + 1 # 1
      <4>1. \A n \in Nat : i \in 1..(n - 1) => i + 1 # 1
        OBVIOUS
      <4> QED BY <1>4a, <4>1
    <3>3. que[i + 1] # h
      BY <1>8, <3>1, <3>2
    <3>4. que[i + 1] \in Range(que)
      BY <1>4b, <3>1
    <3> QED BY <3>1, <3>3, <3>4
  <2>3. ASSUME NEW w \in Range(que) \ {h} PROVE \E i \in 1..(Len(que) - 1) : que'[i] = w
    <3>1. PICK i \in 1..Len(que) : que[i] = w /\ i # 1
      BY <1>0, <1>1
    <3> QED BY <1>4, <3>1
  <2> QED BY <2>1, <2>2, <2>3
<1>10. \A u \in Nodes : nth'[u] = 0 /\ Looked(u)' = {}
  <2>1. ASSUME NEW u \in Nodes PROVE nth'[u] = 0
    <3>1. nth[u] \in Nat /\ (nth[u] > 0 => u = h)
      BY <1>0, <1>1, <1>b DEF TopoInv
    <3> QED BY <1>3, <3>1
  <2>2. ASSUME NEW u \in Nodes PROVE Looked(u)' = {}
    <3>1. 1..nth'[u] = {}
      BY <2>1
    <3> QED BY <3>1 DEF Looked
  <2> QED BY <2>1, <2>2
<1>11. ASSUME NEW v \in Nodes PROVE Pending(v)' = Pending(v)
  <2>1. \A u \in Parents(v) : u \in Nodes /\ v \in Children(u)
    BY DEF Parents
  <2>2. \A u \in Parents(v) : u = h => v \in Looked(u)
    BY <1>3, <2>1
  <2>3. \A u \in Parents(v) : v \in Looked(u) => u = h
    BY <1>0, <1>1, <2>1
  <2>4. \A u \in Parents(v) : (u \notin Range(listed) /\ v \notin Looked(u)) <=> u \notin Range(listed')
    BY <1>7, <2>2, <2>3
  <2>5. \A u \in Parents(v) : v \notin Looked(u)'
    BY <1>10, <2>1
  <2> QED BY <1>0, <2>4, <2>5 DEF Pending
<1>12. Range(que') \union Range(listed') = Range(que) \union Range(listed)
  BY <1>1, <1>7, <1>9
<1>13. \A v \in Nodes : cnt'[v] = Cardinality(Pending(v)')
  BY <1>2, <1>11, <1>b DEF TopoInv
<1>14. \A v \in Nodes : Pending(v)' = {} <=> v \in Range(que') \union Range(listed')
  <2>1. \A v \in Nodes : Pending(v) = {} <=> v \in Range(que) \union Range(listed)
    BY <1>b DEF TopoInv
  <2> QED BY <1>11, <1>12, <2>1
<1>15. ASSUME NEW i \in 1..Len(que'), NEW j \in 1..Len(que'), i # j PROVE que'[i] # que'[j]
  <2>1. que'[i] = que[i + 1] /\ i + 1 \in 1..Len(que) /\ que'[j] = que[j + 1] /\ j + 1 \in 1..Len(que) /\ i + 1 # j + 1
    BY <1>4, <1>15
  <2> QED BY <1>b, <2>1 DEF TopoInv
<1>16. ASSUME NEW i \in 1..Len(listed'), NEW j \in 1..Len(listed'), i # j PROVE listed'[i] # listed'[j]
  <2>1. \A a, b \in 1..Len(listed) : a # b => listed[a] # listed[b]
    BY <1>b DEF TopoInv
  <2>2. \A a \in 1..Len(listed) : listed[a] # h
    BY <1>0, <1>1
  <2> QED BY <1>5, <1>16, <2>1, <2>2
<1>17. Range(que') \intersect Range(listed') = {}
  BY <1>7, <1>9, <1>b DEF TopoInv
<1>18. \A v \in Range(que') \union Range(listed') : v \notin Parents(v)
  <2>1. \A v \in Range(que) \union Range(listed) : v \notin Parents(v)
    BY <1>b DEF TopoInv
  <2> QED BY <1>12, <2>1
<1>19. ASSUME NEW j \in 1..Len(listed'), NEW u \in Parents(listed'[j]) PROVE \E i \in 1..(j - 1) : listed'[i] = u
  <2>1. CASE j \in 1..Len(listed)
    <3>1. PICK i \in 1..(j - 1) : listed[i] = u
      BY <1>5, <1>19, <1>b, <2>1 DEF TopoInv
    <3>2. i \in 1..Len(listed)
      BY <1>5, <2>1
    <3> QED BY <1>5, <3>1, <3>2
  <2>2. CASE j = Len(listed) + 1
    <3>1. u \in Parents(h) /\ u \in Nodes
      BY <1>5, <1>19, <2>2 DEF Parents
    <3>2. Pending(h) = {} /\ h \notin Parents(h)
      BY <1>1, <1>b DEF TopoInv
    <3>3. u # h /\ h \notin Looked(u)
      BY <1>0, <1>1, <3>1, <3>2
    <3>4. u \in Range(listed)
      BY <3>1, <3>2, <3>3 DEF Pending
    <3>5. PICK i \in 1..Len(listed) : listed[i] = u
      BY <1>0, <3>4
    <3>6. i \in 1..(j - 1)
      BY <1>5, <2>2
    <3> QED BY <1>5, <3>5, <3>6
  <2> QED BY <1>5, <2>1, <2>2
<1>20. TopoInv'
  <2>1. (\A w \in Nodes : cnt[w] = Cardinality(Pending(w)))'
    BY <1>0, <1>13
  <2>2. (\A w \in Nodes : Pending(w) = {} <=> w \in Range(que) \union Range(listed))'
    BY <1>0, <1>14
  <2>3. (Range(que) \intersect Range(listed) = {})'
    BY <1>17
  <2>4. (\A w \in Range(que) \union Range(listed) : w \notin Parents(w))'
    BY <1>0, <1>18
  <2>5. (\A i, j \in 1..Len(que) : i # j => que[i] # que[j])'
    BY <1>15
  <2>6. (\A i, j \in 1..Len(listed) : i # j => listed[i] # listed[j])'
    BY <1>16
  <2>7. (\A u \in Nodes : nth[u] > 0 => que # <<>> /\ u = que[1])'
    BY <1>0, <1>10
  <2>8. (\A j \in 1..Len(listed) : \A u \in Parents(listed[j]) : \E i \in 1..(j - 1) : listed[i] = u)'
    BY <1>0, <1>19
  <2> QED BY <1>0, <2>1, <2>2, <2>3, <2>4, <2>5, <2>6, <2>7, <2>8 DEF TopoInv
<1> QED BY <1>6, <1>20

\* A step of the sorting keeps its invariant.
LEMMA TopoKept ==
  ASSUME GraphTyped, TopoInv, TopoStep, UNCHANGED <<adj, search, start>>
  PROVE  GraphTyped' /\ TopoInv'
<1>1. Ordering /\ TAside
  BY DEF Ordering, TAside, TopoStep
<1> QED BY <1>1, CountDownKept, PrintNameKept DEF TopoStep

\* Of what was not printed each has a parent that was not; going back along
\* them leads onto a cycle, as there are only finitely many.
LEMMA LeftOutIsLedTo ==
  ASSUME GraphTyped, NEW U \in SUBSET Nodes, NEW v \in U,
         \A w \in U : \E u \in U : <<u, w>> \in Edges
  PROVE  \E e \in Edges : OnCycle(e) /\ v \in Reach(Edges, e[1])
<1> DEFINE A == {u \in U : v \in Reach(Edges, u)}
           size == [u \in A |-> Cardinality(Reach(Edges, u))]
<1>1. IsFiniteSet(Nodes)
  BY GraphFacts DEF GraphTyped
<1>2. \A u : IsFiniteSet(Reach(Edges, u)) /\ Cardinality(Reach(Edges, u)) \in Nat /\ Reach(Edges, u) \in SUBSET Nodes
  <2>1. \A u : Reach(Edges, u) \in SUBSET Nodes
    BY ReachIsNode
  <2> QED BY <1>1, <2>1, FS_Subset, FS_CardinalityType
<1>3. A \in SUBSET Nodes /\ v \in A
  BY ReachSelf
<1>4. IsFiniteSet(A)
  BY <1>1, <1>3, FS_Subset
<1>5. \A u \in A : size[u] = Cardinality(Reach(Edges, u)) /\ size[u] \in Int
  BY <1>2
<1>6. PICK m \in A : \A u \in A : size[u] <= size[m]
  <2> HIDE DEF A, size
  <2> QED BY <1>3, <1>4, <1>5, Greatest
<1>7. PICK p \in U : <<p, m>> \in Edges
  BY <1>3, <1>6
<1>8. m \in Nodes /\ p \in Nodes /\ v \in Reach(Edges, m)
  BY <1>3, <1>6
<1>9. m \in Reach(Edges, p)
  BY <1>7, <1>8, ReachSelf, ReachOn
<1>10. Reach(Edges, m) \subseteq Reach(Edges, p)
  BY <1>9, ReachThrough
<1>11. p \in A
  BY <1>8, <1>10
<1>12. Cardinality(Reach(Edges, p)) <= Cardinality(Reach(Edges, m))
  BY <1>5, <1>6, <1>11
<1>13. Reach(Edges, p) = Reach(Edges, m)
  <2>1. Cardinality(Reach(Edges, m)) <= Cardinality(Reach(Edges, p))
    BY <1>2, <1>10, FS_Subset
  <2>2. Cardinality(Reach(Edges, p)) = Cardinality(Reach(Edges, m))
    BY <1>2, <1>12, <2>1
  <2> QED BY <1>2, <1>10, <2>2, FS_Subset
<1>14. p \in Reach(Edges, m)
  BY <1>8, <1>13, ReachSelf
<1>15. OnCycle(<<p, m>>) /\ v \in Reach(Edges, <<p, m>>[1])
  BY <1>11, <1>14 DEF OnCycle
<1> QED BY <1>7, <1>15

\* Everything is printed but what a cycle leads to.
LEMMA TopoAnswer == ASSUME GraphTyped, search = "topo" => TopoInv PROVE TopoOrder
<1> SUFFICES ASSUME Answered("topo")
             PROVE  /\ \A i, j \in DOMAIN listed : /\ listed[i] = listed[j] => i = j
                                                   /\ <<listed[i], listed[j]>> \in Edges => i < j
                    /\ \A v \in Nodes : v \in Range(listed) <=> ~\E e \in Edges : OnCycle(e) /\ v \in Reach(Edges, e[1])
  BY DEF TopoOrder
<1>1. search = "topo" /\ TopoInv /\ que = <<>> /\ listed \in Seq(Nodes)
  BY DEF Answered, GraphTyped
<1>2. Len(listed) \in Nat /\ DOMAIN listed = 1..Len(listed) /\ \A i \in 1..Len(listed) : listed[i] \in Nodes
  BY <1>1
<1>3. Range(listed) = {listed[i] : i \in 1..Len(listed)}
  BY <1>2 DEF Range
<1>4. \A i, j \in 1..Len(listed) : listed[i] = listed[j] => i = j
  BY <1>1 DEF TopoInv
\* The parents of what was printed were printed before.
<1>5. ASSUME NEW u \in Nodes, NEW j \in 1..Len(listed), <<u, listed[j]>> \in Edges
      PROVE  \E i \in 1..Len(listed) : i < j /\ listed[i] = u
  <2>1. u \in Parents(listed[j])
    BY <1>2, <1>5, EdgeIs DEF Parents
  <2>2. PICK i \in 1..(j - 1) : listed[i] = u
    BY <1>1, <2>1 DEF TopoInv
  <2>3. i \in 1..Len(listed) /\ i < j
    BY <1>2
  <2> QED BY <2>2, <2>3
<1>6. ASSUME NEW i \in 1..Len(listed), NEW j \in 1..Len(listed), <<listed[i], listed[j]>> \in Edges PROVE i < j
  BY <1>2, <1>4, <1>5, <1>6
<1>7. ASSUME NEW v \in Range(listed), NEW e \in Edges, OnCycle(e), v \in Reach(Edges, e[1]) PROVE FALSE
  <2>1. PICK a \in Nodes, b \in Nodes : e = <<a, b>> /\ e[1] = a /\ e[2] = b
    BY DEF Edges
  <2>2. a \in Reach(Edges, b) /\ v \in Reach(Edges, a)
    BY <1>7, <2>1 DEF OnCycle
  <2>3. a \in Range(listed)
    <3> DEFINE S == Nodes \ Range(listed)
    <3>1. ASSUME NEW d \in Edges, d[1] \in S PROVE d[2] \in S
      <4>1. PICK x \in Nodes, y \in Nodes : d = <<x, y>> /\ d[1] = x /\ d[2] = y
        BY DEF Edges
      <4> QED BY <1>3, <1>5, <3>1, <4>1
    <3>2. S \in SUBSET Nodes /\ v \notin S
      BY <1>7
    <3>3. a \notin S
      <4> HIDE DEF S
      <4> QED BY <2>2, <3>1, <3>2, ReachWithin
    <3> QED BY <3>3
  <2>4. PICK p \in 1..Len(listed) : listed[p] = a
    BY <1>3, <2>3
  <2> DEFINE S == {w \in Nodes : \A i \in 1..Len(listed) : listed[i] = w => p < i}
  <2>5. S \in SUBSET Nodes /\ a \notin S
    BY <1>2, <2>4
  <2>6. ASSUME NEW d \in Edges, d[1] \in S PROVE d[2] \in S
    <3>1. PICK x \in Nodes, y \in Nodes : d = <<x, y>> /\ d[1] = x /\ d[2] = y
      BY DEF Edges
    <3>2. ASSUME NEW j \in 1..Len(listed), listed[j] = y PROVE p < j
      <4>1. PICK i \in 1..Len(listed) : i < j /\ listed[i] = x
        BY <1>5, <3>1, <3>2
      <4>2. p < i
        BY <2>6, <3>1, <4>1
      <4> QED BY <1>2, <4>1, <4>2
    <3> QED BY <3>1, <3>2
  <2>7. b \in S
    <3>1. ASSUME NEW j \in 1..Len(listed), listed[j] = b PROVE p < j
      <4>1. PICK i \in 1..Len(listed) : i < j /\ listed[i] = a
        BY <1>5, <2>1, <3>1
      <4>2. i = p
        BY <1>4, <2>4, <4>1
      <4> QED BY <4>1, <4>2
    <3> QED BY <3>1
  <2>8. a \in S
    <3> HIDE DEF S
    <3> QED BY <2>2, <2>5, <2>6, <2>7, ReachWithin
  <2> QED BY <2>5, <2>8
<1>8. ASSUME NEW v \in Nodes, v \notin Range(listed)
      PROVE  \E e \in Edges : OnCycle(e) /\ v \in Reach(Edges, e[1])
  <2> DEFINE U == Nodes \ Range(listed)
  <2>1. ASSUME NEW w \in U PROVE \E u \in U : <<u, w>> \in Edges
    <3>1. w \notin Range(que)
      <4>1. DOMAIN que = {}
        BY <1>1
      <4> QED BY <4>1 DEF Range
    <3>2. Pending(w) # {}
      BY <1>1, <2>1, <3>1 DEF TopoInv
    <3>3. PICK u \in Pending(w) : TRUE
      BY <3>2
    <3>4. u \in Nodes /\ w \in Children(u) /\ u \notin Range(listed)
      BY <3>3 DEF Pending, Parents
    <3> QED BY <3>4, EdgeIs
  <2>2. U \in SUBSET Nodes /\ v \in U
    BY <1>8
  <2> HIDE DEF U
  <2> QED BY <2>1, <2>2, LeftOutIsLedTo
<1> QED BY <1>2, <1>4, <1>6, <1>7, <1>8

-----------------------------------------------------------------------------
\* The answers, from the invariant at the end.
LEMMA AllExactFromInd == ASSUME GraphInd PROVE AllExact
<1>1. GraphTyped /\ (search \in DepthFirst => DepthInv) /\ (search = "bfs" => BreadthInv)
  BY DEF GraphInd
<1>2. (search = "wrestlers" /\ Undirected => ColorInv) /\ (search = "topo" => TopoInv)
  BY DEF GraphInd
<1>3. BfsShortest /\ DepthOfTree
  BY <1>1, BfsAnswer, TreeAnswer
<1>4. DagExact /\ AcceptedExact /\ ComponentsExact /\ KindsPrinted
  BY <1>1, DagAnswer, UagAnswer, CcAnswer, EdgesAnswer
<1>5. TopoOrder /\ ColoringExact
  BY <1>1, <1>2, TopoAnswer, ColorAnswer
<1> QED BY <1>3, <1>4, <1>5 DEF AllExact

\* The coloring of any graph, and whether its edges go both ways is not asked.
LEMMA ColorStepTyped ==
  ASSUME GraphTyped, ColorStep, UNCHANGED <<adj, search, start>>
  PROVE  GraphTyped'
<1>0. /\ adj \in Graphs /\ color \in [Nodes -> Marks] /\ nth \in [Nodes -> Nat] /\ que \in Seq(Nodes) /\ que # <<>>
      /\ passed \subseteq Nodes /\ refused \in BOOLEAN /\ \A w \in Nodes : nth[w] <= Len(adj[w])
  BY DEF GraphTyped, ColorStep
<1>1. Nodes' = Nodes /\ adj' = adj /\ search = "wrestlers"
  BY SameGraph DEF ColorStep
<1>2. Head(que) = que[1] /\ que[1] \in Nodes
  BY <1>0, QueHead
<1>3. ASSUME color' \in [Nodes -> Marks], que' \in Seq(Nodes), passed' \subseteq Nodes,
             refused' \in BOOLEAN, nth' \in [Nodes -> Nat], \A w \in Nodes : nth'[w] <= Len(adj[w])
      PROVE  GraphTyped'
  <2>1. UNCHANGED <<search, start, path, dist, disc, fin, cc, stack, clock, group, cnt, listed>>
    BY DEF ColorStep, depthVars, topoVars
  <2> QED BY <1>1, <1>3, <2>1 DEF GraphTyped
<1>4. CASE Rival
  <2>1. PICK v \in Nodes :
          /\ Looks(Head(que), v)
          /\ \/ refused' = TRUE /\ UNCHANGED <<color, que, nth>>
             \/ /\ color' = [color EXCEPT ![v] = Neg(color[Head(que)])]
                /\ que' = Append(que, v)
                /\ Advances(Head(que)) /\ UNCHANGED refused
    BY <1>4 DEF Rival
  <2>2. passed' = passed
    BY <1>4 DEF Rival
  <2>3. CASE refused' = TRUE /\ UNCHANGED <<color, que, nth>>
    BY <1>0, <1>3, <2>2, <2>3
  <2>4. CASE color' = [color EXCEPT ![v] = Neg(color[Head(que)])] /\ que' = Append(que, v) /\ Advances(Head(que)) /\ refused' = refused
    <3>1. nth' \in [Nodes -> Nat] /\ \A w \in Nodes : nth'[w] <= Len(adj[w])
      BY <1>0, <1>1, <2>1, <2>4, HeadLooks
    <3>2. Neg(color[Head(que)]) \in Marks
      BY DEF Neg, Marks
    <3>3. color' \in [Nodes -> Marks] /\ que' \in Seq(Nodes)
      BY <1>0, <2>4, <3>2
    <3> QED BY <1>0, <1>3, <2>2, <2>4, <3>1, <3>3
  <2> QED BY <2>1, <2>3, <2>4
<1>5. CASE RivalPassed
  <2>1. PICK v \in passed : Looks(Head(que), v)
    BY <1>5 DEF RivalPassed
  <2>2. Advances(Head(que)) /\ UNCHANGED <<color, que, passed, refused>> /\ v \in Nodes
    BY <1>0, <1>5, <2>1 DEF RivalPassed
  <2>3. nth' \in [Nodes -> Nat] /\ \A w \in Nodes : nth'[w] <= Len(adj[w])
    BY <1>0, <1>1, <2>1, <2>2, HeadLooks
  <2> QED BY <1>0, <1>3, <2>2, <2>3
<1>6. CASE WrestlerPasses
  <2>1. Through(Head(que)) /\ Dequeue /\ que' = Tail(que) /\ passed' = passed \union {que[1]} /\ UNCHANGED <<color, refused>>
    BY <1>2, <1>6 DEF WrestlerPasses, Dequeue
  <2>2. nth' \in [Nodes -> Nat] /\ \A w \in Nodes : nth'[w] <= Len(adj[w])
    BY <1>0, <1>1, <2>1, Dequeued
  <2>3. que' \in Seq(Nodes)
    BY <1>0, <2>1, QueShrinks
  <2> QED BY <1>0, <1>2, <1>3, <2>1, <2>2, <2>3
<1> QED BY <1>4, <1>5, <1>6 DEF ColorStep

\* A step that changes nothing keeps the invariant.
LEMMA GraphStutters == ASSUME GraphInd, UNCHANGED graphVars PROVE GraphInd'
<1>1. UNCHANGED <<adj, search, start, color, path, dist, nth, que, passed, refused,
                  disc, fin, cc, stack, clock, group, told, cnt, listed>>
  BY DEF graphVars, depthVars, topoVars
<1>2. /\ Nodes' = Nodes /\ Edges' = Edges /\ Undirected' = Undirected
      /\ (\A u : Children(u)' = Children(u)) /\ (\A u : Parents(u)' = Parents(u)) /\ (\A e : OnCycle(e)' = OnCycle(e))
      /\ \A E, u : Reach(E, u)' = Reach(E, u)
  BY <1>1, SameGraph
<1>3. (\A u : Looked(u)' = Looked(u)) /\ (\A e : Tells(e)' = Tells(e)) /\ Colorings' = Colorings
  BY <1>1, <1>2 DEF Looked, Tells, Colorings, Proper
<1>4. (\A v : Pending(v)' = Pending(v)) /\ (\A k, v : WalkTo(k, v)' = WalkTo(k, v))
  BY <1>1, <1>2, <1>3 DEF Pending, WalkTo
<1>5. GraphTyped'
  BY <1>1, <1>2 DEF GraphInd, GraphTyped
<1>6. ASSUME search \in DepthFirst PROVE DepthInv'
  <2>1. StackInv' /\ MarkInv' /\ que' = <<>>
    BY <1>1, <1>2, <1>3, <1>6 DEF GraphInd, DepthInv, StackInv, MarkInv
  <2>2. search = "dag" => DagInv'
    BY <1>1, <1>2, <1>3, <1>6 DEF GraphInd, DepthInv, DagInv
  <2>3. search = "uag" => UagInv'
    BY <1>1, <1>2, <1>3, <1>6 DEF GraphInd, DepthInv, UagInv, OneParent, FromEarlier
  <2>4. search = "cc" => CcInv'
    BY <1>1, <1>2, <1>3, <1>6 DEF GraphInd, DepthInv, CcInv
  <2>5. search = "edges" => EdgesInv'
    BY <1>1, <1>2, <1>3, <1>6 DEF GraphInd, DepthInv, EdgesInv, Backward, Forward, Across
  <2> QED BY <1>1, <2>1, <2>2, <2>3, <2>4, <2>5 DEF DepthInv
<1>7. search = "bfs" => BreadthInv'
  BY <1>1, <1>2, <1>3, <1>4 DEF GraphInd, BreadthInv
<1>8. search = "wrestlers" /\ Undirected => ColorInv'
  BY <1>1, <1>2, <1>3 DEF GraphInd, ColorInv
<1>9. ASSUME search = "topo" PROVE TopoInv'
  <2>1. TopoInv
    BY <1>9 DEF GraphInd
  <2>2. stack' = <<>> /\ (\A v \in Nodes : cnt[v] = Cardinality(Pending(v)))'
    BY <1>1, <1>2, <1>4, <2>1 DEF TopoInv
  <2>3. (\A v \in Nodes : Pending(v) = {} <=> v \in Range(que) \union Range(listed))'
    BY <1>1, <1>2, <1>4, <2>1 DEF TopoInv
  <2>4. /\ (\A i, j \in 1..Len(que) : i # j => que[i] # que[j])'
        /\ (\A i, j \in 1..Len(listed) : i # j => listed[i] # listed[j])'
    BY <1>1, <2>1 DEF TopoInv
  <2>5. (Range(que) \intersect Range(listed) = {})'
    BY <1>1, <2>1 DEF TopoInv
  <2>6. (\A u \in Nodes : nth[u] > 0 => que # <<>> /\ u = que[1])'
    BY <1>1, <1>2, <2>1 DEF TopoInv
  <2>7. (\A v \in Range(que) \union Range(listed) : v \notin Parents(v))'
    BY <1>1, <1>2, <2>1 DEF TopoInv
  <2>8. (\A j \in 1..Len(listed) : \A u \in Parents(listed[j]) : \E i \in 1..(j - 1) : listed[i] = u)'
    <3>1. \A j \in 1..Len(listed) : \A u \in Parents(listed[j]) : \E i \in 1..(j - 1) : listed[i] = u
      BY <2>1 DEF TopoInv
    <3>2. \A j : Parents(listed[j])' = Parents(listed[j])
      BY <1>1 DEF Parents, Children, Nodes
    <3> QED BY <1>1, <3>1, <3>2
  <2> QED BY <2>2, <2>3, <2>4, <2>5, <2>6, <2>7, <2>8 DEF TopoInv
<1> QED BY <1>1, <1>2, <1>5, <1>6, <1>7, <1>8, <1>9 DEF GraphInd

\* The invariant holds after each step.
LEMMA GraphNextKept == ASSUME GraphInd, GraphNext PROVE GraphInd'
<1>1. UNCHANGED <<adj, search, start>> /\ Undirected' = Undirected
  BY SameGraph DEF GraphNext
<1>2. CASE DepthStep
  <2>1. search \in DepthFirst
    BY <1>2 DEF DepthStep
  <2>2. GraphTyped' /\ DepthInv'
    BY <1>1, <1>2, <2>1, DepthKept DEF GraphInd
  <2> QED BY <1>1, <2>1, <2>2 DEF GraphInd, DepthFirst
<1>3. CASE BreadthStep
  <2>1. search = "bfs"
    BY <1>3 DEF BreadthStep
  <2>2. GraphTyped' /\ BreadthInv'
    BY <1>1, <1>3, <2>1, BreadthKept DEF GraphInd
  <2> QED BY <1>1, <2>1, <2>2 DEF GraphInd, DepthFirst
<1>4. CASE ColorStep
  <2>1. search = "wrestlers"
    BY <1>4 DEF ColorStep
  <2>2. GraphTyped'
    BY <1>1, <1>4, ColorStepTyped DEF GraphInd
  <2>3. Undirected => ColorInv'
    BY <1>1, <1>4, <2>1, ColorKept DEF GraphInd
  <2> QED BY <1>1, <2>1, <2>2, <2>3 DEF GraphInd, DepthFirst
<1>5. CASE TopoStep
  <2>1. search = "topo"
    BY <1>5 DEF TopoStep
  <2>2. GraphTyped' /\ TopoInv'
    BY <1>1, <1>5, <2>1, TopoKept DEF GraphInd
  <2> QED BY <1>1, <2>1, <2>2 DEF GraphInd, DepthFirst
<1> QED BY <1>2, <1>3, <1>4, <1>5 DEF GraphNext

\* Before its first step a search is under way, whichever it is.
LEMMA SourcesListed ==
  ASSUME NEW S, IsFiniteSet(S), NEW s \in SetToSeqs(S)
  PROVE  /\ s \in Seq(S) /\ Range(s) = S
         /\ \A i, j \in 1..Len(s) : i # j => s[i] # s[j]
<1> DEFINE n == Cardinality(S)
<1>1. n \in Nat
  BY FS_CardinalityType
<1>2. s \in [1..n -> S] /\ \A i, j \in 1..n : i # j => s[i] # s[j]
  BY DEF SetToSeqs
<1>3. s \in Injection(1..n, S)
  BY <1>2 DEF Injection, IsInjective
<1>4. Cardinality(1..n) = n
  BY <1>1, FS_Interval
<1>5. s \in Surjection(1..n, S)
  BY <1>3, <1>4, FS_Injection
<1> HIDE DEF n
<1>6. DOMAIN s = 1..n /\ s \in Seq(S) /\ Len(s) = n
  BY <1>1, <1>2
<1>7. Range(s) = S
  BY <1>2, <1>5, <1>6 DEF Range, Surjection
<1> QED BY <1>2, <1>6, <1>7

\* The invariant holds before the first.
LEMMA GraphInitInd == ASSUME GraphInit PROVE GraphInd
<1>1. /\ adj \in Graphs /\ stack = <<>> /\ listed = <<>> /\ passed = {} /\ refused = FALSE /\ told = {}
      /\ clock = 0 /\ group = 1
      /\ \A v \in Nodes : nth[v] = 0 /\ path[v] = 0 /\ disc[v] = 0 /\ fin[v] = 0 /\ cc[v] = 0
  BY DEF GraphInit
<1>2. /\ IsFiniteSet(Nodes) /\ Nodes \subseteq Nat \ {0}
      /\ \A u \in Nodes : Len(adj[u]) \in Nat /\ Children(u) \subseteq Nodes
  BY <1>1, GraphFacts
<1>3. \A u \in Nodes : Looked(u) = {}
  <2>1. 1..0 = {}
    OBVIOUS
  <2> QED BY <1>1, <2>1 DEF Looked
<1>4. \A v \in Nodes : IsFiniteSet(Parents(v)) /\ Cardinality(Parents(v)) \in Nat
  <2>1. \A v \in Nodes : Parents(v) \in SUBSET Nodes
    BY DEF Parents
  <2> QED BY <1>2, <2>1, FS_Subset, FS_CardinalityType
<1>5. cnt \in [Nodes -> Int] /\ \A v \in Nodes : cnt[v] = Cardinality(Parents(v))
  BY <1>4 DEF GraphInit
<1>6. color \in [Nodes -> Marks]
  BY DEF GraphInit, Marks
<1>7. /\ path \in [Nodes -> Nodes \union {0}] /\ dist \in [Nodes -> Int] /\ disc \in [Nodes -> Nat]
      /\ fin \in [Nodes -> Nat] /\ cc \in [Nodes -> Nat] /\ nth \in [Nodes -> Nat]
  BY DEF GraphInit, Infinity
<1>8. \A u \in Nodes : nth[u] <= Len(adj[u])
  BY <1>1, <1>2
<1>b. ASSUME search \in DepthFirst \union {"bfs", "wrestlers", "topo"}, start \in Nat, que \in Seq(Nodes)
      PROVE  GraphTyped
  <2>1. stack \in Seq(Nodes) /\ listed \in Seq(Nodes) /\ passed \subseteq Nodes
    BY <1>1
  <2>2. clock \in Nat /\ group \in Nat \ {0}
    BY <1>1
  <2>3. refused \in BOOLEAN /\ (refused => search \in {"dag", "uag", "wrestlers"})
    BY <1>1
  <2> QED BY <1>1, <1>b, <1>5, <1>6, <1>7, <1>8, <2>1, <2>2, <2>3 DEF GraphTyped
<1>9. CASE search \in DepthFirst /\ start = 0 /\ que = <<>>
  <2>1. \A v \in Nodes : color[v] = "white"
    <3>1. \A v \in Nodes : v # start
      BY <1>2, <1>9
    <3> QED BY <1>9, <3>1 DEF GraphInit, DepthFirst
  <2>2. GraphTyped
    BY <1>9, <1>b
  <2>3. StackInv
    BY <1>1, <2>1 DEF StackInv
  <2>4. MarkInv
    BY <1>1, <1>3, <2>1 DEF MarkInv
  <2>5. DagInv /\ UagInv
    <3>1. ~refused /\ stack = <<>> /\ \A v \in Nodes : path[v] = 0 /\ v # 0
      BY <1>1, <1>2
    <3> QED BY <1>1, <1>3, <2>1, <3>1 DEF DagInv, UagInv
  <2>6. CcInv
    BY <1>1, <1>3, <2>1 DEF CcInv
  <2>7. EdgesInv
    <3>1. \A e : Tells(e) = {}
      BY <1>1 DEF Tells
    <3>2. \A u \in Nodes : \A v \in Children(u) : path[v] # u
      BY <1>1, <1>2
    <3> QED BY <1>3, <2>1, <3>1, <3>2 DEF EdgesInv
  <2>8. DepthInv
    BY <1>9, <2>3, <2>4, <2>5, <2>6, <2>7 DEF DepthInv
  <2> QED BY <1>9, <2>2, <2>8 DEF GraphInd, DepthFirst
<1>10. CASE search \in {"bfs", "wrestlers"} /\ start \in Nodes /\ que = <<start>>
  <2>1. GraphTyped
    <3>1. que \in Seq(Nodes) /\ start \in Nat
      BY <1>2, <1>10
    <3> QED BY <1>10, <1>b, <3>1
  <2>2. Len(que) = 1 /\ que[1] = start /\ que # <<>> /\ (\A i \in 1..Len(que) : i = 1)
    BY <1>10
  <2>3. start \in Reach(Edges, start) /\ WalkTo(0, start)
    BY <1>10, ReachSelf, WalkStart
  <2>4. ASSUME search = "bfs" PROVE BreadthInv
    <3>1. \A v \in Nodes : color[v] = IF v = start THEN "gray" ELSE "white"
      BY <2>4 DEF GraphInit
    <3>2. \A v \in Nodes : dist[v] = IF v = start THEN 0 ELSE Infinity
      BY DEF GraphInit
    <3>3. dist[start] = 0 /\ color[start] = "gray" /\ path[start] = 0 /\ nth[start] = 0
      BY <1>1, <1>10, <3>1, <3>2
    <3>4. \A v \in Nodes : color[v] = "gray" <=> \E i \in 1..Len(que) : que[i] = v
      BY <2>2, <3>1
    <3>5. /\ \A i, j \in 1..Len(que) : i < j => que[i] # que[j] /\ dist[que[i]] <= dist[que[j]]
          /\ \A i \in 1..Len(que) : dist[que[i]] <= dist[que[1]] + 1 /\ (i > 1 => nth[que[i]] = 0)
      BY <2>2, <3>3
    <3>6. \A v \in Nodes : color[v] # "black"
      BY <3>1
    <3>7. Looked(que[1]) = {}
      BY <1>3, <1>10, <2>2
    <3>8. \A v \in Nodes : color[v] = "white" => dist[v] = Infinity /\ path[v] = 0 /\ nth[v] = 0
      BY <1>1, <3>1, <3>2
    <3>9. \A v \in Nodes : color[v] # "white" => v = start
      BY <3>1
    <3> QED BY <1>1, <1>10, <2>3, <3>3, <3>4, <3>5, <3>6, <3>7, <3>8, <3>9 DEF BreadthInv
  <2>5. ASSUME search = "wrestlers" PROVE ColorInv
    <3>1. \A v \in Nodes : color[v] = IF v = start THEN "white" ELSE "gray"
      BY <2>5 DEF GraphInit
    <3>2. color[start] = "white" /\ \A v \in Nodes : color[v] # "gray" => v = start
      BY <1>10, <3>1
    <3>3. \A i \in 1..Len(que) : que[i] = start
      BY <2>2
    <3>4. start \in passed \/ (que # <<>> /\ que[1] = start)
      BY <2>2
    <3>5. 1 \in 1..Len(que)
      BY <2>2
    <3> QED BY <1>1, <1>3, <1>10, <2>2, <2>3, <3>2, <3>3, <3>4, <3>5 DEF ColorInv
  <2> QED BY <1>10, <2>1, <2>4, <2>5 DEF GraphInd, DepthFirst
<1>11. CASE search = "topo" /\ start = 0 /\ que \in SetToSeqs({v \in Nodes : Parents(v) = {}})
  <2> DEFINE S == {v \in Nodes : Parents(v) = {}}
  <2>1. S \in SUBSET Nodes /\ IsFiniteSet(S)
    <3>1. S \in SUBSET Nodes
      OBVIOUS
    <3> QED BY <1>2, <3>1, FS_Subset
  <2>2. que \in Seq(S) /\ Range(que) = S /\ \A i, j \in 1..Len(que) : i # j => que[i] # que[j]
    BY <1>11, <2>1, SourcesListed
  <2>3. que \in Seq(Nodes)
    BY <2>1, <2>2
  <2>4. Range(listed) = {} /\ Len(listed) = 0 /\ listed \in Seq(Nodes) /\ 1..Len(listed) = {}
    <3>1. DOMAIN listed = {}
      BY <1>1
    <3> QED BY <1>1, <3>1 DEF Range
  <2>5. \A v \in Nodes : Pending(v) = Parents(v)
    BY <1>3, <2>4 DEF Pending, Parents
  <2>6. GraphTyped
    BY <1>11, <1>b, <2>3
  <2>7. \A v \in Nodes : Pending(v) = {} <=> v \in Range(que) \union Range(listed)
    BY <2>2, <2>4, <2>5
  <2>8. \A v \in Range(que) \union Range(listed) : v \notin Parents(v)
    BY <2>2, <2>4
  <2>9. \A v \in Nodes : cnt[v] = Cardinality(Pending(v))
    BY <1>5, <2>5
  <2> HIDE DEF S
  <2>10. TopoInv
    BY <1>1, <2>2, <2>4, <2>7, <2>8, <2>9 DEF TopoInv
  <2> QED BY <1>11, <2>6, <2>10 DEF GraphInd, DepthFirst
<1> QED BY <1>9, <1>10, <1>11 DEF GraphInit

\* Whatever the graph, and wherever in it a search starts: bfs.py finds shortest
\* paths, topo-sorting.py prints a vertex behind all its parents, pro-wrestlers.py
\* refuses exactly the rivalries that no two colors fit, find-simple-paths.py
\* exactly the graphs with a cycle and check-undirected-acyclic.py exactly those
\* with a second parent or with a child whose name comes first in its tree.
THEOREM AllExactHolds == GraphSpec => []AllExact
<1>1. GraphInit => GraphInd
  BY GraphInitInd
<1>2. GraphInd /\ [GraphNext]_graphVars => GraphInd'
  BY GraphNextKept, GraphStutters
<1>3. GraphInd => AllExact
  BY AllExactFromInd
<1> QED BY <1>1, <1>2, <1>3, PTL DEF GraphSpec
=============================================================================
