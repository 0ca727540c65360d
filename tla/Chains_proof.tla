---------------------------- MODULE Chains_proof ----------------------------
(***************************************************************************)
(* The two programs that build a chain of goroutines as they go: primes.go *)
(* where it sieves, and the split of power-series.go where it copies.      *)
(*                                                                         *)
(* What primes.go prints are the primes, for any limit: the numbers still  *)
(* in the chain are sieved by every prime printed before them, and nothing *)
(* leaves the chain but multiples of what has been printed.                *)
(*                                                                         *)
(* Each consumer of split receives the series in order, for every number   *)
(* of terms and every pace of the two.  A debt is followed through a chain *)
(* of goroutines of any length: every channel has one sender at most, the  *)
(* term that comes next on it, and the consumer whose chain it belongs to. *)
(***************************************************************************)
EXTENDS Sieve, Split, Integers, TLAPS, SequenceTheorems, FiniteSetTheorems

\* The remainder is zero exactly for multiples.
LEMMA Quotient ==
  ASSUME NEW v \in Nat, NEW d \in Nat \ {0}, v % d = 0
  PROVE  \E q \in Nat : v = d * q
<1>1. v = (d * (v \div d)) + (v % d)
  OBVIOUS
<1>2. v \div d \in Nat
  OBVIOUS
<1> QED BY <1>1, <1>2

LEMMA Multiple ==
  ASSUME NEW q \in Nat, NEW d \in Nat \ {0}
  PROVE  (d * q) % d = 0
OBVIOUS

\* A number that a multiple of p divides is a multiple of p itself.
LEMMA Divides ==
  ASSUME NEW v \in Nat, NEW d \in Nat \ {0}, NEW p \in Nat \ {0},
         v % d = 0, d % p = 0
  PROVE  v % p = 0
<1>1. PICK q \in Nat : v = d * q
  BY Quotient
<1>2. PICK r \in Nat : d = p * r
  BY Quotient
<1>3. v = p * (r * q) /\ r * q \in Nat
  BY <1>1, <1>2
<1> QED BY <1>3, Multiple
-----------------------------------------------------------------------------
LEMMA SieveInitInv == SieveInit => SieveInv
<1> SUFFICES ASSUME SieveInit PROVE SieveInv
  OBVIOUS
<1>1. i = 2 /\ primes = <<>> /\ held = <<>> /\ DOMAIN primes = {} /\ DOMAIN held = {}
  BY DEF SieveInit
<1>2. SieveTypeOK
  BY <1>1, LimitAssumption DEF SieveTypeOK
<1>3. Sieved /\ InOrder
  BY <1>1 DEF Sieved, InOrder
<1>4. NothingSkipped
  BY <1>1 DEF NothingSkipped
<1> QED BY <1>2, <1>3, <1>4 DEF SieveInv

\* What a stage offers is a number of the range, smaller than what the
\* stages before it hold and larger than what is printed.
LEMMA Offered ==
  ASSUME SieveInv, NEW k \in Stage, Offering(k) # 0
  PROVE  /\ Offering(k) \in 2..Limit
         /\ k # 0 => k \in DOMAIN held /\ held[k] = Offering(k) /\ Offering(k) < i
         /\ k = 0 => Offering(k) = i
         /\ \A j \in 1..k : Offering(k) % primes[j] # 0 \/ k = 0
         /\ \A j \in 1..(k - 1) : held[j] # 0 => Offering(k) < held[j]
         /\ \A j \in DOMAIN primes : primes[j] < Offering(k)
BY LimitAssumption DEF SieveInv, SieveTypeOK, Sieved, InOrder, Stage, Offering

\* An element of a sequence, and its place when one is appended.
LEMMA AppendAt ==
  ASSUME NEW S, NEW s \in Seq(S), NEW e \in S
  PROVE  /\ Append(s, e) \in Seq(S)
         /\ Len(Append(s, e)) = Len(s) + 1
         /\ DOMAIN Append(s, e) = 1..(Len(s) + 1)
         /\ \A j \in 1..Len(s) : Append(s, e)[j] = s[j]
         /\ Append(s, e)[Len(s) + 1] = e
OBVIOUS

LEMMA SequenceOf ==
  ASSUME NEW S, NEW n \in Nat, NEW f \in [1..n -> S]
  PROVE  f \in Seq(S) /\ Len(f) = n
OBVIOUS

LEMMA ElementOf ==
  ASSUME NEW S, NEW s \in Seq(S)
  PROVE  \A j \in DOMAIN s : s[j] \in S
OBVIOUS

LEMMA PassInv == ASSUME SieveInv, NEW k \in Stage, Pass(k) PROVE SieveInv'
<1> DEFINE v == Offering(k)
<1>1. /\ k \in 0..(Len(primes) - 1) /\ k + 1 \in DOMAIN held /\ held[k + 1] = 0
      /\ k + 1 \in DOMAIN primes /\ DOMAIN held = DOMAIN primes
      /\ DOMAIN held = 1..Len(held) /\ Len(held) \in Nat
  BY DEF Pass, Stage, SieveInv, SieveTypeOK
<1>2. v # 0 /\ v \in 2..Limit /\ (k # 0 => held[k] = v) /\ (k = 0 => v = i)
  BY Offered DEF Pass
<1>3. /\ held' = [j \in DOMAIN held |-> IF j = k + 1 THEN Screen(j, v)
                                        ELSE IF j = k THEN 0 ELSE held[j]]
      /\ DOMAIN held' = DOMAIN held /\ Len(held') = Len(held)
      /\ held' \in Seq({0} \union 2..Limit)
  <2>1. held' = [j \in 1..Len(held) |-> IF j = k + 1 THEN Screen(j, v)
                                        ELSE IF j = k THEN 0 ELSE held[j]]
    BY <1>1 DEF Pass
  <2>2. \A j \in DOMAIN held : held[j] \in {0} \union 2..Limit
    BY DEF SieveInv, SieveTypeOK
  <2>3. Screen(k + 1, v) \in {0, v}
    BY DEF Screen
  <2>4. \A j \in 1..Len(held) : held'[j] \in {0} \union 2..Limit
    BY <2>1, <2>2, <2>3, <1>1, <1>2
  <2> HIDE DEF v
  <2> QED BY <2>1, <2>4, <1>1
<1>4. primes' = primes /\ i' = (IF k = 0 THEN i + 1 ELSE i)
  BY DEF Pass, TakenFrom
<1>5. /\ \A j \in DOMAIN held : held'[j] # 0 => \/ j = k + 1 /\ held'[j] = v /\ v % primes[j] # 0
                                                \/ j # k + 1 /\ j # k /\ held'[j] = held[j]
      /\ \A j \in DOMAIN held : j # k + 1 /\ j # k => held'[j] = held[j]
      /\ v % primes[k + 1] # 0 => held'[k + 1] = v
  BY <1>1, <1>3 DEF Screen
<1> HIDE DEF v
<1>6. SieveTypeOK'
  <2>1. i \in 2..(Limit + 1) /\ (k = 0 => i <= Limit) /\ primes \in Seq(2..Limit) /\ Len(held) = Len(primes)
    BY <1>2 DEF SieveInv, SieveTypeOK
  <2>2. i' \in 2..(Limit + 1)
    BY <2>1, <1>4, LimitAssumption
  <2>3. primes' \in Seq(2..Limit) /\ Len(held') = Len(primes')
    BY <2>1, <1>3, <1>4
  <2> QED BY <2>2, <2>3, <1>3 DEF SieveTypeOK
<1>7. Sieved'
  <2>1. \A j \in 1..k : v % primes[j] # 0
    BY Offered, <1>1 DEF v, Pass
  <2>2. \A j \in DOMAIN held : held[j] # 0 => \A l \in 1..j : held[j] % primes[l] # 0
    BY DEF SieveInv, Sieved
  <2>3. ASSUME NEW j \in DOMAIN held, held'[j] # 0, NEW l \in 1..j PROVE held'[j] % primes[l] # 0
    <3>1. CASE j = k + 1
      BY <3>1, <2>1, <2>3, <1>5, <1>1
    <3>2. CASE j # k + 1
      BY <3>2, <2>2, <2>3, <1>5, <1>1
    <3> QED BY <3>1, <3>2
  <2> QED BY <2>3, <1>3, <1>4 DEF Sieved
<1>8. InOrder'
  <2>1. /\ \A j \in 1..(k - 1) : held[j] # 0 => v < held[j]
        /\ \A j \in DOMAIN primes : primes[j] < v
        /\ v <= i /\ (k # 0 => v < i)
    BY Offered, <1>2 DEF v, Pass, SieveInv, SieveTypeOK
  <2>2. /\ \A j \in DOMAIN held : held[j] # 0 =>
              /\ held[j] < i
              /\ \A l \in 1..(j - 1) : held[l] # 0 => held[j] < held[l]
              /\ \A l \in DOMAIN primes : primes[l] < held[j]
        /\ \A j, l \in DOMAIN primes : j < l => primes[j] < primes[l]
        /\ \A j \in DOMAIN primes : primes[j] < i
    BY DEF SieveInv, InOrder
  <2>0. /\ i \in Nat
        /\ \A j \in DOMAIN held : held[j] \in Nat
        /\ \A j \in DOMAIN primes : primes[j] \in Nat
    <3>1. i \in 2..(Limit + 1) /\ primes \in Seq(2..Limit) /\ held \in Seq({0} \union 2..Limit)
      BY DEF SieveInv, SieveTypeOK
    <3>2. \A j \in DOMAIN held : held[j] \in {0} \union 2..Limit
      BY <3>1
    <3>3. \A j \in DOMAIN primes : primes[j] \in 2..Limit
      BY <3>1, ElementOf
    <3> QED BY <3>1, <3>2, <3>3, LimitAssumption
  <2>3. ASSUME NEW j \in DOMAIN held, held'[j] # 0
        PROVE  /\ held'[j] < i'
               /\ \A l \in 1..(j - 1) : held'[l] # 0 => held'[j] < held'[l]
               /\ \A l \in DOMAIN primes : primes[l] < held'[j]
    <3>1. CASE j = k + 1
      <4>1. held'[j] = v /\ v < i'
        BY <3>1, <2>0, <2>1, <2>3, <1>1, <1>2, <1>4, <1>5
      <4>2. ASSUME NEW l \in 1..(j - 1), held'[l] # 0 PROVE v < held'[l]
        <5>1. l # k /\ l \in 1..(k - 1) /\ held'[l] = held[l]
          BY <3>1, <4>2, <1>1, <1>5
        <5> QED BY <5>1, <4>2, <2>1
      <4> QED BY <4>1, <4>2, <2>1
    <3>2. CASE j # k + 1
      <4>1. held'[j] = held[j] /\ held[j] # 0 /\ j # k
        BY <3>2, <2>3, <1>5
      <4>2. ASSUME NEW l \in 1..(j - 1), held'[l] # 0 PROVE held'[j] < held'[l]
        <5>1. CASE l = k + 1
          <6>1. held'[l] = v
            BY <5>1, <4>2, <1>5, <1>1
          <6>2. k # 0 => held[j] < held[k]
            BY <2>2, <4>1, <5>1, <1>1, <1>2
          <6> QED BY <6>1, <6>2, <4>1, <2>2, <2>0, <1>2
        <5>2. CASE l # k + 1
          BY <5>2, <4>1, <4>2, <2>2, <1>1, <1>5
        <5> QED BY <5>1, <5>2
      <4> QED BY <4>1, <4>2, <2>0, <2>2, <1>4
    <3> QED BY <3>1, <3>2
  <2>4. \A j \in DOMAIN primes : primes[j] < i'
    BY <2>0, <2>2, <1>4
  <2> QED BY <2>2, <2>3, <2>4, <1>3, <1>4 DEF InOrder
<1>9. NothingSkipped'
  <2>1. ASSUME NEW u \in 2..(i' - 1)
        PROVE  \/ \E j \in DOMAIN primes : primes[j] = u \/ u % primes[j] = 0
               \/ \E j \in DOMAIN held : held'[j] = u
    <3>1. CASE u = v
      BY <3>1, <1>1, <1>5
    <3>2. CASE u # v
      <4>1. u \in 2..(i - 1)
        BY <3>2, <1>2, <1>4 DEF SieveInv, SieveTypeOK
      <4>2. CASE \E j \in DOMAIN held : held[j] = u
        BY <4>1, <4>2, <3>2, <1>1, <1>2, <1>5
      <4>3. CASE \E j \in DOMAIN primes : primes[j] = u \/ u % primes[j] = 0
        BY <4>3
      <4> QED BY <4>1, <4>2, <4>3 DEF SieveInv, NothingSkipped
    <3> QED BY <3>1, <3>2
  <2> QED BY <2>1, <1>3, <1>4 DEF NothingSkipped
<1> QED BY <1>6, <1>7, <1>8, <1>9 DEF SieveInv

LEMMA PrintInv == ASSUME SieveInv, MainReceives PROVE SieveInv'
<1> DEFINE k == Len(primes)
           v == Offering(k)
<1>1. /\ k \in Nat /\ k \in Stage /\ DOMAIN primes = 1..k /\ DOMAIN held = 1..k
      /\ Len(held) = k /\ v # 0
      /\ primes \in Seq(2..Limit) /\ held \in Seq({0} \union 2..Limit)
  BY DEF SieveInv, SieveTypeOK, Stage, MainReceives
<1>2. /\ v \in 2..Limit /\ (k # 0 => held[k] = v /\ v < i) /\ (k = 0 => v = i)
      /\ \A j \in 1..k : v % primes[j] # 0
      /\ \A j \in 1..(k - 1) : held[j] # 0 => v < held[j]
      /\ \A j \in DOMAIN primes : primes[j] < v
  BY Offered, <1>1
<1>3. i' = IF k = 0 THEN i + 1 ELSE i
  BY DEF MainReceives, TakenFrom
<1>4. /\ primes' \in Seq(2..Limit) /\ Len(primes') = k + 1 /\ DOMAIN primes' = 1..(k + 1)
      /\ \A j \in 1..k : primes'[j] = primes[j]
      /\ primes'[k + 1] = v
  <2>1. primes' = Append(primes, v)
    BY DEF MainReceives
  <2> QED BY <2>1, <1>1, <1>2, AppendAt
<1>5. /\ held' \in Seq({0} \union 2..Limit) /\ Len(held') = k + 1 /\ DOMAIN held' = 1..(k + 1)
      /\ \A j \in 1..(k - 1) : held'[j] = held[j]
      /\ held'[k + 1] = 0
      /\ k # 0 => held'[k] = 0
  <2> DEFINE h == [j \in 1..k |-> IF j = k THEN 0 ELSE held[j]]
  <2>1. held' = Append(h, 0)
    BY <1>1 DEF MainReceives
  <2> HIDE DEF k, v
  <2>2. \A j \in 1..k : held[j] \in {0} \union 2..Limit
    BY <1>1, ElementOf
  <2>3. h \in Seq({0} \union 2..Limit) /\ Len(h) = k
    <3>1. h \in [1..k -> {0} \union 2..Limit]
      BY <2>2
    <3> HIDE DEF h
    <3> QED BY <1>1, <3>1, SequenceOf
  <2>4. /\ held' \in Seq({0} \union 2..Limit) /\ Len(held') = k + 1
        /\ DOMAIN held' = 1..(k + 1)
        /\ \A j \in 1..k : held'[j] = h[j]
        /\ held'[k + 1] = 0
    <3> HIDE DEF h
    <3> QED BY <2>1, <2>3, AppendAt
  <2> QED BY <2>4, <1>1
<1> HIDE DEF k, v
<1>6. /\ \A j \in 1..k : primes[j] \in 2..Limit
      /\ \A j \in 1..k : held[j] \in {0} \union 2..Limit
      /\ i \in 2..(Limit + 1) /\ Limit \in Nat \ {0}
  BY <1>1, ElementOf, LimitAssumption DEF SieveInv, SieveTypeOK
<1>7. \A j \in DOMAIN held' : held'[j] # 0 => j \in 1..(k - 1) /\ held'[j] = held[j]
  BY <1>1, <1>5
<1>8. SieveTypeOK'
  <2>1. i' \in 2..(Limit + 1)
    BY <1>2, <1>3, <1>6, <1>1
  <2> QED BY <2>1, <1>4, <1>5 DEF SieveTypeOK
<1>9. Sieved'
  <2>1. \A j \in 1..k : held[j] # 0 => \A l \in 1..j : held[j] % primes[l] # 0
    BY <1>1 DEF SieveInv, Sieved
  <2> QED BY <2>1, <1>1, <1>4, <1>7 DEF Sieved
<1>10. InOrder'
  <2>1. /\ \A j \in 1..k : held[j] # 0 =>
              /\ held[j] < i
              /\ \A l \in 1..(j - 1) : held[l] # 0 => held[j] < held[l]
              /\ \A l \in 1..k : primes[l] < held[j]
        /\ \A j, l \in 1..k : j < l => primes[j] < primes[l]
        /\ \A j \in 1..k : primes[j] < i
    BY <1>1 DEF SieveInv, InOrder
  <2>2. ASSUME NEW j \in DOMAIN held', held'[j] # 0
        PROVE  /\ held'[j] < i'
               /\ \A l \in 1..(j - 1) : held'[l] # 0 => held'[j] < held'[l]
               /\ \A l \in DOMAIN primes' : primes'[l] < held'[j]
    <3>1. j \in 1..(k - 1) /\ held'[j] = held[j] /\ held[j] # 0 /\ v < held[j] /\ k # 0
      BY <2>2, <1>1, <1>2, <1>7
    <3>2. \A l \in 1..(j - 1) : held'[l] = held[l]
      BY <3>1, <1>1, <1>5
    <3>3. \A l \in DOMAIN primes' : primes'[l] < held'[j]
      BY <3>1, <2>1, <1>1, <1>4
    <3> QED BY <3>1, <3>2, <3>3, <2>1, <1>1, <1>3
  <2>3. \A j, l \in DOMAIN primes' : j < l => primes'[j] < primes'[l]
    BY <2>1, <1>1, <1>2, <1>4
  <2>4. \A j \in DOMAIN primes' : primes'[j] < i'
    BY <2>1, <1>1, <1>2, <1>3, <1>4, <1>6
  <2> QED BY <2>2, <2>3, <2>4 DEF InOrder
<1>11. NothingSkipped'
  <2>1. ASSUME NEW u \in 2..(i' - 1)
        PROVE  \/ \E j \in DOMAIN primes' : primes'[j] = u \/ u % primes'[j] = 0
               \/ \E j \in DOMAIN held' : held'[j] = u
    <3>1. CASE u = v
      BY <3>1, <1>1, <1>4
    <3>2. CASE u # v
      <4>1. u \in 2..(i - 1)
        BY <3>2, <1>2, <1>3, <1>6, <1>1
      <4>2. CASE \E j \in 1..k : held[j] = u
        BY <4>1, <4>2, <3>2, <1>1, <1>2, <1>5
      <4>3. CASE \E j \in 1..k : primes[j] = u \/ u % primes[j] = 0
        BY <4>3, <1>1, <1>4
      <4> QED BY <4>1, <4>2, <4>3, <1>1 DEF SieveInv, NothingSkipped
    <3> QED BY <3>1, <3>2
  <2> QED BY <2>1 DEF NothingSkipped
<1> QED BY <1>8, <1>9, <1>10, <1>11 DEF SieveInv
-----------------------------------------------------------------------------
\* At every moment the numbers in the chain are sieved by all primes before
\* them and in order, and only multiples of what is printed are gone.
THEOREM SieveInvHolds == SieveSpec => []SieveInv
<1>1. ASSUME SieveInv, [SieveNext]_sieveVars PROVE SieveInv'
  <2>1. CASE MainReceives
    BY <1>1, <2>1, PrintInv
  <2>2. ASSUME NEW k \in Stage, Pass(k) PROVE SieveInv'
    BY <1>1, <2>2, PassInv
  <2>3. CASE UNCHANGED sieveVars
    BY <1>1, <2>3 DEF sieveVars, SieveInv, SieveTypeOK, Sieved, InOrder, NothingSkipped
  <2> QED BY <1>1, <2>1, <2>2, <2>3 DEF SieveNext
<1> QED BY <1>1, SieveInitInv, PTL DEF SieveSpec

\* primes.go prints primes, in increasing order, and leaves none out: a
\* composite number would have a factor that is printed, still held or a
\* multiple of a printed prime, and each of these is impossible.
THEOREM OnlyAndAllPrimes == SieveSpec => []PrintsPrimes
<1>1. SieveInv /\ PrintsPrimes /\ [SieveNext]_sieveVars => PrintsPrimes'
  <2> SUFFICES ASSUME SieveInv, PrintsPrimes, [SieveNext]_sieveVars, primes' # primes
               PROVE  PrintsPrimes'
    BY DEF PrintsPrimes, IsPrime
  <2> DEFINE k == Len(primes)
             v == Offering(k)
  <2>1. MainReceives
    BY DEF SieveNext, Pass, sieveVars
  <2>2. SieveInv'
    BY <2>1, PrintInv
  <2>3. k \in Nat /\ k \in Stage /\ DOMAIN primes = 1..k /\ v # 0 /\ primes \in Seq(2..Limit)
        /\ DOMAIN held = 1..k
    BY <2>1 DEF SieveInv, SieveTypeOK, Stage, MainReceives
  <2>4. /\ v \in 2..Limit /\ (k # 0 => held[k] = v /\ v < i) /\ (k = 0 => v = i)
        /\ \A j \in 1..k : v % primes[j] # 0
        /\ \A j \in 1..(k - 1) : held[j] # 0 => v < held[j]
        /\ \A j \in DOMAIN primes : primes[j] < v
    BY Offered, <2>3
  <2>5. /\ DOMAIN primes' = 1..(k + 1)
        /\ \A j \in 1..k : primes'[j] = primes[j]
        /\ primes'[k + 1] = v
    <3>1. primes' = Append(primes, v) /\ Len(primes) = k
      BY <2>1 DEF MainReceives
    <3> HIDE DEF k, v
    <3> QED BY <3>1, <2>3, <2>4, AppendAt
  <2> HIDE DEF k, v
  <2>6. \A j \in 1..k : primes[j] \in 2..Limit
    BY <2>3, ElementOf
  <2>7. ASSUME NEW d \in 2..(v - 1) PROVE v % d # 0
    <3>1. d \in 2..(i - 1) /\ d \in Nat \ {0} /\ v \in Nat
      BY <2>3, <2>4 DEF SieveInv, SieveTypeOK
    <3>2. CASE \E j \in 1..k : primes[j] = d
      BY <3>2, <2>4
    <3>3. CASE \E j \in 1..k : d % primes[j] = 0
      <4>1. PICK j \in 1..k : d % primes[j] = 0
        BY <3>3
      <4>2. primes[j] \in Nat \ {0} /\ v % primes[j] # 0
        BY <2>4, <2>6
      <4> QED BY <3>1, <4>1, <4>2, Divides
    <3>4. CASE \E j \in 1..k : held[j] = d
      <4>1. PICK j \in 1..k : held[j] = d
        BY <3>4
      <4> QED BY <4>1, <2>3, <2>4
    <3> QED BY <3>1, <3>2, <3>3, <3>4, <2>3 DEF SieveInv, NothingSkipped
  <2>8. IsPrime(v)
    BY <2>4, <2>7 DEF IsPrime
  <2>9. \A j \in DOMAIN primes' : IsPrime(primes'[j])
    BY <2>3, <2>5, <2>8 DEF PrintsPrimes
  <2>10. \A j, l \in DOMAIN primes' : j < l => primes'[j] < primes'[l]
    BY <2>2 DEF SieveInv, InOrder
  <2>11. ASSUME NEW p \in 2..v, IsPrime(p)
         PROVE  \E j \in DOMAIN primes' : primes'[j] = p
    <3>1. CASE p = v
      BY <3>1, <2>3, <2>5
    <3>2. CASE p # v
      <4>1. p \in 2..(i - 1) /\ p < v
        BY <3>2, <2>3, <2>4 DEF SieveInv, SieveTypeOK
      <4>2. ~ \E j \in 1..k : held[j] = p
        BY <4>1, <2>3, <2>4
      <4>3. PICK j \in 1..k : primes[j] = p \/ p % primes[j] = 0
        BY <4>1, <4>2, <2>3 DEF SieveInv, NothingSkipped
      <4>4. primes[j] = p
        <5>1. primes[j] \in 2..p
          BY <4>3, <4>1, <2>6
        <5> QED BY <5>1, <4>3, <2>11 DEF IsPrime
      <4> QED BY <4>4, <2>3, <2>5
    <3> QED BY <3>1, <3>2
  <2>12. ASSUME NEW l \in DOMAIN primes', NEW p \in 2..primes'[l], IsPrime(p)
         PROVE  \E j \in DOMAIN primes' : primes'[j] = p
    <3>1. CASE l = k + 1
      BY <3>1, <2>5, <2>11, <2>12
    <3>2. CASE l \in 1..k
      <4>1. p \in 2..primes[l]
        BY <3>2, <2>5, <2>12
      <4> QED BY <3>2, <4>1, <2>3, <2>5, <2>12 DEF PrintsPrimes
    <3> QED BY <3>1, <3>2, <2>3, <2>5
  <2> QED BY <2>9, <2>10, <2>12 DEF PrintsPrimes
<1>2. SieveInit => PrintsPrimes
  <2>1. ASSUME SieveInit PROVE DOMAIN primes = {}
    BY <2>1 DEF SieveInit
  <2> QED BY <2>1 DEF PrintsPrimes
<1> QED BY <1>1, <1>2, SieveInvHolds, PTL DEF SieveSpec
-----------------------------------------------------------------------------
(* split                                                                   *)

\* The names of channels, those still to be made included.
Name == Consumer \union Nat

\* The doSplit that still reads F.
Active(p) == proc[p].pc \in {"take", "select"}

\* e is the term each channel carries next, s the consumer it leads to.
ActiveFeeds(e, s) == \A p \in Proc : Active(p) =>
  /\ p = Len(proc) /\ s[proc[p].left] # s[proc[p].right]
  /\ e[proc[p].left] = e[proc[p].right]
  /\ proc[p].pc = "take" => e[proc[p].left] = term /\ proc[p].val = 0
  /\ proc[p].pc = "select" => /\ e[proc[p].left] = proc[p].val
                              /\ proc[p].val = term - 1 /\ proc[p].val # 0

\* There always is one, and one goroutine for each term it has taken before.
Leader == /\ Len(proc) # 0 /\ Active(Len(proc))
          /\ term = IF proc[Len(proc)].pc = "take" THEN Len(proc) ELSE Len(proc) + 1

CopyFeeds(e, s) == \A p \in Proc : ~Active(p) =>
  /\ s[p] = s[proc[p].right]
  /\ proc[p].val # 0 => e[proc[p].right] = proc[p].val /\ e[p] = proc[p].val + 1
  /\ proc[p].val = 0 => proc[p].pc = "copy" /\ e[p] = e[proc[p].right]

\* The H of a goroutine is used only once it is in owed or copy.
Used == \A p, q \in Proc : q \in Ends(p) => ~Active(q)

ConsumerFeeds(e, s) == \A c \in Consumer :
  /\ s[c] = c /\ e[c] = Len(got[c]) + 1
  /\ got[c] = [j \in 1..Len(got[c]) |-> j]

\* A term a consumer has yet to receive is on the chain that leads to it.
OnTheWay(e, s) == \A c \in Consumer : \A t \in e[c]..(term - 1) :
  \E p \in Proc : proc[p].val = t /\ (Active(p) \/ s[proc[p].right] = c)

Feeds(e, s) == /\ ActiveFeeds(e, s) /\ CopyFeeds(e, s)
               /\ ConsumerFeeds(e, s) /\ OnTheWay(e, s)

\* The inductive invariant.
Chains == /\ TypeOK /\ OneSender /\ Used /\ Leader
          /\ \E e \in [Name -> Nat], s \in [Name -> Consumer] : Feeds(e, s)

\* Facts about the names of channels.
LEMMA Names ==
  /\ F0 \in Name /\ F1 \in Name /\ F0 # F1 /\ F0 \notin Nat /\ F1 \notin Nat
  /\ Consumer = {F0, F1}
BY DEF Name, Consumer, F0, F1

\* What the type invariant says of each goroutine.
LEMMA Goroutine ==
  ASSUME TypeOK
  PROVE  /\ Len(proc) \in Nat /\ Proc = 1..Len(proc)
         /\ \A p \in Proc : /\ proc[p] \in State
                            /\ proc[p].left \in Channel /\ proc[p].right \in Channel
         /\ Channel \subseteq Name
         /\ term \in Nat \ {0} /\ term <= Terms + 1
<1>1. proc \in Seq(State) /\ term \in 1..(Terms + 1)
  BY DEF TypeOK
<1>2. Len(proc) \in Nat /\ Proc = 1..Len(proc) /\ \A p \in Proc : proc[p] \in State
  BY <1>1 DEF Proc
<1> QED
  BY <1>1, <1>2, TermsAssumption DEF TypeOK, Channel, Name

\* The program starts in the invariant.
LEMMA InitChains == Init => Chains
<1> SUFFICES ASSUME Init PROVE Chains
  OBVIOUS
<1> USE TermsAssumption, Names
<1>1. /\ Len(proc) = 1 /\ Proc = {1} /\ proc[1] = DoSplit(F0, F1)
      /\ proc \in Seq(State)
  BY DEF Init, Proc, DoSplit, State
<1>2. /\ proc[1].pc = "take" /\ proc[1].val = 0
      /\ proc[1].left = F0 /\ proc[1].right = F1
  BY <1>1 DEF DoSplit
<1>3. TypeOK
  <2>1. got \in [Consumer -> Seq(1..Terms)] /\ term \in 1..(Terms + 1)
    BY DEF Init
  <2> QED
    BY <1>1, <1>2, <2>1 DEF TypeOK, Channel
<1>4. OneSender /\ Used /\ Leader
  <2>1. Leader
    BY <1>1, <1>2 DEF Leader, Active, Init
  <2> QED
    BY <1>1, <1>2, <2>1 DEF OneSender, Used, Ends, Active
<1>5. PICK e \in [Name -> Nat] : e = [c \in Name |-> 1]
  OBVIOUS
<1>6. PICK s \in [Name -> Consumer] : s = [c \in Name |-> IF c = F0 THEN F0 ELSE F1]
  OBVIOUS
<1>7. ActiveFeeds(e, s) /\ CopyFeeds(e, s) /\ OnTheWay(e, s)
  <2>1. term = 1 /\ e[F0] = 1 /\ e[F1] = 1 /\ s[F0] = F0 /\ s[F1] = F1
    BY <1>5, <1>6 DEF Init
  <2> QED
    BY <1>1, <1>2, <2>1 DEF ActiveFeeds, CopyFeeds, OnTheWay, Active
<1>8. ConsumerFeeds(e, s)
  <2>1. ASSUME NEW c \in Consumer PROVE got[c] = <<>> /\ e[c] = 1 /\ s[c] = c
    BY <1>5, <1>6 DEF Init
  <2> QED
    BY <2>1 DEF ConsumerFeeds
<1> QED
  BY <1>3, <1>4, <1>7, <1>8 DEF Chains, Feeds

\* Taking a term from F keeps the invariant: the term is the one both
\* channels of the doSplit expect.
LEMMA TakeChains ==
  ASSUME Chains, NEW p \in Proc, Take(p)
  PROVE  Chains'
<1> USE TermsAssumption
<1>1. PICK e \in [Name -> Nat], s \in [Name -> Consumer] : Feeds(e, s)
  BY DEF Chains
<1>t. TypeOK /\ OneSender /\ Used
  BY DEF Chains
<1>g. /\ Len(proc) \in Nat /\ Proc = 1..Len(proc) /\ Channel \subseteq Name
      /\ term \in Nat \ {0}
      /\ \A q \in Proc : /\ proc[q] \in State
                         /\ proc[q].left \in Channel /\ proc[q].right \in Channel
  BY <1>t, Goroutine
<1>2. /\ Len(proc') = Len(proc) /\ Proc' = Proc
      /\ \A q \in Proc : q # p => proc'[q] = proc[q]
      /\ proc'[p].pc = "select" /\ proc'[p].val = term
      /\ proc'[p].left = proc[p].left /\ proc'[p].right = proc[p].right
      /\ proc' \in Seq(State)
  <2>1. [proc[p] EXCEPT !.pc = "select", !.val = term] \in State
    <3>1. term \in 0..Terms /\ proc[p] \in State
      BY <1>g DEF Take
    <3> QED
      BY <3>1 DEF State
  <2>2. proc' = [proc EXCEPT ![p] = [proc[p] EXCEPT !.pc = "select", !.val = term]]
    BY DEF Take
  <2>3. proc' \in Seq(State) /\ Len(proc') = Len(proc)
    <3>1. proc \in Seq(State)
      BY <1>t DEF TypeOK
    <3> QED
      BY <1>g, <2>1, <2>2, <3>1
  <2>4. Proc' = Proc
    BY <2>3, <1>g, Goroutine DEF Proc
  <2>5. \A q \in Proc : proc'[q] = IF q = p THEN [proc[p] EXCEPT !.pc = "select", !.val = term]
                                   ELSE proc[q]
    BY <2>2, <1>g DEF Proc
  <2>6. /\ proc'[p].pc = "select" /\ proc'[p].val = term
        /\ proc'[p].left = proc[p].left /\ proc'[p].right = proc[p].right
    BY <2>5, <1>g DEF State
  <2> QED
    BY <2>3, <2>4, <2>5, <2>6
<1>3. proc[p].pc = "take" /\ term' = term + 1 /\ term <= Terms /\ got' = got
  BY DEF Take
<1>4. TypeOK'
  <2>1. term' \in 1..(Terms + 1)
    BY <1>3, <1>g
  <2> QED
    <3>1. \A q \in Proc : proc'[q].left = proc[q].left /\ proc'[q].right = proc[q].right
      BY <1>2, <1>3
    <3>2. Channel' = Channel /\ got' \in [Consumer -> Seq(1..Terms)]
      BY <1>2, <1>3, <1>t DEF Channel, TypeOK
    <3> QED
      BY <1>2, <1>g, <2>1, <3>1, <3>2 DEF TypeOK
<1>5. OneSender' /\ Used'
  <2>1. \A q \in Proc : (Ends(q))' = Ends(q) /\ (Active(q))' = Active(q)
    <3>1. (Ends(p))' = Ends(p) /\ (Active(p))' = Active(p)
      BY <1>2, <1>3 DEF Ends, Active
    <3>2. \A q \in Proc : q # p => (Ends(q))' = Ends(q) /\ (Active(q))' = Active(q)
      BY <1>2 DEF Ends, Active
    <3> QED
      BY <3>1, <3>2
  <2> QED
    BY <1>2, <1>t, <2>1 DEF OneSender, Used
<1>6. ActiveFeeds(e, s)' /\ CopyFeeds(e, s)'
  <2>1. p = Len(proc) /\ \A q \in Proc : q # p => ~Active(q)
    BY <1>1, <1>3 DEF Feeds, ActiveFeeds, Active
  <2>2. \A q \in Proc : q # p => (~Active(q))'
    BY <1>2, <2>1 DEF Active
  <2>3. ActiveFeeds(e, s)'
    <3>1. /\ s[proc[p].left] # s[proc[p].right] /\ e[proc[p].left] = e[proc[p].right]
          /\ e[proc[p].left] = term
      BY <1>1, <1>3 DEF Feeds, ActiveFeeds, Active
    <3> QED
      <4>1. ASSUME NEW q \in Proc', (Active(q))' PROVE q = p
        BY <1>2, <2>2, <4>1
      <4>2. proc'[p].val = term' - 1 /\ proc'[p].val # 0
        BY <1>2, <1>3, <1>g
      <4> QED
        BY <1>2, <2>1, <3>1, <4>1, <4>2 DEF ActiveFeeds
  <2>4. CopyFeeds(e, s)'
    <3>1. ASSUME NEW q \in Proc, ~(Active(q))' PROVE q # p /\ ~Active(q) /\ proc'[q] = proc[q]
      BY <1>2, <1>3, <2>1, <3>1 DEF Active
    <3> QED
      BY <1>1, <1>2, <3>1 DEF Feeds, CopyFeeds
  <2> QED
    BY <2>3, <2>4
<1>7. ConsumerFeeds(e, s)'
  BY <1>1, <1>3 DEF Feeds, ConsumerFeeds
<1>l. Leader'
  <2>1. p = Len(proc) /\ Leader
    BY <1>1, <1>3 DEF Chains, Feeds, ActiveFeeds, Active
  <2> QED
    BY <1>2, <1>3, <1>g, <2>1 DEF Leader, Active
<1>8. OnTheWay(e, s)'
  <2> SUFFICES ASSUME NEW c \in Consumer, NEW t \in e[c]..term
               PROVE  \E q \in Proc : proc'[q].val = t /\ ((Active(q))' \/ s[proc'[q].right] = c)
    BY <1>2, <1>3, <1>g DEF OnTheWay
  <2>1. CASE t = term
    BY <2>1, <1>2 DEF Active
  <2>2. CASE t # term
    <3>1. e[c] \in Nat /\ t \in Nat /\ t # 0
      <4>1. e[c] = Len(got[c]) + 1 /\ Len(got[c]) \in Nat
        BY <1>1, <1>t DEF Feeds, ConsumerFeeds, TypeOK
      <4> QED
        BY <4>1
    <3>2. t \in e[c]..(term - 1)
      BY <2>2, <1>g, <3>1
    <3>3. PICK q \in Proc : proc[q].val = t /\ (Active(q) \/ s[proc[q].right] = c)
      BY <1>1, <3>2 DEF Feeds, OnTheWay
    <3>4. q # p
      BY <1>1, <1>3, <3>1, <3>3 DEF Feeds, ActiveFeeds, Active
    <3> QED
      BY <1>2, <3>3, <3>4 DEF Active
  <2> QED
    BY <2>1, <2>2
<1> QED
  BY <1>4, <1>5, <1>6, <1>7, <1>8, <1>l DEF Chains, Feeds

\* The channel of a select that p does not send on: the one it will owe.
Other(p, c) == IF c = proc[p].left THEN proc[p].right ELSE proc[p].left

\* What a send of p on c makes of the goroutines, before the receiver.
LEMMA AfterSendFacts ==
  ASSUME TypeOK, NEW p \in Proc, NEW c \in Offers(p)
  PROVE  /\ AfterSend(p, c) \in Seq(State)
         /\ \A r \in Proc : r # p => AfterSend(p, c)[r] = proc[r]
         /\ proc[p].pc = "select" =>
              /\ c \in {proc[p].left, proc[p].right}
              /\ Len(AfterSend(p, c)) = Len(proc) + 1
              /\ AfterSend(p, c)[p].pc = "owed" /\ AfterSend(p, c)[p].val = proc[p].val
              /\ AfterSend(p, c)[p].left = proc[p].left
              /\ AfterSend(p, c)[p].right = Other(p, c)
              /\ LET q == AfterSend(p, c)[Len(proc) + 1]
                 IN q.pc = "take" /\ q.val = 0 /\ {q.left, q.right} = {c, p}
         /\ proc[p].pc # "select" =>
              /\ c = proc[p].right /\ proc[p].pc \in {"owed", "copy"}
              /\ proc[p].pc = "copy" => proc[p].val # 0
              /\ Len(AfterSend(p, c)) = Len(proc)
              /\ AfterSend(p, c)[p].pc = "copy" /\ AfterSend(p, c)[p].val = 0
              /\ AfterSend(p, c)[p].left = proc[p].left
              /\ AfterSend(p, c)[p].right = proc[p].right
<1> USE TermsAssumption
<1>g. /\ Len(proc) \in Nat /\ Proc = 1..Len(proc) /\ proc \in Seq(State)
      /\ proc[p] \in State
      /\ proc[p].left \in Consumer \union Nat /\ proc[p].right \in Consumer \union Nat
  BY Goroutine DEF TypeOK, State
<1>1. CASE proc[p].pc = "select"
  <2>1. c \in {proc[p].left, proc[p].right}
    BY <1>1 DEF Offers
  <2> DEFINE own == [proc[p] EXCEPT !.pc = "owed", !.right = Other(p, c)]
             new == IF c = proc[p].left THEN DoSplit(c, p) ELSE DoSplit(p, c)
  <2>2. own \in State /\ own.pc = "owed" /\ own.val = proc[p].val
        /\ own.left = proc[p].left /\ own.right = Other(p, c)
    BY <1>g DEF State, Other
  <2>3. new \in State /\ new.pc = "take" /\ new.val = 0 /\ {new.left, new.right} = {c, p}
    BY <1>g, <2>1 DEF State, DoSplit
  <2>4. AfterSend(p, c) = Append([proc EXCEPT ![p] = own], new)
    BY <1>1, <1>g, <2>1 DEF AfterSend, Other, State
  <2> HIDE DEF own, new
  <2>5. /\ [proc EXCEPT ![p] = own] \in Seq(State)
        /\ Len([proc EXCEPT ![p] = own]) = Len(proc)
        /\ \A r \in Proc : [proc EXCEPT ![p] = own][r] = IF r = p THEN own ELSE proc[r]
    BY <1>g, <2>2, ExceptSeq
  <2>6. /\ AfterSend(p, c) \in Seq(State) /\ Len(AfterSend(p, c)) = Len(proc) + 1
        /\ \A r \in Proc : AfterSend(p, c)[r] = IF r = p THEN own ELSE proc[r]
        /\ AfterSend(p, c)[Len(proc) + 1] = new
    BY <1>g, <2>3, <2>4, <2>5, AppendProperties
  <2> QED
    BY <1>1, <2>1, <2>2, <2>3, <2>6
<1>2. CASE proc[p].pc # "select"
  <2> DEFINE own == [proc[p] EXCEPT !.pc = "copy", !.val = 0]
  <2>1. /\ c = proc[p].right /\ proc[p].pc \in {"owed", "copy"}
        /\ proc[p].pc = "copy" => proc[p].val # 0
    BY <1>2, <1>g DEF Offers, State
  <2>2. own \in State /\ own.pc = "copy" /\ own.val = 0
        /\ own.left = proc[p].left /\ own.right = proc[p].right
    <3>1. 0 \in 0..Terms
      OBVIOUS
    <3>2. [proc[p] EXCEPT !.pc = "copy"] \in State
      BY <1>g DEF State
    <3> QED
      BY <1>g, <3>1, <3>2 DEF State
  <2>3. AfterSend(p, c) = [proc EXCEPT ![p] = own]
    <3>1. AfterSend(p, c) = [proc EXCEPT ![p].pc = "copy", ![p].val = 0]
      BY <1>2 DEF AfterSend
    <3> QED
      BY <1>g, <3>1 DEF State
  <2> HIDE DEF own
  <2>4. /\ AfterSend(p, c) \in Seq(State) /\ Len(AfterSend(p, c)) = Len(proc)
        /\ \A r \in Proc : AfterSend(p, c)[r] = IF r = p THEN own ELSE proc[r]
    BY <1>g, <2>2, <2>3, ExceptSeq
  <2> QED
    BY <1>2, <2>1, <2>2, <2>4
<1> QED
  BY <1>1, <1>2
\* A send keeps the invariant, whoever receives it: the term is the one the
\* channel carries next, the receiver's chain goes on with the term behind
\* it, and a new doSplit gets two channels nobody else sends on.
LEMMA SendChains ==
  ASSUME Chains, NEW p \in Proc, NEW c \in Offers(p), term' = term,
         \/ /\ c \in Consumer
            /\ got' = [got EXCEPT ![c] = Append(@, proc[p].val)]
            /\ proc' = AfterSend(p, c)
         \/ /\ c \in Proc /\ proc[c].pc = "copy" /\ proc[c].val = 0
            /\ proc' = [AfterSend(p, c) EXCEPT ![c].val = proc[p].val]
            /\ got' = got
  PROVE  Chains'
<1> DEFINE choice == proc[p].pc = "select"
<1>d. PICK v, n, o : v = proc[p].val /\ n = Len(proc) /\ o = Other(p, c)
  OBVIOUS
<1> USE TermsAssumption
<1>1. PICK e \in [Name -> Nat], s \in [Name -> Consumer] : Feeds(e, s)
  BY DEF Chains
<1>t. TypeOK /\ OneSender /\ Used
  BY DEF Chains
<1>g. /\ n \in Nat /\ Proc = 1..n /\ Channel = Consumer \union 1..n
      /\ term \in Nat \ {0} /\ Proc \subseteq Name /\ Consumer \subseteq Name
      /\ \A q \in Proc : /\ proc[q] \in State /\ proc[q].val \in 0..Terms
                         /\ proc[q].left \in Channel /\ proc[q].right \in Channel
  BY <1>d, <1>t, Goroutine DEF Channel, Name, State
<1>c. Consumer \intersect Nat = {} /\ c \in Channel /\ c # p
  <2>1. c \in Consumer => c \notin Nat
    BY Names
  <2>2. c = p => c \in Proc
    OBVIOUS
  <2>3. proc[p].pc = "copy" /\ proc[p].val = 0 => Offers(p) = {}
    BY DEF Offers
  <2> QED
    BY <1>g, <2>1, <2>2, <2>3, Names
<1>f. /\ choice => c \in {proc[p].left, proc[p].right}
      /\ ~choice => c = proc[p].right /\ ~Active(p) /\ v # 0
  <2>1. proc[p].pc = "copy" \/ proc[p].pc = "owed" => ~Active(p)
    BY DEF Active
  <2>2. ~choice /\ ~(proc[p].pc = "copy") => v # 0
    BY <1>1, <1>d, <1>t, <2>1, AfterSendFacts DEF Feeds, CopyFeeds
  <2> QED
    BY <1>d, <1>t, <2>1, <2>2, AfterSendFacts
\* The goroutines after the step.
<1>2. /\ proc' \in Seq(State) /\ Proc' = 1..Len(proc')
      /\ Len(proc') = IF choice THEN n + 1 ELSE n
      /\ \A r \in Proc : r # p /\ r # c => proc'[r] = proc[r]
      /\ choice => /\ proc'[p].pc = "owed" /\ proc'[p].val = v
                   /\ proc'[p].left = proc[p].left /\ proc'[p].right = o
                   /\ proc'[n + 1].pc = "take" /\ proc'[n + 1].val = 0
                   /\ {proc'[n + 1].left, proc'[n + 1].right} = {c, p}
      /\ ~choice => /\ proc'[p].pc = "copy" /\ proc'[p].val = 0
                    /\ proc'[p].left = proc[p].left /\ proc'[p].right = c
      /\ c \in Proc => /\ proc[c].pc = "copy" /\ proc[c].val = 0
                       /\ proc'[c].pc = "copy" /\ proc'[c].val = v
                       /\ proc'[c].left = proc[c].left /\ proc'[c].right = proc[c].right
  <2> DEFINE a == AfterSend(p, c)
  <2>1. /\ a \in Seq(State) /\ Len(a) = IF choice THEN n + 1 ELSE n
        /\ \A r \in Proc : r # p => a[r] = proc[r]
        /\ choice => /\ a[p].pc = "owed" /\ a[p].val = v
                     /\ a[p].left = proc[p].left /\ a[p].right = o
                     /\ a[n + 1].pc = "take" /\ a[n + 1].val = 0
                     /\ {a[n + 1].left, a[n + 1].right} = {c, p}
        /\ ~choice => /\ a[p].pc = "copy" /\ a[p].val = 0
                      /\ a[p].left = proc[p].left /\ a[p].right = c
    <3>1. CASE choice
      BY <1>d, <1>t, <3>1, AfterSendFacts
    <3>2. CASE ~choice
      BY <1>d, <1>f, <1>t, <3>2, AfterSendFacts
    <3> QED
      BY <3>1, <3>2
  <2> HIDE DEF a, choice
  <2>2. CASE c \in Consumer
    <3>1. proc' = a /\ c \notin Proc
      BY <1>g, <1>c, <2>2 DEF a
    <3>2. Proc' = 1..Len(proc')
      BY <2>1, <3>1 DEF Proc
    <3> QED
      BY <2>1, <3>1, <3>2
  <2>3. CASE c \notin Consumer
    <3>1. /\ c \in Proc /\ proc[c].pc = "copy" /\ proc[c].val = 0
          /\ proc' = [a EXCEPT ![c].val = v]
      BY <1>d, <2>3 DEF a
    <3>2. a[c] = proc[c] /\ c \in 1..Len(a) /\ proc[c] \in State /\ c # n + 1
      <4>1. c \in 1..n /\ n \in Nat /\ c # p /\ proc[c] \in State
        BY <1>c, <1>g, <3>1
      <4>2. a[c] = proc[c]
        BY <2>1, <3>1, <4>1
      <4>3. Len(a) \in {n, n + 1}
        BY <2>1
      <4> QED
        BY <4>1, <4>2, <4>3
    <3> DEFINE own == [proc[c] EXCEPT !.val = v]
    <3>3. /\ own \in State /\ own.pc = "copy" /\ own.val = v
          /\ own.left = proc[c].left /\ own.right = proc[c].right
      <4>1. v \in 0..Terms
        BY <1>d, <1>g
      <4> QED
        BY <3>1, <3>2, <4>1 DEF State
    <3>4. proc' = [a EXCEPT ![c] = own]
      BY <3>1, <3>2
    <3> HIDE DEF own
    <3>5. /\ proc' \in Seq(State) /\ Len(proc') = Len(a)
          /\ \A r \in 1..Len(a) : proc'[r] = IF r = c THEN own ELSE a[r]
      BY <2>1, <3>2, <3>3, <3>4, ExceptSeq
    <3>6. Proc' = 1..Len(proc')
      BY <3>5 DEF Proc
    <3>7. p \in 1..Len(a) /\ (choice => n + 1 \in 1..Len(a)) /\ \A r \in Proc : r \in 1..Len(a)
      BY <1>g, <2>1
    <3> QED
      BY <1>c, <2>1, <3>1, <3>2, <3>3, <3>5, <3>6, <3>7
  <2> QED
    BY <2>2, <2>3
\* What the invariant says of the sender: it sends the term c carries next.
<1>3. /\ v \in 1..Terms /\ e[c] = v
      /\ choice => /\ p = n /\ v = term - 1 /\ s[c] # s[o] /\ e[o] = v
                   /\ {c, o} = {proc[p].left, proc[p].right} /\ Active(p)
      /\ ~choice => e[p] = v + 1 /\ s[p] = s[c]
  <2>1. CASE choice
    <3>1. /\ p = n /\ v = term - 1 /\ v # 0 /\ Active(p)
          /\ s[proc[p].left] # s[proc[p].right]
          /\ e[proc[p].left] = e[proc[p].right] /\ e[proc[p].left] = v
      BY <1>1, <1>d, <2>1 DEF Feeds, ActiveFeeds, Active
    <3>2. {c, o} = {proc[p].left, proc[p].right} /\ s[c] # s[o]
      BY <1>d, <1>f, <2>1, <3>1 DEF Other
    <3>3. v \in 1..Terms
      BY <1>d, <1>g, <3>1
    <3>4. c \in {proc[p].left, proc[p].right} /\ o \in {proc[p].left, proc[p].right}
      BY <3>2
    <3> QED
      BY <2>1, <3>1, <3>2, <3>3, <3>4
  <2>2. CASE ~choice
    BY <1>1, <1>d, <1>f, <1>g, <2>2 DEF Feeds, CopyFeeds
  <2> QED
    BY <2>1, <2>2
<1>4. c \in Name /\ p \in Name /\ p \notin Consumer /\ (choice => o \in Channel /\ o \in Name /\ o # p)
  <2>1. choice => o \in Channel
    BY <1>g, <1>3
  <2>2. choice => p \notin Ends(p)
    BY <1>3, <1>t DEF Used
  <2>3. choice => o \in Ends(p)
    BY <1>3 DEF Ends
  <2>4. Channel \subseteq Name /\ p \notin Consumer
    <3>1. 1..n \subseteq Nat /\ p \in Nat
      BY <1>g
    <3> QED
      BY <1>c, <1>g, <3>1 DEF Name
  <2> QED
    BY <1>c, <1>g, <2>1, <2>2, <2>3, <2>4
<1>5. PICK e1 \in [Name -> Nat] : e1 = [e EXCEPT ![c] = v + 1, ![p] = v + 1]
  <2>1. v + 1 \in Nat
    BY <1>3
  <2> QED
    BY <2>1
<1>6. PICK s1 \in [Name -> Consumer] : s1 = [s EXCEPT ![p] = IF choice THEN s[o] ELSE s[p]]
  <2>1. (IF choice THEN s[o] ELSE s[p]) \in Consumer
    BY <1>4
  <2> QED
    BY <2>1
<1>e. /\ \A x \in Name : e1[x] = IF x \in {c, p} THEN v + 1 ELSE e[x]
      /\ \A x \in Name : s1[x] = IF x = p /\ choice THEN s[o] ELSE s[x]
  BY <1>4, <1>5, <1>6
\* The other goroutines' channels are not touched.
<1>7. ASSUME NEW r \in Proc, r # p
      PROVE  /\ (Ends(r))' = Ends(r) /\ (Active(r))' = Active(r)
             /\ c \notin Ends(r) /\ (choice => p \notin Ends(r) /\ o \notin Ends(r) /\ ~Active(r))
             /\ \A x \in Ends(r) : x \in Name /\ e1[x] = e[x] /\ s1[x] = s[x]
             /\ proc'[r].right = proc[r].right /\ proc'[r].left = proc[r].left
             /\ proc[r].right \in Ends(r) /\ (Active(r) => proc[r].left \in Ends(r))
  <2>1. /\ proc'[r].pc = proc[r].pc /\ proc'[r].left = proc[r].left
        /\ proc'[r].right = proc[r].right
    BY <1>2, <1>7
  <2>2. (Ends(r))' = Ends(r) /\ (Active(r))' = Active(r)
    BY <2>1 DEF Ends, Active
  <2>3. c \in Ends(p) /\ (choice => o \in Ends(p))
    BY <1>3, <1>f DEF Ends, Active
  <2>4. Ends(p) \intersect Ends(r) = {}
    BY <1>7, <1>t DEF OneSender
  <2>5. choice => p \notin Ends(r) /\ ~Active(r)
    BY <1>1, <1>3, <1>7, <1>t DEF Used, Feeds, ActiveFeeds
  <2>6. \A x \in Ends(r) : x \in Name /\ x # c
    BY <1>g, <2>3, <2>4 DEF Ends, Name
  <2>7. \A x \in Ends(r) : e1[x] = e[x] /\ s1[x] = s[x]
    BY <1>e, <1>3, <2>5, <2>6
  <2>8. proc[r].right \in Ends(r) /\ (Active(r) => proc[r].left \in Ends(r))
    BY DEF Ends, Active
  <2> QED
    BY <2>1, <2>2, <2>3, <2>4, <2>5, <2>6, <2>7, <2>8
<1>p. /\ p \in Proc' /\ ~(Active(p))' /\ Proc' = (IF choice THEN Proc \union {n + 1} ELSE Proc)
      /\ (Ends(p))' = (IF choice THEN {o} ELSE {c})
      /\ choice => n + 1 \notin Proc /\ (Active(n + 1))' /\ (Ends(n + 1))' = {c, p}
  <2>1. p \in Proc' /\ Proc' = (IF choice THEN Proc \union {n + 1} ELSE Proc)
    <3>1. 1..(n + 1) = 1..n \union {n + 1}
      <4>1. n \in Nat
        BY <1>g
      <4> QED
        BY <4>1
    <3> QED
      BY <1>2, <1>g, <3>1
  <2>2. ~(Active(p))' /\ (Ends(p))' = (IF choice THEN {o} ELSE {c})
    BY <1>2 DEF Active, Ends
  <2>3. choice => (Active(n + 1))' /\ (Ends(n + 1))' = {c, p}
    BY <1>2 DEF Active, Ends
  <2>4. n + 1 \notin Proc
    BY <1>g
  <2> QED
    BY <2>1, <2>2, <2>3, <2>4
<1>8. TypeOK'
  <2>1. got' \in [Consumer -> Seq(1..Terms)]
    <3>1. CASE got' = got
      BY <3>1, <1>t DEF TypeOK
    <3>2. CASE c \in Consumer /\ got' = [got EXCEPT ![c] = Append(@, proc[p].val)]
      <4>1. Append(got[c], proc[p].val) \in Seq(1..Terms)
        BY <1>d, <1>t, <1>3, <3>2, AppendProperties DEF TypeOK
      <4> QED
        BY <1>t, <3>2, <4>1 DEF TypeOK
    <3> QED
      BY <3>1, <3>2
  <2>2. Channel \subseteq Channel' /\ p \in Channel'
    BY <1>p DEF Channel
  <2>3. ASSUME NEW r \in Proc' PROVE proc'[r].left \in Channel' /\ proc'[r].right \in Channel'
    <3>1. CASE r \in Proc /\ r # p
      BY <1>7, <1>g, <2>2, <3>1
    <3>2. CASE r = p
      BY <1>2, <1>4, <1>c, <1>g, <2>2, <3>2
    <3>3. CASE choice /\ r = n + 1
      BY <1>2, <1>c, <2>2, <3>3
    <3> QED
      BY <1>p, <3>1, <3>2, <3>3
  <2>4. term' \in 1..(Terms + 1)
    BY <1>t DEF TypeOK
  <2> QED
    BY <1>2, <2>1, <2>3, <2>4 DEF TypeOK
<1>9. OneSender'
  <2> SUFFICES ASSUME NEW q \in Proc', NEW r \in Proc', q # r
               PROVE  (Ends(q))' \intersect (Ends(r))' = {}
    BY DEF OneSender
  <2>1. CASE q \in Proc /\ r \in Proc
    <3>1. q # p /\ r # p => Ends(q) \intersect Ends(r) = {}
      BY <1>t, <2>1 DEF OneSender
    <3> QED
      BY <1>7, <1>p, <2>1, <3>1
  <2>2. CASE choice /\ q = n + 1
    <3>1. r = p => (Ends(q))' \intersect (Ends(r))' = {}
      BY <1>p, <1>3, <1>4, <2>2
    <3>2. r # p => r \in Proc /\ (Ends(q))' \intersect (Ends(r))' = {}
      BY <1>p, <1>7, <2>2
    <3> QED
      BY <3>1, <3>2
  <2>3. CASE choice /\ r = n + 1
    <3>1. q = p => (Ends(q))' \intersect (Ends(r))' = {}
      BY <1>p, <1>3, <1>4, <2>3
    <3>2. q # p => q \in Proc /\ (Ends(q))' \intersect (Ends(r))' = {}
      BY <1>p, <1>7, <2>3
    <3> QED
      BY <3>1, <3>2
  <2> QED
    BY <1>p, <2>1, <2>2, <2>3
<1>10. Used'
  <2> SUFFICES ASSUME NEW r \in Proc', NEW q \in Proc', q \in (Ends(r))'
               PROVE  ~(Active(q))'
    BY DEF Used
  <2>1. q \in Proc
    <3>1. \A x \in Proc : x # p => Ends(x) \subseteq Channel
      BY <1>g DEF Ends
    <3>2. (Ends(r))' \subseteq Channel
      <4>1. CASE r = p
        BY <1>p, <1>4, <1>c, <4>1
      <4>2. CASE r \in Proc /\ r # p
        BY <1>7, <3>1, <4>2
      <4>3. CASE choice /\ r = n + 1
        BY <1>p, <1>c, <1>g, <4>3
      <4> QED
        BY <1>p, <4>1, <4>2, <4>3
    <3>3. q \in Nat /\ q \notin Consumer
      BY <1>2, <1>c
    <3> QED
      BY <1>g, <3>2, <3>3
  <2>2. CASE q # p /\ r \in Proc /\ r # p
    BY <1>7, <1>t, <2>1, <2>2 DEF Used
  <2>3. CASE q # p /\ ~choice
    <3>1. r = p => q = c /\ c \in Proc
      BY <1>p, <2>1, <2>3
    <3>2. c \in Proc => ~(Active(c))'
      BY <1>2 DEF Active
    <3> QED
      BY <1>p, <2>2, <2>3, <3>1, <3>2
  <2>4. CASE q # p /\ choice
    BY <1>7, <2>1, <2>4
  <2>5. CASE q = p
    BY <1>p, <2>5
  <2> QED
    BY <2>3, <2>4, <2>5
<1>l. Leader'
  <2>0. Leader
    BY DEF Chains
  <2>1. CASE choice
    BY <1>2, <1>3, <1>d, <1>g, <2>0, <2>1 DEF Leader, Active
  <2>2. CASE ~choice
    <3>1. n # p /\ n \in Proc /\ n # c
      <4>1. n \in Proc /\ Active(n)
        BY <1>d, <1>g, <2>0 DEF Leader
      <4> QED
        BY <1>2, <1>f, <2>2, <4>1 DEF Active
    <3> QED
      BY <1>2, <1>d, <2>0, <2>2, <3>1 DEF Leader, Active
  <2> QED
    BY <2>1, <2>2
<1>11. ActiveFeeds(e1, s1)'
  <2> SUFFICES ASSUME NEW q \in Proc', (Active(q))'
               PROVE  /\ q = Len(proc') /\ s1[proc'[q].left] # s1[proc'[q].right]
                      /\ e1[proc'[q].left] = e1[proc'[q].right]
                      /\ proc'[q].pc = "take" => e1[proc'[q].left] = term' /\ proc'[q].val = 0
                      /\ proc'[q].pc = "select" => /\ e1[proc'[q].left] = proc'[q].val
                                                   /\ proc'[q].val = term' - 1 /\ proc'[q].val # 0
    BY DEF ActiveFeeds
  <2>1. CASE q \in Proc
    <3>1. q # p /\ Active(q) /\ ~choice
      BY <1>p, <1>7, <2>1
    <3>2. q # c /\ proc'[q] = proc[q]
      BY <1>2, <2>1, <3>1 DEF Active
    <3> QED
      <4>1. /\ q = Len(proc) /\ s[proc[q].left] # s[proc[q].right]
            /\ e[proc[q].left] = e[proc[q].right]
            /\ proc[q].pc = "take" => e[proc[q].left] = term /\ proc[q].val = 0
            /\ proc[q].pc = "select" => /\ e[proc[q].left] = proc[q].val
                                        /\ proc[q].val = term - 1 /\ proc[q].val # 0
        BY <1>1, <2>1, <3>1 DEF Feeds, ActiveFeeds
      <4>2. /\ e1[proc[q].left] = e[proc[q].left] /\ e1[proc[q].right] = e[proc[q].right]
            /\ s1[proc[q].left] = s[proc[q].left] /\ s1[proc[q].right] = s[proc[q].right]
        BY <1>7, <2>1, <3>1
      <4>3. Len(proc') = Len(proc)
        BY <1>2, <1>d, <3>1
      <4> QED
        BY <3>2, <4>1, <4>2, <4>3
  <2>2. CASE choice /\ q = n + 1
    <3>1. e1[c] = term /\ e1[p] = term
      BY <1>e, <1>3, <1>4, <1>g, <2>2
    <3>2. s1[c] = s[c] /\ s1[p] = s[o]
      BY <1>e, <1>4, <1>c, <2>2
    <3> QED
      <4>1. /\ q = Len(proc') /\ proc'[q].pc = "take" /\ proc'[q].val = 0
            /\ {proc'[q].left, proc'[q].right} = {c, p}
        BY <1>2, <2>2
      <4>2. s1[c] # s1[p] /\ e1[c] = e1[p] /\ e1[c] = term'
        BY <1>3, <2>2, <3>1, <3>2
      <4>3. \/ proc'[q].left = c /\ proc'[q].right = p
            \/ proc'[q].left = p /\ proc'[q].right = c
        BY <4>1, <1>c
      <4> QED
        BY <4>1, <4>2, <4>3
  <2> QED
    BY <1>p, <2>1, <2>2
<1>12. CopyFeeds(e1, s1)'
  <2> SUFFICES ASSUME NEW q \in Proc', ~(Active(q))'
               PROVE  /\ s1[q] = s1[proc'[q].right]
                      /\ proc'[q].val # 0 => e1[proc'[q].right] = proc'[q].val
                                             /\ e1[q] = proc'[q].val + 1
                      /\ proc'[q].val = 0 => proc'[q].pc = "copy" /\ e1[q] = e1[proc'[q].right]
    BY DEF CopyFeeds
  <2>0. q \in Proc
    BY <1>p
  <2>1. CASE q # p /\ q # c
    <3>1. proc'[q] = proc[q] /\ ~Active(q) /\ e1[q] = e[q] /\ s1[q] = s[q]
      BY <1>2, <1>7, <1>e, <1>g, <2>0, <2>1
    <3> QED
      BY <1>1, <1>7, <2>0, <2>1, <3>1 DEF Feeds, CopyFeeds
  <2>2. CASE q = c
    <3>1. ~Active(c) /\ c \in Proc /\ c # p
      BY <1>2, <1>c, <2>0, <2>2 DEF Active
    <3>2. s[c] = s[proc[c].right] /\ e[proc[c].right] = v
      BY <1>1, <1>2, <1>3, <3>1 DEF Feeds, CopyFeeds
    <3>3. s1[c] = s[c] /\ e1[c] = v + 1
      BY <1>e, <1>4, <3>1
    <3> QED
      BY <1>2, <1>3, <1>7, <2>2, <3>1, <3>2, <3>3
  <2>3. CASE q = p /\ choice
    <3>1. e1[o] = v /\ e1[p] = v + 1 /\ s1[p] = s[o] /\ s1[o] = s[o]
      BY <1>e, <1>3, <1>4, <2>3
    <3> QED
      BY <1>2, <1>3, <2>3, <3>1
  <2>4. CASE q = p /\ ~choice
    <3>1. e1[c] = v + 1 /\ e1[p] = v + 1 /\ s1[p] = s[p] /\ s1[c] = s[c]
      BY <1>e, <1>4, <1>c, <2>4
    <3> QED
      BY <1>2, <1>3, <2>4, <3>1
  <2> QED
    BY <2>1, <2>2, <2>3, <2>4
<1>13. ConsumerFeeds(e1, s1)'
  <2> SUFFICES ASSUME NEW d \in Consumer
               PROVE  /\ s1[d] = d /\ e1[d] = Len(got'[d]) + 1
                      /\ got'[d] = [j \in 1..Len(got'[d]) |-> j]
    BY DEF ConsumerFeeds
  <2>1. s1[d] = d
    BY <1>1, <1>4, <1>e, <1>g DEF Feeds, ConsumerFeeds
  <2>2. got[d] \in Seq(1..Terms) /\ e[d] = Len(got[d]) + 1 /\ got[d] = [j \in 1..Len(got[d]) |-> j]
    BY <1>1, <1>t DEF Feeds, ConsumerFeeds, TypeOK
  <2>3. CASE d # c
    <3>1. got'[d] = got[d] /\ e1[d] = e[d]
      BY <1>e, <1>4, <1>g, <1>t, <2>3 DEF TypeOK
    <3> QED
      BY <2>1, <2>2, <3>1
  <2>4. CASE d = c
    <3>1. got'[d] = Append(got[d], v) /\ e1[d] = v + 1 /\ v = Len(got[d]) + 1
      <4>1. got' = [got EXCEPT ![c] = Append(@, v)] /\ got \in [Consumer -> Seq(1..Terms)]
        <5>1. c \notin Proc
          BY <1>c, <1>g, <2>4
        <5> QED
          BY <1>d, <1>t, <5>1 DEF TypeOK
      <4> QED
        BY <1>3, <1>4, <1>e, <2>2, <2>4, <4>1
    <3>2. Len(got'[d]) = Len(got[d]) + 1 /\ \A j \in 1..Len(got'[d]) : got'[d][j] = j
      BY <2>2, <3>1
    <3>3. got'[d] = [j \in 1..Len(got'[d]) |-> j]
      <4>1. got'[d] \in Seq(1..Terms)
        BY <1>8 DEF TypeOK
      <4>2. got'[d] = [j \in 1..Len(got'[d]) |-> got'[d][j]]
        BY <4>1, LenProperties
      <4> QED
        BY <3>2, <4>2
    <3> QED
      BY <2>1, <2>2, <3>1, <3>2, <3>3
  <2> QED
    BY <2>3, <2>4
<1>14. OnTheWay(e1, s1)'
  <2> SUFFICES ASSUME NEW d \in Consumer, NEW t \in e1[d]..(term - 1)
               PROVE  \E r \in Proc' : proc'[r].val = t /\ ((Active(r))' \/ s1[proc'[r].right] = d)
    BY DEF OnTheWay
  <2>1. e1[d] \in Nat /\ e[d] \in Nat \ {0} /\ e[d] <= e1[d]
    <3>1. e[d] = Len(got[d]) + 1 /\ Len(got[d]) \in Nat
      BY <1>1, <1>t DEF Feeds, ConsumerFeeds, TypeOK
    <3>2. e1[d] = IF d = c THEN v + 1 ELSE e[d]
      BY <1>4, <1>e, <1>g
    <3> QED
      BY <1>3, <3>1, <3>2
  <2>2. t \in e[d]..(term - 1) /\ t # 0
    <3>1. term \in Nat /\ t \in Int /\ e1[d] <= t /\ t <= term - 1
      BY <1>g, <2>1
    <3> QED
      BY <2>1, <3>1
  <2>3. PICK r \in Proc : proc[r].val = t /\ (Active(r) \/ s[proc[r].right] = d)
    BY <1>1, <2>2 DEF Feeds, OnTheWay
  <2>4. CASE r # p
    <3>1. r # c /\ proc'[r] = proc[r] /\ r \in Proc'
      BY <1>2, <1>p, <2>2, <2>3, <2>4
    <3> QED
      BY <1>7, <2>3, <2>4, <3>1
  <2>5. CASE r = p
    <3>1. t = v
      BY <1>d, <2>3, <2>5
    <3>2. c \in Consumer => d # c
      <4>1. e1[c] = v + 1
        BY <1>e, <1>4
      <4> QED
        BY <1>3, <3>1, <4>1
    <3>3. CASE s[c] = d
      <4>1. c \in Proc /\ ~Active(c) /\ c # p
        <5>1. c \notin Consumer
          BY <1>1, <3>2, <3>3 DEF Feeds, ConsumerFeeds
        <5>2. c \in Proc
          BY <5>1
        <5> QED
          BY <1>2, <1>c, <5>2 DEF Active
      <4>2. s[c] = s[proc[c].right] /\ c \in Proc'
        BY <1>1, <1>p, <4>1 DEF Feeds, CopyFeeds
      <4>3. s1[proc[c].right] = s[proc[c].right]
        BY <1>7, <4>1
      <4> QED
        BY <1>2, <3>1, <3>3, <4>1, <4>2, <4>3
    <3>4. CASE s[c] # d
      <4>1. choice /\ s[o] = d
        <5>1. choice
          BY <1>3, <1>f, <2>3, <2>5, <3>4
        <5>2. s[c] \in Consumer /\ s[o] \in Consumer
          BY <1>4, <5>1
        <5> QED
          BY <1>3, <3>4, <5>1, <5>2, Names
      <4>2. s1[o] = d
        BY <1>e, <1>4, <4>1
      <4> QED
        BY <1>2, <1>p, <3>1, <4>1, <4>2
    <3> QED
      BY <3>3, <3>4
  <2> QED
    BY <2>4, <2>5
<1> QED
  BY <1>8, <1>9, <1>10, <1>11, <1>12, <1>13, <1>14, <1>l DEF Chains, Feeds

\* Every step of the program keeps the invariant.
LEMMA NextChains == Chains /\ [Next]_vars => Chains'
<1> SUFFICES ASSUME Chains, [Next]_vars PROVE Chains'
  OBVIOUS
<1>1. ASSUME NEW p \in Proc, Take(p) PROVE Chains'
  BY <1>1, TakeChains
<1>2. ASSUME NEW p \in Proc, NEW c \in Consumer, Deliver(p, c) PROVE Chains'
  BY <1>2, SendChains DEF Deliver
<1>3. ASSUME NEW p \in Proc, NEW q \in Proc, Forward(p, q) PROVE Chains'
  BY <1>3, SendChains DEF Forward
<1>4. CASE UNCHANGED vars
  <2> USE <1>4 DEF vars
  <2>1. PICK e \in [Name -> Nat], s \in [Name -> Consumer] : Feeds(e, s)
    BY DEF Chains
  <2>2. Proc' = Proc /\ Channel' = Channel
    BY DEF Proc, Channel
  <2>3. TypeOK' /\ OneSender' /\ Used' /\ Leader'
    BY <2>2 DEF Chains, TypeOK, OneSender, Used, Leader, Ends, Active
  <2>4. ActiveFeeds(e, s)' /\ CopyFeeds(e, s)'
    BY <2>1, <2>2 DEF Feeds, ActiveFeeds, CopyFeeds, Active
  <2>5. ConsumerFeeds(e, s)' /\ OnTheWay(e, s)'
    BY <2>1, <2>2 DEF Feeds, ConsumerFeeds, OnTheWay, Active
  <2> QED
    BY <2>3, <2>4, <2>5 DEF Chains, Feeds
<1> QED
  BY <1>1, <1>2, <1>3, <1>4 DEF Next

\* The goroutines never go off the types, two never send on one channel, and
\* every term taken from F that a consumer has yet to receive is with one.
THEOREM InvHolds == Spec => []Inv
<1>1. Chains => Inv
  <2> SUFFICES ASSUME Chains PROVE Owed
    BY DEF Chains, Inv
  <2>1. PICK e \in [Name -> Nat], s \in [Name -> Consumer] : Feeds(e, s)
    BY DEF Chains
  <2> QED
    BY <2>1 DEF Owed, Feeds, ConsumerFeeds, OnTheWay
<1> QED
  BY <1>1, InitChains, NextChains, PTL DEF Spec

\* Each consumer receives the series from its first term on, in order, none
\* lost and none twice, whatever the pace of the other.
THEOREM SameSeriesHolds == Spec => []SameSeries
<1>1. Chains => SameSeries
  BY DEF Chains, SameSeries, Feeds, ConsumerFeeds
<1> QED
  BY <1>1, InitChains, NextChains, PTL DEF Spec

\* The goroutines that lead to c, the one reading F apart.
ChainOf(s, c) == {p \in Proc : ~Active(p) /\ s[proc[p].right] = c}

\* If two hold a and b terms, m of them in all, and each lacks of the m no
\* more than it holds, then they have had m between them.
LEMMA Shared ==
  ASSUME NEW m \in Nat, NEW a \in Nat, NEW b \in Nat, NEW k \in Nat, NEW l \in Nat,
         a + b = m, m - k <= a, m - l <= b
  PROVE  m <= k + l
OBVIOUS

\* The one who has had more has had half of them at least.
LEMMA Half ==
  ASSUME NEW m \in Nat, NEW k \in Nat, NEW l \in Nat, m <= k + l
  PROVE  m + 1 <= 2 * k + 1 \/ m + 1 <= 2 * l + 1
OBVIOUS

\* F is read ahead of the faster consumer by no more than one term and as
\* many as it has had, for every pace of the two: what a consumer has not
\* got is held by goroutines of its own chain, one term each.
THEOREM ReadAheadHolds == Spec => []ReadAhead
<1>1. Chains => ReadAhead
  <2> SUFFICES ASSUME Chains PROVE ReadAhead
    OBVIOUS
  <2> USE Names
  <2>1. PICK e \in [Name -> Nat], s \in [Name -> Consumer] : Feeds(e, s)
    BY DEF Chains
  <2>2. PICK m : m = Len(proc) - 1
    OBVIOUS
  <2>3. /\ Len(proc) \in Nat /\ Proc = 1..Len(proc) /\ m \in Nat
        /\ term - 1 \in {m, m + 1} /\ Active(m + 1)
        /\ proc[m + 1].pc = "select" => proc[m + 1].val = m + 1
        /\ proc[m + 1].pc = "take" => proc[m + 1].val = 0
        /\ term - 1 = m + 1 \/ proc[m + 1].pc = "take"
    <3>1. TypeOK /\ Leader
      BY DEF Chains
    <3>2. Len(proc) \in Nat /\ Proc = 1..Len(proc) /\ m \in Nat /\ m + 1 = Len(proc)
      BY <2>2, <3>1, Goroutine DEF Leader
    <3>3. term - 1 \in {m, m + 1} /\ Active(m + 1)
      BY <3>1, <3>2 DEF Leader
    <3>4. m + 1 \in Proc
      BY <3>2
    <3> QED
      BY <2>1, <3>1, <3>2, <3>3, <3>4 DEF Leader, Feeds, ActiveFeeds, Active
  <2>4. \A p \in Proc : ~Active(p) <=> p \in 1..m
    <3>1. \A p \in Proc : Active(p) => p = m + 1
      BY <2>1, <2>2, <2>3 DEF Feeds, ActiveFeeds
    <3> QED
      BY <2>2, <2>3, <3>1
  <2>5. ASSUME NEW c \in Consumer
        PROVE  /\ IsFiniteSet(ChainOf(s, c)) /\ Cardinality(ChainOf(s, c)) \in Nat
               /\ m - Len(got[c]) <= Cardinality(ChainOf(s, c)) /\ Len(got[c]) \in Nat
    <3>1. ChainOf(s, c) \subseteq 1..m
      BY <2>4 DEF ChainOf
    <3>2. IsFiniteSet(1..m)
      <4>1. 1 \in Int /\ m \in Int
        BY <2>3
      <4> QED
        BY <4>1, FS_Interval
    <3>3. IsFiniteSet(ChainOf(s, c)) /\ Cardinality(ChainOf(s, c)) \in Nat
      BY <3>1, <3>2, FS_Subset, FS_CardinalityType
    <3>4. Len(got[c]) \in Nat /\ e[c] = Len(got[c]) + 1
      <4>1. got[c] \in Seq(1..Terms)
        BY DEF Chains, TypeOK
      <4>2. Len(got[c]) \in Nat
        BY <4>1, LenProperties
      <4>3. e[c] = Len(got[c]) + 1
        BY <2>1 DEF Feeds, ConsumerFeeds
      <4> QED
        BY <4>2, <4>3
    <3>5. PICK n : n = Len(got[c])
      OBVIOUS
    <3>6. \A t \in n + 1 .. m : \E p \in ChainOf(s, c) : proc[p].val = t
      <4> SUFFICES ASSUME NEW t \in n + 1 .. m
                   PROVE  \E p \in ChainOf(s, c) : proc[p].val = t
        OBVIOUS
      <4>1. t \in e[c]..(term - 1) /\ t # 0 /\ t # m + 1
        BY <2>3, <3>4, <3>5
      <4>2. PICK p \in Proc : proc[p].val = t /\ (Active(p) \/ s[proc[p].right] = c)
        BY <2>1, <4>1 DEF Feeds, OnTheWay
      <4>3. p = m + 1 \/ p \in 1..m
        BY <2>3
      <4>4. ASSUME p = m + 1 PROVE FALSE
        BY <2>3, <4>1, <4>2, <4>4 DEF Active
      <4>5. ~Active(p)
        BY <2>4, <4>3, <4>4
      <4> QED
        BY <4>2, <4>5 DEF ChainOf
    <3>7. Cardinality(n + 1 .. m) <= Cardinality(ChainOf(s, c))
      <4> DEFINE holder == [t \in n + 1 .. m |-> CHOOSE p \in ChainOf(s, c) : proc[p].val = t]
      <4>1. \A t \in n + 1 .. m : holder[t] \in ChainOf(s, c) /\ proc[holder[t]].val = t
        BY <3>6
      <4>2. holder \in [n + 1 .. m -> ChainOf(s, c)]
        BY <4>1
      <4> HIDE DEF holder
      <4>3. holder \in Injection(n + 1 .. m, ChainOf(s, c))
        BY <4>1, <4>2 DEF Injection, IsInjective
      <4> QED
        BY <3>3, <4>3, FS_Injection
    <3>8. m - n <= Cardinality(n + 1 .. m)
      <4>1. n + 1 \in Int /\ m \in Int
        BY <2>3, <3>4, <3>5
      <4>2. Cardinality(n + 1 .. m) = IF n + 1 > m THEN 0 ELSE m - (n + 1) + 1
        BY <4>1, FS_Interval
      <4> QED
        BY <2>3, <3>4, <3>5, <4>2
    <3>9. Cardinality(n + 1 .. m) \in Nat
      <4>1. n + 1 \in Int /\ m \in Int
        BY <2>3, <3>4, <3>5
      <4> QED
        BY <4>1, FS_Interval, FS_CardinalityType
    <3> QED
      BY <2>3, <3>3, <3>4, <3>5, <3>7, <3>8, <3>9
  <2>6. Cardinality(ChainOf(s, F0)) + Cardinality(ChainOf(s, F1)) = m
    <3>1. \A p \in Proc : s[proc[p].right] \in Consumer
      BY <2>1, Goroutine DEF Chains
    <3>2. ChainOf(s, F0) \intersect ChainOf(s, F1) = {}
      BY DEF ChainOf
    <3>3. ChainOf(s, F0) \union ChainOf(s, F1) = 1..m
      <4>1. 1..m \subseteq Proc
        <5>1. Len(proc) \in Nat /\ Proc = 1..Len(proc) /\ m \in Nat
          BY <2>3
        <5> QED
          BY <2>2, <5>1
      <4>2. ChainOf(s, F0) \union ChainOf(s, F1) = {p \in Proc : ~Active(p)}
        BY <3>1 DEF ChainOf
      <4> QED
        BY <2>4, <4>1, <4>2
    <3>4. Cardinality(1..m) = m
      <4>1. 1 \in Int /\ m \in Int
        BY <2>3
      <4>2. Cardinality(1..m) = IF 1 > m THEN 0 ELSE m - 1 + 1
        BY <4>1, FS_Interval
      <4> QED
        BY <2>3, <4>2
    <3>5. /\ IsFiniteSet(ChainOf(s, F0)) /\ IsFiniteSet(ChainOf(s, F1))
          /\ Cardinality(ChainOf(s, F0)) \in Nat /\ Cardinality(ChainOf(s, F1)) \in Nat
      BY <2>5
    <3>6. Cardinality(ChainOf(s, F0) \union ChainOf(s, F1))
            = Cardinality(ChainOf(s, F0)) + Cardinality(ChainOf(s, F1))
                - Cardinality(ChainOf(s, F0) \intersect ChainOf(s, F1))
      BY <3>5, FS_Union
    <3>7. Cardinality({}) = 0
      BY FS_EmptySet
    <3> HIDE DEF ChainOf
    <3>8. Cardinality(ChainOf(s, F0) \union ChainOf(s, F1)) = m
      BY <3>3, <3>4
    <3>9. Cardinality(ChainOf(s, F0) \intersect ChainOf(s, F1)) = 0
      BY <3>2, <3>7
    <3> QED
      BY <3>5, <3>6, <3>8, <3>9
  <2>7. m <= Len(got[F0]) + Len(got[F1]) /\ Len(got[F0]) \in Nat /\ Len(got[F1]) \in Nat
    <3>1. F0 \in Consumer /\ F1 \in Consumer
      OBVIOUS
    <3>2. /\ Cardinality(ChainOf(s, F0)) \in Nat /\ Len(got[F0]) \in Nat
          /\ m - Len(got[F0]) <= Cardinality(ChainOf(s, F0))
      BY <2>5, <3>1
    <3>3. /\ Cardinality(ChainOf(s, F1)) \in Nat /\ Len(got[F1]) \in Nat
          /\ m - Len(got[F1]) <= Cardinality(ChainOf(s, F1))
      BY <2>5, <3>1
    <3>4. m \in Nat
      BY <2>3
    <3> QED
      BY <2>6, <3>2, <3>3, <3>4, Shared
  <2>8. m + 1 <= 2 * Len(got[F0]) + 1 \/ m + 1 <= 2 * Len(got[F1]) + 1
    <3>1. m \in Nat
      BY <2>3
    <3> QED
      BY <2>7, <3>1, Half
  <2> QED
    BY <2>3, <2>7, <2>8 DEF ReadAhead
<1> QED
  BY <1>1, InitChains, NextChains, PTL DEF Spec
=============================================================================
