------------------------------- MODULE Sieve --------------------------------
(***************************************************************************)
(* primes.go: the concurrent prime sieve.  generate sends 2, 3, ... into a *)
(* chain of filters; main prints what leaves the chain, which is a prime,  *)
(* and adds a filter for it at the end.                                    *)
(*                                                                         *)
(* Stage 0 is generate and stage k the k-th filter.  The channels are      *)
(* unbuffered: stage k hands its number to stage k + 1, or to main when it *)
(* is the last, in one joint step.  main prints and starts the filter      *)
(* before it receives again, and nobody waits for it to: the same step.    *)
(***************************************************************************)
EXTENDS Naturals, Sequences

CONSTANT Limit                   \* generate stops here; the program does not

ASSUME LimitAssumption == Limit \in Nat \ {0}

VARIABLES i,                     \* the number generate offers
          primes,                \* printed; filter k is for primes[k]
          held                   \* the number filter k offers, or 0

sieveVars == <<i, primes, held>>

SieveTypeOK == /\ i \in 2..(Limit + 1)
               /\ primes \in Seq(2..Limit)
               /\ held \in Seq({0} \union 2..Limit)
               /\ Len(held) = Len(primes)

SieveInit == i = 2 /\ primes = <<>> /\ held = <<>>

Stage == 0..Len(primes)

\* What stage k offers, if anything, and what is left when it is taken.
Offering(k) == IF k = 0 THEN IF i <= Limit THEN i ELSE 0 ELSE held[k]

TakenFrom(k) == i' = IF k = 0 THEN i + 1 ELSE i

\* Faulty variant: everything is let through.
ScreenNothing(k, v) == v

\* if i % prime != 0
Screen(k, v) == IF v % primes[k] # 0 THEN v ELSE 0

\* Faulty variant: the next filter takes a number although it still offers one.
PassOver(k) ==
  /\ k < Len(primes) /\ Offering(k) # 0
  /\ held' = [j \in DOMAIN held |-> IF j = k + 1 THEN Screen(j, Offering(k))
                                    ELSE IF j = k THEN 0 ELSE held[j]]
  /\ TakenFrom(k)
  /\ UNCHANGED primes

\* Stage k + 1 is a filter ready to receive.
Pass(k) ==
  /\ k < Len(primes) /\ Offering(k) # 0 /\ held[k + 1] = 0
  /\ held' = [j \in DOMAIN held |-> IF j = k + 1 THEN Screen(j, Offering(k))
                                    ELSE IF j = k THEN 0 ELSE held[j]]
  /\ TakenFrom(k)
  /\ UNCHANGED primes

\* Faulty variant: the last filter offers its number once more.
MainReceivesAgain ==
  LET k == Len(primes) IN
  /\ Offering(k) # 0
  /\ primes' = Append(primes, Offering(k))
  /\ held' = Append(held, 0)
  /\ TakenFrom(k)

\* The last stage hands its number to main, which prints it and starts a
\* filter for it.
MainReceives ==
  LET k == Len(primes) IN
  /\ Offering(k) # 0
  /\ primes' = Append(primes, Offering(k))
  /\ held' = Append([j \in DOMAIN held |-> IF j = k THEN 0 ELSE held[j]], 0)
  /\ TakenFrom(k)

SieveNext == MainReceives \/ \E k \in Stage : Pass(k)

SieveSpec     == SieveInit /\ [][SieveNext]_sieveVars
SieveFairSpec == SieveSpec /\ WF_sieveVars(SieveNext)
-----------------------------------------------------------------------------
(* Properties                                                              *)

IsPrime(v) == v >= 2 /\ \A d \in 2..(v - 1) : v % d # 0

\* What a filter offers has passed it and every filter before it.
Sieved == \A k \in DOMAIN held : held[k] # 0 => \A j \in 1..k : held[k] % primes[j] # 0

\* The filters work side by side on different numbers, and no number
\* overtakes another: later stages hold smaller ones, and what has been
\* printed is smaller still.
InOrder == /\ \A k \in DOMAIN held : held[k] # 0 =>
                /\ held[k] < i
                /\ \A j \in 1..(k - 1) : held[j] # 0 => held[k] < held[j]
                /\ \A j \in DOMAIN primes : primes[j] < held[k]
           /\ \A j, k \in DOMAIN primes : j < k => primes[j] < primes[k]
           /\ \A j \in DOMAIN primes : primes[j] < i

\* Nothing generated disappears but the multiples of what has been printed.
NothingSkipped ==
  \A v \in 2..(i - 1) : \/ \E j \in DOMAIN primes : primes[j] = v \/ v % primes[j] = 0
                        \/ \E k \in DOMAIN held : held[k] = v

\* What the proofs use.
SieveInv == SieveTypeOK /\ Sieved /\ InOrder /\ NothingSkipped

\* What main prints are primes, in increasing order and with none left out.
PrintsPrimes ==
  /\ \A j \in DOMAIN primes : IsPrime(primes[j])
  /\ \A j, k \in DOMAIN primes : j < k => primes[j] < primes[k]
  /\ \A k \in DOMAIN primes : \A p \in 2..primes[k] :
       IsPrime(p) => \E j \in DOMAIN primes : primes[j] = p

\* The chain never blocks before it is empty: every prime that generate
\* reaches is printed.
AllPrinted == <>(\A p \in 2..Limit : IsPrime(p) => \E j \in DOMAIN primes : primes[j] = p)
=============================================================================
