----------------------------- MODULE Crawl_proof ----------------------------
(* The calls of Crawl keep their books for every site, every depth and     *)
(* every interleaving: no child lacks room for its report, and a call      *)
(* returns after all the calls below it.  Nothing but a call that counted  *)
(* a link another one claimed stops the crawler.  What is found lies       *)
(* within the depth, and on a tree all that does is found.                 *)
EXTENDS Crawl, TLAPS, SequenceTheorems, FiniteSetTheorems, WellFoundedInduction

\* The links p may still claim: those ahead that nobody has claimed, and the
\* one it has found unclaimed and is about to claim, whatever the others do.
ToClaim(p) == {k \in DOMAIN links[UrlOf(p)] :
                 /\ k >= crawl[p].at
                 /\ \/ links[UrlOf(p)][k] \notin found
                    \/ crawl[p].pc = "claim" /\ k = crawl[p].at}

\* A call other than the first was started by the one above it.
Started(p) == /\ Len(p) > 0
              /\ p # <<Root>> => Len(p) > 1 /\ Front(p) \in Calls

\* A call at work has fetched its page; before it has no children.
Fetched(p) == /\ crawl[p].pc = "start" => Children(p) = {}
              /\ crawl[p].pc \in {"loop", "claim", "collect"} =>
                   Len(p) <= MaxDepth /\ UrlOf(p) \in DOMAIN links

\* The child to be started is a new one.
NewChild(p) == crawl[p].pc = "claim" =>
                 AtLink(p) /\ Append(p, Link(p)) \notin Calls

\* What p has counted covers the children it has and may still start.
Counted(p) == crawl[p].pc \in {"loop", "claim"} =>
                Cardinality(Children(p)) + Cardinality(ToClaim(p)) <= crawl[p].want

\* The books of one call.
Room(p) == /\ Cardinality(Children(p)) <= crawl[p].want
           /\ crawl[p].got + crawl[p].reports = Cardinality(Ended(Children(p)))
Outlasts(p) == crawl[p].pc \in {"ready", "end"} => Ended(Children(p)) = Children(p)
Books(p) == /\ Started(p) /\ Fetched(p) /\ NewChild(p) /\ Counted(p)
            /\ Room(p) /\ Outlasts(p)

\* The inductive invariant.
CInv == /\ CrawlTypeOK /\ FoundIsCalled
        /\ <<Root>> \in Calls /\ IsFiniteSet(Calls)
        /\ \A p \in Calls : Books(p)

\* The names of calls.
LEMMA CallNames ==
  ASSUME NEW p \in Seq(Url), Len(p) > 0, NEW u \in Url
  PROVE  /\ Append(p, u) \in Seq(Url) /\ Len(Append(p, u)) = Len(p) + 1
         /\ Front(Append(p, u)) = p /\ UrlOf(Append(p, u)) = u
         /\ Append(p, u) # <<Root>> /\ UrlOf(p) \in Url
<1>1. Append(p, u) \in Seq(Url) /\ Len(Append(p, u)) = Len(p) + 1 /\ Len(p) \in Nat
  BY AppendProperties, LenProperties
<1>2. Append(p, u)[Len(p) + 1] = u /\ \A i \in 1..Len(p) : Append(p, u)[i] = p[i]
  BY AppendProperties
<1>3. SubSeq(Append(p, u), 1, Len(p)) = p
  OBVIOUS
<1>4. Front(Append(p, u)) = p
  BY <1>1, <1>3 DEF Front
<1>5. Append(p, u) # <<Root>>
  <2>1. Len(<<Root>>) = 1
    OBVIOUS
  <2> QED
    BY <1>1, <2>1
<1>6. UrlOf(Append(p, u)) = u /\ UrlOf(p) \in Url
  BY <1>1, <1>2, ElementOfSeq DEF UrlOf, Last
<1> QED
  BY <1>1, <1>4, <1>5, <1>6

\* Sequences of a bounded length.
LEMMA Bounded ==
  ASSUME NEW n \in Nat
  PROVE  \A p : p \in SeqOf(Url, n) <=> p \in Seq(Url) /\ Len(p) <= n
<1>1. ASSUME NEW p, p \in SeqOf(Url, n) PROVE p \in Seq(Url) /\ Len(p) <= n
  <2>1. PICK m \in 0..n : p \in [1..m -> Url]
    BY <1>1 DEF SeqOf
  <2> QED
    BY <2>1
<1>2. ASSUME NEW p \in Seq(Url), Len(p) <= n PROVE p \in SeqOf(Url, n)
  <2>1. p \in [1..Len(p) -> Url] /\ Len(p) \in 0..n
    BY <1>2, LenProperties
  <2> QED
    BY <2>1 DEF SeqOf
<1> QED
  BY <1>1, <1>2

\* What the type invariant says of a call.
LEMMA CallType ==
  ASSUME CInv, NEW p \in Calls
  PROVE  /\ p \in Seq(Url) /\ Len(p) \in Nat \ {0} /\ Len(p) <= MaxDepth + 1
         /\ crawl[p] \in CallState /\ UrlOf(p) \in Url
         /\ UrlOf(p) \in DOMAIN links =>
              /\ links[UrlOf(p)] \in Seq(Url)
              /\ Len(links[UrlOf(p)]) \in Nat
              /\ DOMAIN links[UrlOf(p)] = 1..Len(links[UrlOf(p)])
<1>1. p \in Seq(Url) /\ Len(p) <= MaxDepth + 1 /\ crawl[p] \in CallState
  BY Bounded, DepthAssumption DEF CInv, CrawlTypeOK
<1>2. Len(p) \in Nat \ {0}
  BY <1>1, LenProperties DEF CInv, Books, Started
<1>3. UrlOf(p) \in Url
  BY <1>1, <1>2, ElementOfSeq DEF UrlOf, Last
<1>4. UrlOf(p) \in DOMAIN links => links[UrlOf(p)] \in Seq(Url)
  BY WebAssumption DEF CInv, CrawlTypeOK
<1> QED
  BY <1>1, <1>2, <1>3, <1>4, LenProperties

\* Sets that are counted are finite.
LEMMA Countable ==
  ASSUME CInv, NEW p \in Calls
  PROVE  /\ IsFiniteSet(Children(p)) /\ IsFiniteSet(Ended(Children(p)))
         /\ Cardinality(Children(p)) \in Nat /\ Cardinality(Ended(Children(p))) \in Nat
         /\ Ended(Children(p)) \subseteq Children(p)
         /\ Cardinality(Ended(Children(p))) = Cardinality(Children(p))
              => Ended(Children(p)) = Children(p)
         /\ UrlOf(p) \in DOMAIN links =>
              IsFiniteSet(ToClaim(p)) /\ Cardinality(ToClaim(p)) \in Nat
<1>1. IsFiniteSet(Calls) /\ Children(p) \subseteq Calls /\ Ended(Children(p)) \subseteq Children(p)
  BY DEF CInv, Children, Ended
<1>2. IsFiniteSet(Children(p))
  BY <1>1, FS_Subset
<1>3. /\ IsFiniteSet(Ended(Children(p)))
      /\ Cardinality(Children(p)) = Cardinality(Ended(Children(p)))
           => Children(p) = Ended(Children(p))
  BY <1>1, <1>2, FS_Subset
<1>4. ASSUME UrlOf(p) \in DOMAIN links PROVE IsFiniteSet(ToClaim(p))
  <2>1. /\ Len(links[UrlOf(p)]) \in Int /\ 1 \in Int
        /\ ToClaim(p) \subseteq 1..Len(links[UrlOf(p)])
    BY <1>4, CallType DEF ToClaim
  <2>2. IsFiniteSet(1..Len(links[UrlOf(p)]))
    BY <2>1, FS_Interval
  <2> QED
    BY <2>1, <2>2, FS_Subset
<1> QED
  BY <1>1, <1>2, <1>3, <1>4, FS_CardinalityType

\* The first call.
LEMMA InitCInv == CrawlInit => CInv
<1> SUFFICES ASSUME CrawlInit PROVE CInv
  OBVIOUS
<1>1. Calls = {<<Root>>} /\ crawl[<<Root>>] = NewCall /\ crawl \in [Calls -> {NewCall}]
  BY DEF CrawlInit, Calls
<1>2. NewCall \in CallState /\ NewCall.pc = "start" /\ NewCall.want = 0
      /\ NewCall.got = 0 /\ NewCall.reports = 0
  BY DEF NewCall, CallState
<1>3. <<Root>> \in Seq(Url) /\ Len(<<Root>>) = 1 /\ <<Root>>[1] = Root
  BY RootAssumption
<1>4. CrawlTypeOK
  <2>1. <<Root>> \in SeqOf(Url, MaxDepth + 1)
    <3>1. MaxDepth + 1 \in Nat /\ Len(<<Root>>) <= MaxDepth + 1
      BY <1>3, DepthAssumption
    <3> QED
      BY <1>3, <3>1, Bounded
  <2>2. crawl \in [Calls -> CallState]
    BY <1>1, <1>2
  <2> QED
    BY <1>1, <2>1, <2>2, RootAssumption DEF CrawlInit, CrawlTypeOK
<1>5. FoundIsCalled
  BY <1>1, <1>3 DEF CrawlInit, FoundIsCalled, UrlOf, Last
<1>6. IsFiniteSet(Calls)
  BY <1>1, FS_Singleton
<1>7. Children(<<Root>>) = {} /\ Ended(Children(<<Root>>)) = {}
  BY <1>1, <1>3 DEF Children, Ended
<1>8. Cardinality({}) = 0
  BY FS_EmptySet
<1>9. Books(<<Root>>)
  BY <1>1, <1>2, <1>3, <1>7, <1>8
     DEF Books, Started, Fetched, NewChild, Counted, Room, Outlasts
<1> QED
  BY <1>1, <1>4, <1>5, <1>6, <1>9 DEF CInv

\* A call other than p keeps its books when p goes on within itself.
LEMMA OthersKept ==
  ASSUME CInv, NEW p \in Calls, NEW q \in Calls, q # p,
         UNCHANGED <<links, found>>, Calls' = Calls,
         \A r \in Calls : r # p => crawl'[r] = crawl[r],
         crawl[p].pc # "end", crawl'[p].pc # "end"
  PROVE  Books(q)'
<1>1. Books(q) /\ crawl'[q] = crawl[q]
  BY DEF CInv
<1>2. Children(q)' = Children(q)
  BY DEF Children
<1>3. Ended(Children(q))' = Ended(Children(q))
  <2>1. \A r \in Children(q) : r \in Calls /\ (crawl'[r].pc = "end" <=> crawl[r].pc = "end")
    BY DEF Children
  <2> QED
    BY <1>2, <2>1 DEF Ended
<1>4. ToClaim(q)' = ToClaim(q) /\ AtLink(q)' = AtLink(q) /\ Link(q)' = Link(q)
  BY <1>1 DEF ToClaim, AtLink, Link
<1> QED
  BY <1>1, <1>2, <1>3, <1>4
     DEF Books, Started, Fetched, NewChild, Counted, Room, Outlasts

\* p goes on within itself, to the state x.
LEMMA LocalStep ==
  ASSUME CInv, NEW p \in Calls, NEW x \in CallState,
         crawl' = [crawl EXCEPT ![p] = x], UNCHANGED <<links, found, returned>>,
         crawl[p].pc # "end", x.pc \notin {"start", "end"},
         x.got + x.reports = crawl[p].got + crawl[p].reports,
         Cardinality(Children(p)) <= x.want,
         x.pc \in {"loop", "claim", "collect"} =>
           Len(p) <= MaxDepth /\ UrlOf(p) \in DOMAIN links,
         x.pc = "claim" => /\ x.at <= Len(links[UrlOf(p)])
                           /\ Append(p, links[UrlOf(p)][x.at]) \notin Calls,
         x.pc \in {"loop", "claim"} =>
           \E T : /\ \A k \in DOMAIN links[UrlOf(p)] :
                        /\ k >= x.at
                        /\ links[UrlOf(p)][k] \notin found \/ (x.pc = "claim" /\ k = x.at)
                        => k \in T
                 /\ IsFiniteSet(T)
                 /\ Cardinality(Children(p)) + Cardinality(T) <= x.want,
         x.pc = "ready" => Ended(Children(p)) = Children(p)
  PROVE  CInv'
<1>1. /\ Calls' = Calls /\ crawl'[p] = x /\ crawl' \in [Calls -> CallState]
      /\ \A r \in Calls : r # p => crawl'[r] = crawl[r]
  BY DEF CInv, CrawlTypeOK, Calls
<1>2. CrawlTypeOK'
  BY <1>1 DEF CInv, CrawlTypeOK
<1>3. FoundIsCalled' /\ <<Root>> \in Calls' /\ IsFiniteSet(Calls)'
  BY <1>1 DEF CInv, FoundIsCalled
<1>4. \A q \in Calls : q # p => Books(q)'
  BY <1>1, OthersKept
<1>5. Books(p)'
  <2>1. Books(p)
    BY DEF CInv
  <2>2. Children(p)' = Children(p)
    BY <1>1 DEF Children
  <2>3. Ended(Children(p))' = Ended(Children(p))
    <3>1. \A r \in Children(p) : r \in Calls /\ (crawl'[r].pc = "end" <=> crawl[r].pc = "end")
      BY <1>1 DEF Children
    <3> QED
      BY <2>2, <3>1 DEF Ended
  <2>4. Started(p)' /\ Fetched(p)' /\ Outlasts(p)' /\ Room(p)'
    BY <1>1, <2>1, <2>2, <2>3 DEF Books, Started, Fetched, Outlasts, Room
  <2>5. NewChild(p)'
    BY <1>1 DEF NewChild, AtLink, Link
  <2>6. Counted(p)'
    <3> SUFFICES ASSUME x.pc \in {"loop", "claim"}
                 PROVE  Cardinality(Children(p)) + Cardinality(ToClaim(p)') <= x.want
      BY <1>1, <2>2 DEF Counted
    <3>1. PICK T : /\ \A k \in DOMAIN links[UrlOf(p)] :
                        /\ k >= x.at
                        /\ links[UrlOf(p)][k] \notin found \/ (x.pc = "claim" /\ k = x.at)
                        => k \in T
                   /\ IsFiniteSet(T)
                   /\ Cardinality(Children(p)) + Cardinality(T) <= x.want
      OBVIOUS
    <3>2. ToClaim(p)' \subseteq T
      <4> SUFFICES ASSUME NEW k \in ToClaim(p)' PROVE k \in T
        OBVIOUS
      <4>1. /\ k \in DOMAIN links[UrlOf(p)] /\ k >= x.at
            /\ \/ links[UrlOf(p)][k] \notin found
               \/ x.pc = "claim" /\ k = x.at
        BY <1>1 DEF ToClaim
      <4> QED
        BY <3>1, <4>1
    <3>3. /\ Cardinality(ToClaim(p)') <= Cardinality(T)
          /\ Cardinality(ToClaim(p)') \in Nat /\ Cardinality(T) \in Nat
      BY <3>1, <3>2, FS_Subset, FS_CardinalityType
    <3>4. Cardinality(Children(p)) \in Nat /\ x.want \in Nat
      BY Countable DEF CallState
    <3> QED
      BY <3>1, <3>3, <3>4
  <2> QED
    BY <2>4, <2>5, <2>6 DEF Books
<1> QED
  BY <1>1, <1>2, <1>3, <1>4, <1>5 DEF CInv

\* The books of the call that takes the step.
LEMMA Mine ==
  ASSUME CInv, NEW p \in Calls
  PROVE  /\ Started(p) /\ Fetched(p) /\ NewChild(p) /\ Counted(p)
         /\ Room(p) /\ Outlasts(p)
BY DEF CInv, Books

\* A call that gives up has no children to wait for.
LEMMA GiveUpKeeps ==
  ASSUME CInv, NEW p \in Calls, GiveUp(p) PROVE CInv'
<1>1. PICK x : x = [crawl[p] EXCEPT !.pc = "ready"]
  OBVIOUS
<1>2. /\ crawl[p] \in CallState /\ x \in CallState /\ x.pc = "ready"
      /\ x.got = crawl[p].got /\ x.reports = crawl[p].reports /\ x.want = crawl[p].want
  BY <1>1, CallType DEF CallState
<1>3. crawl' = [crawl EXCEPT ![p] = x] /\ UNCHANGED <<links, found, returned>>
      /\ crawl[p].pc = "start"
  BY <1>1 DEF GiveUp, Goto
<1>4. Children(p) = {} /\ Ended(Children(p)) = {}
  BY <1>3, Mine DEF Fetched, Ended
<1>5. Cardinality(Children(p)) <= x.want
  BY <1>2, Mine DEF Room
<1> QED
  BY <1>2, <1>3, <1>4, <1>5, LocalStep

\* What is counted is what may still be claimed.
LEMMA FetchKeeps ==
  ASSUME CInv, NEW p \in Calls, Fetch(p) PROVE CInv'
<1>1. PICK T : T = Unclaimed(UrlOf(p))
  OBVIOUS
<1>2. PICK x : x = [crawl[p] EXCEPT !.pc = "loop", !.want = Cardinality(T)]
  OBVIOUS
<1>3. crawl' = [crawl EXCEPT ![p] = x] /\ UNCHANGED <<links, found, returned>>
      /\ crawl[p].pc = "start" /\ UrlOf(p) \in DOMAIN links
  BY <1>1, <1>2 DEF Fetch, Exists
<1>4. IsFiniteSet(T) /\ Cardinality(T) \in Nat
  <2>1. T \subseteq 1..Len(links[UrlOf(p)]) /\ Len(links[UrlOf(p)]) \in Int /\ 1 \in Int
    BY <1>1, <1>3, CallType DEF Unclaimed
  <2>2. IsFiniteSet(1..Len(links[UrlOf(p)]))
    BY <2>1, FS_Interval
  <2> QED
    BY <2>1, <2>2, FS_Subset, FS_CardinalityType
<1>5. /\ crawl[p] \in CallState /\ x \in CallState /\ x.pc = "loop"
      /\ x.got = crawl[p].got /\ x.reports = crawl[p].reports /\ x.want = Cardinality(T)
  BY <1>2, <1>4, CallType DEF CallState
<1>6. Cardinality(Children(p)) = 0
  BY <1>3, Mine, FS_EmptySet DEF Fetched
<1>7. \A k \in DOMAIN links[UrlOf(p)] : links[UrlOf(p)][k] \notin found => k \in T
  BY <1>1 DEF Unclaimed
<1>8. Len(p) <= MaxDepth
  <2>1. Depth(p) > 0 /\ Len(p) \in Nat
    BY CallType DEF Fetch
  <2> QED
    BY <2>1, DepthAssumption DEF Depth
<1>9. /\ Cardinality(Children(p)) <= x.want
      /\ Cardinality(Children(p)) + Cardinality(T) <= x.want
  BY <1>4, <1>5, <1>6
<1> QED
  BY <1>3, <1>4, <1>5, <1>7, <1>8, <1>9, LocalStep

\* The link passed, or about to be claimed, has been counted.
LEMMA TestKeeps ==
  ASSUME CInv, NEW p \in Calls, Test(p) PROVE CInv'
<1>1. /\ crawl[p] \in CallState /\ crawl[p].pc = "loop" /\ AtLink(p)
      /\ UrlOf(p) \in DOMAIN links /\ Len(p) <= MaxDepth
      /\ UNCHANGED <<links, found, returned>>
  BY CallType, Mine DEF Test, Fetched
<1>2. IsFiniteSet(ToClaim(p)) /\ Cardinality(Children(p)) \in Nat /\ Cardinality(ToClaim(p)) \in Nat
  BY <1>1, Countable
<1>3. /\ Cardinality(Children(p)) <= crawl[p].want
      /\ Cardinality(Children(p)) + Cardinality(ToClaim(p)) <= crawl[p].want
  BY <1>1, Mine DEF Room, Counted
<1>4. /\ links[UrlOf(p)] \in Seq(Url) /\ crawl[p].at \in 1..Len(links[UrlOf(p)])
      /\ DOMAIN links[UrlOf(p)] = 1..Len(links[UrlOf(p)]) /\ Len(links[UrlOf(p)]) \in Nat
      /\ Link(p) \in Url
  BY <1>1, CallType DEF AtLink, CallState, Link
<1>5. CASE Link(p) \in found
  <2>1. PICK x : x = [crawl[p] EXCEPT !.at = @ + 1]
    OBVIOUS
  <2>2. /\ x \in CallState /\ x.pc = "loop" /\ x.at = crawl[p].at + 1
        /\ x.got = crawl[p].got /\ x.reports = crawl[p].reports /\ x.want = crawl[p].want
    BY <1>1, <2>1 DEF CallState
  <2>3. crawl' = [crawl EXCEPT ![p] = x]
    BY <1>5, <2>1 DEF Test
  <2>4. \A k \in DOMAIN links[UrlOf(p)] :
          k >= x.at /\ links[UrlOf(p)][k] \notin found => k \in ToClaim(p)
    BY <1>4, <2>2 DEF ToClaim
  <2> QED
    BY <1>1, <1>2, <1>3, <2>2, <2>3, <2>4, LocalStep
<1>6. CASE Link(p) \notin found
  <2>1. PICK x : x = [crawl[p] EXCEPT !.pc = "claim"]
    OBVIOUS
  <2>2. /\ x \in CallState /\ x.pc = "claim" /\ x.at = crawl[p].at
        /\ x.got = crawl[p].got /\ x.reports = crawl[p].reports /\ x.want = crawl[p].want
    BY <1>1, <2>1 DEF CallState
  <2>3. crawl' = [crawl EXCEPT ![p] = x]
    BY <1>6, <2>1 DEF Test, Goto
  <2>4. \A k \in DOMAIN links[UrlOf(p)] :
          k >= x.at /\ (links[UrlOf(p)][k] \notin found \/ k = x.at) => k \in ToClaim(p)
    BY <1>4, <1>6, <2>2 DEF ToClaim, Link
  <2>5. Append(p, Link(p)) \notin Calls
    <3>1. UrlOf(Append(p, Link(p))) = Link(p)
      BY <1>4, CallType, CallNames
    <3> QED
      BY <1>6, <3>1 DEF CInv, FoundIsCalled
  <2>6. x.at <= Len(links[UrlOf(p)]) /\ Append(p, links[UrlOf(p)][x.at]) \notin Calls
    BY <1>4, <2>2, <2>5 DEF Link
  <2> QED
    BY <1>1, <1>2, <1>3, <2>2, <2>3, <2>4, <2>6, LocalStep
<1> QED
  BY <1>5, <1>6

\* Nothing more is claimed.
LEMMA LoopEndsKeeps ==
  ASSUME CInv, NEW p \in Calls, LoopEnds(p) PROVE CInv'
<1>1. PICK x : x = [crawl[p] EXCEPT !.pc = "collect"]
  OBVIOUS
<1>2. /\ crawl[p] \in CallState /\ x \in CallState /\ x.pc = "collect"
      /\ x.got = crawl[p].got /\ x.reports = crawl[p].reports /\ x.want = crawl[p].want
  BY <1>1, CallType DEF CallState
<1>3. /\ crawl' = [crawl EXCEPT ![p] = x] /\ UNCHANGED <<links, found, returned>>
      /\ crawl[p].pc = "loop"
  BY <1>1 DEF LoopEnds, Goto
<1>4. /\ Cardinality(Children(p)) <= x.want
      /\ Len(p) <= MaxDepth /\ UrlOf(p) \in DOMAIN links
  BY <1>2, <1>3, Mine DEF Room, Fetched
<1> QED
  BY <1>2, <1>3, <1>4, LocalStep

\* A report is taken; all of them are in when every child has ended.
LEMMA CollectKeeps ==
  ASSUME CInv, NEW p \in Calls, Collect(p) PROVE CInv'
<1>1. /\ crawl[p] \in CallState /\ crawl[p].pc = "collect"
      /\ UrlOf(p) \in DOMAIN links /\ Len(p) <= MaxDepth
      /\ Cardinality(Children(p)) <= crawl[p].want
      /\ crawl[p].got + crawl[p].reports = Cardinality(Ended(Children(p)))
      /\ UNCHANGED <<links, found, returned>>
  BY CallType, Mine DEF Collect, Fetched, Room
<1>2. CASE crawl[p].reports > 0 /\
           crawl' = [crawl EXCEPT ![p].got = @ + 1, ![p].reports = @ - 1]
  <2>1. PICK x : x = [crawl[p] EXCEPT !.got = @ + 1, !.reports = @ - 1]
    OBVIOUS
  <2>2. /\ x \in CallState /\ x.pc = "collect" /\ x.want = crawl[p].want
        /\ x.got = crawl[p].got + 1 /\ x.reports = crawl[p].reports - 1
    <3>1. crawl[p].got + 1 \in Nat /\ crawl[p].reports - 1 \in Nat
      BY <1>1, <1>2 DEF CallState
    <3> QED
      BY <1>1, <2>1, <3>1 DEF CallState
  <2>3. x.got + x.reports = crawl[p].got + crawl[p].reports
    BY <1>1, <2>2 DEF CallState
  <2>4. crawl' = [crawl EXCEPT ![p] = x]
    BY <1>2, <2>1
  <2> QED
    BY <1>1, <2>2, <2>3, <2>4, LocalStep
<1>3. CASE crawl[p].got = crawl[p].want /\ Goto(p, "ready")
  <2>1. PICK x : x = [crawl[p] EXCEPT !.pc = "ready"]
    OBVIOUS
  <2>2. /\ x \in CallState /\ x.pc = "ready"
        /\ x.got = crawl[p].got /\ x.reports = crawl[p].reports /\ x.want = crawl[p].want
    BY <1>1, <2>1 DEF CallState
  <2>3. crawl' = [crawl EXCEPT ![p] = x]
    BY <1>3, <2>1 DEF Goto
  <2>4. Ended(Children(p)) = Children(p)
    <3>1. /\ IsFiniteSet(Children(p)) /\ Ended(Children(p)) \subseteq Children(p)
          /\ Cardinality(Children(p)) \in Nat /\ Cardinality(Ended(Children(p))) \in Nat
      BY Countable
    <3>2. Cardinality(Ended(Children(p))) <= Cardinality(Children(p))
      BY <3>1, FS_Subset
    <3>3. crawl[p].got \in Nat /\ crawl[p].reports \in Nat
      BY <1>1 DEF CallState
    <3>4. Cardinality(Ended(Children(p))) = Cardinality(Children(p))
      BY <1>1, <1>3, <3>1, <3>2, <3>3
    <3> QED
      BY <3>4, Countable
  <2> QED
    BY <1>1, <2>2, <2>3, <2>4, LocalStep
<1> QED
  BY <1>2, <1>3 DEF Collect

\* The child is a new call, and the books of all others hold with it.
LEMMA ClaimKeeps ==
  ASSUME CInv, NEW p \in Calls, Claim(p) PROVE CInv'
<1>1. PICK c : c = Append(p, Link(p))
  OBVIOUS
<1>2. PICK x : x = [crawl[p] EXCEPT !.pc = "loop", !.at = @ + 1]
  OBVIOUS
<1>3. /\ crawl[p] \in CallState /\ crawl[p].pc = "claim" /\ AtLink(p)
      /\ UrlOf(p) \in DOMAIN links /\ Len(p) <= MaxDepth
      /\ UNCHANGED <<links, returned>> /\ found' = found \union {Link(p)}
      /\ c \notin Calls
  BY <1>1, CallType, Mine DEF Claim, Fetched, NewChild
<1>4. /\ links[UrlOf(p)] \in Seq(Url) /\ crawl[p].at \in 1..Len(links[UrlOf(p)])
      /\ DOMAIN links[UrlOf(p)] = 1..Len(links[UrlOf(p)]) /\ Len(links[UrlOf(p)]) \in Nat
      /\ Link(p) \in Url
  BY <1>3, CallType DEF AtLink, CallState, Link
<1>5. /\ c \in Seq(Url) /\ Len(c) = Len(p) + 1 /\ Front(c) = p /\ UrlOf(c) = Link(p)
      /\ c # <<Root>> /\ Len(p) \in Nat \ {0}
  BY <1>1, <1>4, CallType, CallNames
<1>6. /\ x \in CallState /\ x.pc = "loop" /\ x.at = crawl[p].at + 1
      /\ x.got = crawl[p].got /\ x.reports = crawl[p].reports /\ x.want = crawl[p].want
  <2>1. crawl[p].at + 1 \in Nat \ {0}
    BY <1>3 DEF CallState
  <2> QED
    BY <1>2, <1>3, <2>1 DEF CallState
<1>7. NewCall \in CallState /\ NewCall.pc = "start" /\ NewCall.want = 0
      /\ NewCall.got = 0 /\ NewCall.reports = 0
  BY DEF NewCall, CallState
<1>8. /\ Calls' = Calls \union {c} /\ crawl'[c] = NewCall /\ crawl'[p] = x
      /\ \A q \in Calls : q # p => crawl'[q] = crawl[q]
      /\ crawl' \in [Calls' -> CallState]
  <2>1. crawl' = [q \in Calls \union {c} |->
                    IF q = c THEN NewCall ELSE IF q = p THEN x ELSE crawl[q]]
    BY <1>1, <1>2 DEF Claim
  <2>2. Calls' = Calls \union {c}
    BY <2>1 DEF Calls
  <2>3. \A q \in Calls : crawl[q] \in CallState
    BY CallType
  <2> QED
    BY <1>3, <1>6, <1>7, <2>1, <2>2, <2>3
<1>9. CrawlTypeOK' /\ FoundIsCalled' /\ <<Root>> \in Calls' /\ IsFiniteSet(Calls)'
  <2>1. found' \in SUBSET Url
    BY <1>3, <1>4 DEF CInv, CrawlTypeOK
  <2>2. c \in SeqOf(Url, MaxDepth + 1)
    <3>1. MaxDepth + 1 \in Nat /\ Len(c) <= MaxDepth + 1
      BY <1>3, <1>5, DepthAssumption
    <3> QED
      BY <1>5, <3>1, Bounded
  <2>3. CrawlTypeOK'
    BY <1>3, <1>8, <2>1, <2>2 DEF CInv, CrawlTypeOK
  <2>4. FoundIsCalled'
    BY <1>3, <1>5, <1>8 DEF CInv, FoundIsCalled
  <2>5. IsFiniteSet(Calls)'
    BY <1>8, FS_AddElement DEF CInv
  <2> QED
    BY <1>8, <2>3, <2>4, <2>5 DEF CInv
<1>10. \A q \in Calls : Children(q)' = IF q = p THEN Children(p) \union {c} ELSE Children(q)
  BY <1>5, <1>8 DEF Children
<1>11. \A q \in Calls : Ended(Children(q))' = Ended(Children(q))
  <2> SUFFICES ASSUME NEW q \in Calls PROVE Ended(Children(q))' = Ended(Children(q))
    OBVIOUS
  <2>1. \A r \in Children(q) : r \in Calls /\ (crawl'[r].pc = "end" <=> crawl[r].pc = "end")
    BY <1>3, <1>6, <1>8 DEF Children
  <2>2. crawl'[c].pc # "end"
    BY <1>7, <1>8
  <2>3. /\ Ended(Children(q)) = {r \in Children(q) : crawl[r].pc = "end"}
        /\ Ended(Children(q))' = {r \in Children(q)' : crawl'[r].pc = "end"}
    BY DEF Ended
  <2> QED
    BY <1>10, <2>1, <2>2, <2>3
<1>12. ASSUME NEW q \in Calls, q # p PROVE Books(q)'
  <2>1. crawl'[q] = crawl[q] /\ Children(q)' = Children(q) /\ Ended(Children(q))' = Ended(Children(q))
    BY <1>8, <1>10, <1>11, <1>12
  <2>2. Started(q)' /\ Fetched(q)' /\ Room(q)' /\ Outlasts(q)'
    BY <1>3, <1>8, <1>12, <2>1, Mine DEF Started, Fetched, Room, Outlasts
  <2>3. NewChild(q)'
    <3> SUFFICES ASSUME crawl[q].pc = "claim"
                 PROVE  AtLink(q)' /\ Append(q, Link(q))' \notin Calls'
      BY <2>1 DEF NewChild
    <3>1. AtLink(q) /\ Append(q, Link(q)) \notin Calls
      BY Mine DEF NewChild
    <3>2. AtLink(q)' /\ Link(q)' = Link(q)
      BY <1>3, <2>1, <3>1 DEF AtLink, Link
    <3>3. Link(q) \in Url /\ q \in Seq(Url) /\ Len(q) > 0
      <4>1. UrlOf(q) \in DOMAIN links
        BY Mine DEF Fetched
      <4> QED
        BY <3>1, <4>1, CallType, ElementOfSeq DEF AtLink, Link, CallState
    <3>4. Front(Append(q, Link(q))) = q
      BY <3>3, CallNames
    <3> QED
      BY <1>5, <1>8, <1>12, <3>1, <3>2, <3>4
  <2>4. Counted(q)'
    <3> SUFFICES ASSUME crawl[q].pc \in {"loop", "claim"}
                 PROVE  Cardinality(Children(q)) + Cardinality(ToClaim(q)') <= crawl[q].want
      BY <2>1 DEF Counted
    <3>1. ToClaim(q)' \subseteq ToClaim(q)
      BY <1>3, <2>1 DEF ToClaim
    <3>2. /\ IsFiniteSet(ToClaim(q)) /\ Cardinality(ToClaim(q)) \in Nat
          /\ Cardinality(Children(q)) \in Nat
      BY Countable, Mine DEF Fetched
    <3>3. Cardinality(ToClaim(q)') <= Cardinality(ToClaim(q)) /\ Cardinality(ToClaim(q)') \in Nat
      BY <3>1, <3>2, FS_Subset, FS_CardinalityType
    <3>4. /\ Cardinality(Children(q)) + Cardinality(ToClaim(q)) <= crawl[q].want
          /\ crawl[q].want \in Nat
      BY Mine, CallType DEF Counted, CallState
    <3> QED
      BY <3>2, <3>3, <3>4
  <2> QED
    BY <2>2, <2>3, <2>4 DEF Books
<1>13. Books(p)'
  <2>1. Children(p)' = Children(p) \union {c} /\ c \notin Children(p)
    BY <1>3, <1>10 DEF Children
  <2>2. /\ IsFiniteSet(Children(p)) /\ Cardinality(Children(p)) \in Nat
        /\ IsFiniteSet(ToClaim(p)) /\ Cardinality(ToClaim(p)) \in Nat
    BY <1>3, Countable
  <2>3. Cardinality(Children(p)') = Cardinality(Children(p)) + 1
    BY <2>1, <2>2, FS_AddElement
  <2>4. Cardinality(ToClaim(p)') <= Cardinality(ToClaim(p)) - 1 /\ Cardinality(ToClaim(p)') \in Nat
    <3>1. crawl[p].at \in ToClaim(p)
      BY <1>3, <1>4 DEF ToClaim
    <3>2. ToClaim(p)' \subseteq ToClaim(p) \ {crawl[p].at}
      BY <1>3, <1>4, <1>6, <1>8 DEF ToClaim
    <3>3. /\ IsFiniteSet(ToClaim(p) \ {crawl[p].at})
          /\ Cardinality(ToClaim(p) \ {crawl[p].at}) = Cardinality(ToClaim(p)) - 1
      BY <2>2, <3>1, FS_RemoveElement
    <3> QED
      BY <3>2, <3>3, FS_Subset, FS_CardinalityType
  <2>5. /\ Cardinality(Children(p)) + Cardinality(ToClaim(p)) <= crawl[p].want
        /\ crawl[p].want \in Nat
    BY <1>3, Mine DEF Counted, CallState
  <2>6. Cardinality(Children(p)') + Cardinality(ToClaim(p)') <= x.want
        /\ Cardinality(Children(p)') <= x.want
    BY <1>6, <2>2, <2>3, <2>4, <2>5
  <2>7. Counted(p)' /\ Room(p)'
    BY <1>6, <1>8, <1>11, <2>6, Mine DEF Counted, Room
  <2>8. Started(p)'
    BY <1>8, Mine DEF Started
  <2>9. Fetched(p)' /\ NewChild(p)' /\ Outlasts(p)'
    BY <1>3, <1>6, <1>8 DEF Fetched, NewChild, Outlasts
  <2> QED
    BY <2>7, <2>8, <2>9 DEF Books
<1>14. Books(c)'
  <2>1. Children(c)' = {}
    <3> SUFFICES ASSUME NEW r \in Calls', Len(r) = Len(c) + 1, Front(r) = c PROVE FALSE
      BY DEF Children
    <3>1. r # c
      BY <1>5
    <3>2. r \in Calls
      BY <1>8, <3>1
    <3>3. r # <<Root>>
      <4>1. Len(r) # 1
        BY <1>5
      <4> QED
        BY <4>1
    <3> QED
      BY <1>3, <3>2, <3>3, Mine DEF Started
  <2>2. Ended(Children(c))' = {}
    BY <2>1 DEF Ended
  <2>3. Cardinality({}) = 0
    BY FS_EmptySet
  <2>4. Started(c)'
    BY <1>5, <1>8 DEF Started
  <2>5. Fetched(c)' /\ NewChild(c)' /\ Counted(c)' /\ Outlasts(c)'
    BY <1>7, <1>8, <2>1 DEF Fetched, NewChild, Counted, Outlasts
  <2>6. Room(c)'
    BY <1>7, <1>8, <2>1, <2>2, <2>3 DEF Room
  <2> QED
    BY <2>4, <2>5, <2>6 DEF Books
<1> QED
  BY <1>8, <1>9, <1>12, <1>13, <1>14 DEF CInv

\* The report of p goes to the call that waits for it.
LEMMA ReadyKeeps ==
  ASSUME CInv, NEW p \in Calls, Ready(p) PROVE CInv'
<1>1. PICK x : x = [crawl[p] EXCEPT !.pc = "end"]
  OBVIOUS
<1>2. /\ crawl[p] \in CallState /\ crawl[p].pc = "ready" /\ x \in CallState /\ x.pc = "end"
      /\ x.got = crawl[p].got /\ x.reports = crawl[p].reports /\ x.want = crawl[p].want
      /\ UNCHANGED <<links, found, returned>>
  BY <1>1, CallType DEF CallState, Ready
<1>3. Ended(Children(p)) = Children(p) /\ p \in Seq(Url) /\ Len(p) \in Nat \ {0}
  BY <1>2, Mine, CallType DEF Outlasts
<1>4. \A q \in Calls : p \in Children(q) <=> p # <<Root>> /\ q = Front(p)
  <2>1. ASSUME NEW q \in Calls, p \in Children(q) PROVE p # <<Root>> /\ q = Front(p)
    <3>1. Len(p) = Len(q) + 1 /\ Front(p) = q /\ Len(q) \in Nat \ {0}
      BY <2>1, CallType DEF Children
    <3>2. Len(p) # 1
      BY <3>1
    <3> QED
      BY <3>1, <3>2
  <2>2. ASSUME p # <<Root>> PROVE p \in Children(Front(p))
    <3>1. Len(p) > 1
      BY <2>2, Mine DEF Started
    <3>2. Len(Front(p)) = Len(p) - 1
      BY <1>3, <3>1, SubSeqProperties DEF Front
    <3> QED
      BY <1>3, <3>2 DEF Children
  <2> QED
    BY <2>1, <2>2
\* Only the parent, if there is one, is touched besides p.
<1>5. \E r \in Calls \union {<<>>} :
        /\ \A q \in Calls : q = r <=> p \in Children(q)
        /\ r # p
        /\ crawl' = [q \in Calls |-> IF q = p THEN x
                                     ELSE IF q = r
                                     THEN [crawl[q] EXCEPT !.reports = @ + 1]
                                     ELSE crawl[q]]
  <2>0. crawl \in [Calls -> CallState] /\ \A q \in Calls : q # <<>>
    <3>1. \A q \in Calls : Len(q) # 0
      BY CallType
    <3> QED
      BY <3>1 DEF CInv, CrawlTypeOK
  <2>1. CASE p = <<Root>>
    <3>1. crawl' = [crawl EXCEPT ![p] = x]
      BY <1>1, <2>1 DEF Ready, Goto
    <3>2. crawl' = [q \in Calls |-> IF q = p THEN x
                                   ELSE IF q = <<>>
                                   THEN [crawl[q] EXCEPT !.reports = @ + 1]
                                   ELSE crawl[q]]
      BY <2>0, <3>1
    <3>3. \A q \in Calls : p \notin Children(q)
      BY <1>4, <2>1
    <3> QED
      BY <2>0, <3>2, <3>3
  <2>2. CASE p # <<Root>>
    <3>1. PICK r : r = Front(p)
      OBVIOUS
    <3>2. r \in Calls /\ p \in Children(r)
      BY <1>4, <2>2, <3>1, Mine DEF Started
    <3>3. r # p
      BY <3>2, CallType DEF Children
    <3>4. crawl' = [crawl EXCEPT ![p].pc = "end", ![r].reports = @ + 1]
      BY <2>2, <3>1 DEF Ready
    <3>5. crawl' = [q \in Calls |-> IF q = p THEN x
                                   ELSE IF q = r
                                   THEN [crawl[q] EXCEPT !.reports = @ + 1]
                                   ELSE crawl[q]]
      BY <1>1, <2>0, <3>2, <3>3, <3>4
    <3> QED
      BY <1>4, <2>2, <3>1, <3>2, <3>3, <3>5
  <2> QED
    BY <2>1, <2>2
<1>6. PICK r \in Calls \union {<<>>} :
        /\ \A q \in Calls : q = r <=> p \in Children(q)
        /\ r # p
        /\ crawl' = [q \in Calls |-> IF q = p THEN x
                                     ELSE IF q = r
                                     THEN [crawl[q] EXCEPT !.reports = @ + 1]
                                     ELSE crawl[q]]
  BY <1>5
<1>7. /\ Calls' = Calls /\ crawl' \in [Calls -> CallState] /\ crawl'[p] = x
      /\ \A q \in Calls : q # p =>
           /\ crawl'[q].pc = crawl[q].pc /\ crawl'[q].at = crawl[q].at
           /\ crawl'[q].want = crawl[q].want /\ crawl'[q].got = crawl[q].got
           /\ crawl'[q].reports = crawl[q].reports + IF q = r THEN 1 ELSE 0
  <2>1. \A q \in Calls : crawl[q] \in CallState /\ crawl[q].reports + 1 \in Nat
    BY CallType DEF CallState
  <2>2. Calls' = Calls
    BY <1>6 DEF Calls
  <2>3. \A q \in Calls : [crawl[q] EXCEPT !.reports = @ + 1] \in CallState
    BY <2>1 DEF CallState
  <2>4. crawl' \in [Calls -> CallState] /\ crawl'[p] = x
    BY <1>2, <1>6, <2>1, <2>3
  <2>5. ASSUME NEW q \in Calls, q # p
        PROVE  /\ crawl'[q].pc = crawl[q].pc /\ crawl'[q].at = crawl[q].at
               /\ crawl'[q].want = crawl[q].want /\ crawl'[q].got = crawl[q].got
               /\ crawl'[q].reports = crawl[q].reports + IF q = r THEN 1 ELSE 0
    BY <1>6, <2>1, <2>5 DEF CallState
  <2> QED
    BY <2>2, <2>4, <2>5
<1>8. CrawlTypeOK' /\ FoundIsCalled' /\ <<Root>> \in Calls' /\ IsFiniteSet(Calls)'
  BY <1>2, <1>7 DEF CInv, CrawlTypeOK, FoundIsCalled
<1>9. \A q \in Calls : Children(q)' = Children(q)
  BY <1>7 DEF Children
<1>10. \A q \in Calls : Ended(Children(q))' = IF q = r THEN Ended(Children(q)) \union {p}
                                              ELSE Ended(Children(q))
  <2> SUFFICES ASSUME NEW q \in Calls
               PROVE  Ended(Children(q))' = IF q = r THEN Ended(Children(q)) \union {p}
                                            ELSE Ended(Children(q))
    OBVIOUS
  <2>1. /\ Ended(Children(q)) = {c \in Children(q) : crawl[c].pc = "end"}
        /\ Ended(Children(q))' = {c \in Children(q) : crawl'[c].pc = "end"}
    BY <1>9 DEF Ended
  <2>2. \A c \in Children(q) : c # p => (crawl'[c].pc = "end" <=> crawl[c].pc = "end")
    BY <1>7 DEF Children
  <2>3. crawl'[p].pc = "end"
    BY <1>2, <1>7
  <2>4. q = r <=> p \in Children(q)
    BY <1>6
  <2> QED
    BY <2>1, <2>2, <2>3, <2>4
<1>11. ASSUME NEW q \in Calls PROVE Books(q)'
  <2>1. Started(q)'
    BY <1>7, Mine DEF Started
  <2>2. Fetched(q)'
    BY <1>2, <1>7, <1>9, Mine DEF Fetched
  <2>3. ToClaim(q)' = ToClaim(q) \/ q = p
    BY <1>2, <1>7 DEF ToClaim
  <2>4. Counted(q)'
    BY <1>2, <1>7, <1>9, <2>3, Mine DEF Counted
  <2>5. NewChild(q)'
    BY <1>2, <1>7, Mine DEF NewChild, AtLink, Link
  <2>6. Room(q)'
    <3>1. Cardinality(Children(q)') <= crawl'[q].want
      BY <1>2, <1>7, <1>9, Mine DEF Room
    <3>2. CASE q # r
      <4>1. Ended(Children(q))' = Ended(Children(q))
        BY <1>10, <3>2
      <4>2. crawl'[q].got = crawl[q].got /\ crawl'[q].reports = crawl[q].reports
        <5>1. crawl[q].reports \in Nat
          BY CallType DEF CallState
        <5>2. CASE q = p
          BY <1>2, <1>7, <5>2
        <5>3. CASE q # p
          <6>1. crawl'[q].reports = crawl[q].reports + 0 /\ crawl'[q].got = crawl[q].got
            BY <1>7, <3>2, <5>3
          <6> QED
            BY <5>1, <6>1
        <5> QED
          BY <5>2, <5>3
      <4> QED
        BY <1>9, <3>1, <4>1, <4>2, Mine DEF Room
    <3>3. CASE q = r
      <4>1. /\ Ended(Children(q))' = Ended(Children(q)) \union {p}
            /\ p \notin Ended(Children(q)) /\ IsFiniteSet(Ended(Children(q)))
        BY <1>2, <1>10, <3>3, Countable DEF Ended
      <4>2. Cardinality(Ended(Children(q))') = Cardinality(Ended(Children(q))) + 1
        BY <4>1, FS_AddElement
      <4>3. crawl'[q].got = crawl[q].got /\ crawl'[q].reports = crawl[q].reports + 1
        BY <1>6, <1>7, <3>3
      <4>4. crawl[q].got \in Nat /\ crawl[q].reports \in Nat
        BY CallType DEF CallState
      <4> QED
        BY <3>1, <4>2, <4>3, <4>4, Mine DEF Room
    <3> QED
      BY <3>2, <3>3
  <2>7. Outlasts(q)'
    <3>1. Ended(Children(q))' \subseteq Children(q)'
      BY DEF Ended
    <3>2. CASE q = p
      BY <1>3, <1>6, <1>9, <1>10, <3>2 DEF Outlasts
    <3>3. CASE q # p
      BY <1>7, <1>9, <1>10, <3>1, <3>3, Mine DEF Outlasts
    <3> QED
      BY <3>2, <3>3
  <2> QED
    BY <2>1, <2>2, <2>4, <2>5, <2>6, <2>7 DEF Books
<1> QED
  BY <1>7, <1>8, <1>11 DEF CInv

\* Every step of the crawler keeps the books.
LEMMA NextCInv == CInv /\ [CrawlNext]_crawlVars => CInv'
<1> SUFFICES ASSUME CInv, [CrawlNext]_crawlVars PROVE CInv'
  OBVIOUS
<1>1. ASSUME NEW p \in Calls, Call(p) PROVE CInv'
  BY <1>1, GiveUpKeeps, FetchKeeps, TestKeeps, ClaimKeeps, LoopEndsKeeps, CollectKeeps,
     ReadyKeeps DEF Call
<1>2. CASE UNCHANGED <<links, found, crawl>> /\ returned' \in BOOLEAN
  <2>1. Calls' = Calls /\ CrawlTypeOK' /\ FoundIsCalled'
    BY <1>2 DEF CInv, CrawlTypeOK, FoundIsCalled, Calls
  <2>2. ASSUME NEW p \in Calls PROVE Books(p)'
    <3>1. Children(p)' = Children(p) /\ Ended(Children(p))' = Ended(Children(p))
      BY <1>2, <2>1 DEF Children, Ended
    <3>2. ToClaim(p)' = ToClaim(p)
      BY <1>2 DEF ToClaim
    <3> QED
      BY <1>2, <2>1, <3>1, <3>2, Mine
         DEF Books, Started, Fetched, NewChild, AtLink, Link, Counted, Room, Outlasts
  <2> QED
    BY <2>1, <2>2 DEF CInv
<1>3. CASE MainReturns
  BY <1>2, <1>3 DEF MainReturns
<1>4. CASE UNCHANGED crawlVars
  BY <1>2, <1>4 DEF crawlVars, CInv, CrawlTypeOK
<1> QED
  BY <1>1, <1>3, <1>4 DEF CrawlNext, CrawlProgress

\* A call never starts more children than it has counted, so no child is ever
\* blocked in its deferred send; a call returns only after all the calls
\* below it; and every page found was claimed by one call at least.
THEOREM InvHolds == CrawlSpec => []CrawlInv
<1>1. CInv => CrawlInv
  BY DEF CInv, CrawlInv, RoomForAll, ParentsOutlast, Books, Room, Outlasts
<1> QED
  BY <1>1, InitCInv, NextCInv, PTL DEF CrawlSpec
-----------------------------------------------------------------------------
\* A set of numbers that is not empty has a least one.
LEMMA LeastNat ==
  ASSUME NEW T, T \subseteq Nat, T # {}
  PROVE  \E n \in T : \A m \in T : n <= m
<1> DEFINE R == {p \in Nat \X Nat : p[1] < p[2]}
<1>1. IsWellFoundedOn(R, Nat)
  BY NatLessThanWellFounded DEF OpToRel
<1>2. PICK n \in T : \A m \in T : ~(<<m, n>> \in R)
  BY <1>1, WFMin
<1>3. ASSUME NEW m \in T PROVE n <= m
  <2>1. n \in Nat /\ m \in Nat /\ <<m, n>> \in Nat \X Nat /\ <<m, n>>[1] = m /\ <<m, n>>[2] = n
    OBVIOUS
  <2>2. ~(m < n)
    BY <1>2, <2>1
  <2> QED
    BY <2>1, <2>2
<1> QED
  BY <1>3

\* A call with a child at work has room for its report, and the longest name
\* of a call that waits belongs to one whose children have all ended: it has
\* counted more links than it got to claim.
THEOREM OnlyOvercountStops == CrawlSpec => []StuckIsOvercount
<1>1. CInv => StuckIsOvercount
  <2> DEFINE Over(p) == /\ crawl[p].pc = "collect"
                        /\ Ended(Children(p)) = Children(p)
                        /\ Cardinality(Children(p)) < crawl[p].want
  <2> SUFFICES ASSUME CInv, Stuck PROVE \E p \in Calls : Over(p)
    BY DEF StuckIsOvercount
  <2>1. ASSUME NEW p \in Calls, crawl[p].pc = "ready" PROVE FALSE
    <3>1. PICK q : q = Front(p)
      OBVIOUS
    <3>2. /\ p # <<Root>> /\ q \in Calls /\ Len(p) > 1
          /\ crawl[q].reports >= crawl[q].want
      BY <2>1, <3>1, Mine DEF Stuck, Started
    <3>3. p \in Seq(Url) /\ Len(p) \in Nat
      BY CallType
    <3>4. Len(p) = Len(q) + 1
      BY <3>1, <3>2, <3>3 DEF Front
    <3>5. p \in Children(q) /\ p \notin Ended(Children(q))
      BY <2>1, <3>1, <3>4 DEF Children, Ended
    <3>6. /\ IsFiniteSet(Children(q)) /\ Ended(Children(q)) \subseteq Children(q)
          /\ Cardinality(Children(q)) \in Nat /\ Cardinality(Ended(Children(q))) \in Nat
          /\ Cardinality(Ended(Children(q))) # Cardinality(Children(q))
      BY <3>2, <3>5, Countable
    <3>7. Cardinality(Ended(Children(q))) <= Cardinality(Children(q))
      BY <3>6, FS_Subset
    <3>8. /\ Cardinality(Children(q)) <= crawl[q].want
          /\ crawl[q].got + crawl[q].reports = Cardinality(Ended(Children(q)))
          /\ crawl[q].got \in Nat /\ crawl[q].reports \in Nat /\ crawl[q].want \in Nat
      BY <3>2, Mine, CallType DEF Room, CallState
    <3> QED
      BY <3>2, <3>6, <3>7, <3>8
  <2>2. \A p \in Calls : crawl[p].pc \in {"collect", "end"}
    BY <2>1 DEF Stuck
  <2>3. PICK D : D = {MaxDepth + 1 - Len(p) : p \in {q \in Calls : crawl[q].pc = "collect"}}
    OBVIOUS
  <2>4. D \subseteq Nat /\ D # {}
    <3>1. ASSUME NEW p \in Calls PROVE MaxDepth + 1 - Len(p) \in Nat
      <4>1. Len(p) \in Nat /\ Len(p) <= MaxDepth + 1
        BY CallType
      <4> QED
        BY <4>1, DepthAssumption
    <3>2. <<Root>> \in Calls /\ crawl[<<Root>>].pc = "collect"
      BY <2>2 DEF CInv, Stuck
    <3> QED
      BY <2>3, <3>1, <3>2
  <2>5. PICK n \in D : \A m \in D : n <= m
    BY <2>4, LeastNat
  <2>6. PICK p \in Calls : crawl[p].pc = "collect" /\ n = MaxDepth + 1 - Len(p)
    BY <2>3
  <2>7. ASSUME NEW c \in Children(p) PROVE crawl[c].pc = "end"
    <3>1. c \in Calls /\ Len(c) = Len(p) + 1 /\ Len(p) \in Nat
      BY <2>6, CallType DEF Children
    <3>2. ASSUME crawl[c].pc = "collect" PROVE FALSE
      <4>1. MaxDepth + 1 - Len(c) \in D
        BY <2>3, <3>1, <3>2
      <4>2. MaxDepth + 1 - Len(p) <= MaxDepth + 1 - Len(c)
        BY <2>5, <2>6, <4>1
      <4> QED
        BY <3>1, <4>2, DepthAssumption
    <3> QED
      BY <2>2, <3>1, <3>2
  <2>8. Ended(Children(p)) = Children(p)
    BY <2>7 DEF Ended
  <2>9. /\ crawl[p].got + crawl[p].reports = Cardinality(Children(p))
        /\ Cardinality(Children(p)) <= crawl[p].want
        /\ crawl[p].got # crawl[p].want
        /\ crawl[p].got >= crawl[p].want \/ crawl[p].reports = 0
        /\ crawl[p].got \in Nat /\ crawl[p].reports \in Nat /\ crawl[p].want \in Nat
    BY <2>6, <2>8, Mine, CallType DEF Room, CallState, Stuck
  <2>10. Cardinality(Children(p)) \in Nat
    BY Countable
  <2>11. Cardinality(Children(p)) < crawl[p].want
    BY <2>9, <2>10
  <2> QED
    BY <2>6, <2>8, <2>11
<1> QED
  BY <1>1, InitCInv, NextCInv, PTL DEF CrawlSpec
-----------------------------------------------------------------------------
\* What else a call keeps up.  It is named by a trail: every page of it is
\* linked from the one before, has been found, and comes once, with the link
\* it is about to claim.  The links it has passed are found, all of them when
\* it is through with its page.
OnTrail(p) == /\ p[1] = Root
              /\ \A i, j \in DOMAIN p : p[i] = p[j] => i = j
              /\ \A i \in DOMAIN p : p[i] \in found
              /\ \A i \in 1..(Len(p) - 1) :
                   p[i] \in DOMAIN links /\ p[i + 1] \in ToSet(links[p[i]])
NotBack(p) == crawl[p].pc = "claim" => \A i \in DOMAIN p : p[i] # Link(p)
Followed(p) ==
  Len(p) <= MaxDepth /\ UrlOf(p) \in DOMAIN links =>
    \A k \in DOMAIN links[UrlOf(p)] :
      k < crawl[p].at \/ crawl[p].pc \in {"collect", "ready", "end"}
        => links[UrlOf(p)][k] \in found
Way(p) == OnTrail(p) /\ NotBack(p) /\ Followed(p)

\* The trails of all calls, and when main goes on.
WInv == /\ \A p \in Calls : Way(p)
        /\ returned => crawl[<<Root>>].pc = "end"

\* At the start there is the root and nothing has been followed.
LEMMA InitWInv == CrawlInit => WInv
<1> SUFFICES ASSUME CrawlInit PROVE WInv
  OBVIOUS
<1>1. Calls = {<<Root>>} /\ crawl[<<Root>>] = NewCall /\ found = {Root} /\ ~returned
  BY DEF CrawlInit, Calls
<1>2. DOMAIN <<Root>> = {1} /\ <<Root>>[1] = Root /\ Len(<<Root>>) = 1
  OBVIOUS
<1>3. NewCall.pc = "start" /\ NewCall.at = 1
  BY DEF NewCall
<1>5. UrlOf(<<Root>>) \in DOMAIN links => DOMAIN links[UrlOf(<<Root>>)] \subseteq Nat \ {0}
  <2>1. UrlOf(<<Root>>) = Root
    BY <1>2 DEF UrlOf, Last
  <2>2. Root \in DOMAIN links => links[Root] \in Seq(Url)
    BY WebAssumption DEF CrawlInit
  <2> QED
    BY <2>1, <2>2
<1>4. OnTrail(<<Root>>)
  BY <1>1, <1>2 DEF OnTrail
<1> QED
  BY <1>1, <1>3, <1>4, <1>5 DEF WInv, Way, NotBack, Followed

\* A call that does nothing keeps its way, whatever is found besides.
LEMMA WayStays ==
  ASSUME WInv, NEW p \in Calls, links' = links, found \subseteq found', crawl'[p] = crawl[p]
  PROVE  Way(p)'
<1>1. OnTrail(p) /\ NotBack(p) /\ Followed(p)
  BY DEF WInv, Way
<1>2. OnTrail(p)'
  BY <1>1 DEF OnTrail
<1>3. NotBack(p)'
  BY <1>1 DEF NotBack, Link
<1>4. Followed(p)'
  BY <1>1 DEF Followed
<1> QED
  BY <1>2, <1>3, <1>4 DEF Way

\* p goes on within itself, having found the links it has passed.
LEMMA WayOn ==
  ASSUME CInv, WInv, NEW p \in Calls, NEW x,
         crawl' = [crawl EXCEPT ![p] = x], UNCHANGED <<links, found, returned>>,
         crawl[p].pc # "end",
         x.pc = "claim" => \A i \in DOMAIN p : p[i] # links[UrlOf(p)][x.at],
         Len(p) <= MaxDepth /\ UrlOf(p) \in DOMAIN links =>
           \A k \in DOMAIN links[UrlOf(p)] :
             k < x.at \/ x.pc \in {"collect", "ready", "end"} => links[UrlOf(p)][k] \in found
  PROVE  WInv'
<1>1. Calls' = Calls /\ crawl'[p] = x /\ \A q \in Calls : q # p => crawl'[q] = crawl[q]
  BY DEF CInv, CrawlTypeOK, Calls
<1>2. \A q \in Calls : q # p => Way(q)'
  BY <1>1, WayStays
<1>3. Way(p)'
  <2>1. OnTrail(p)
    BY DEF WInv, Way
  <2>2. OnTrail(p)'
    BY <2>1 DEF OnTrail
  <2>3. NotBack(p)'
    BY <1>1 DEF NotBack, Link
  <2>4. Followed(p)'
    BY <1>1 DEF Followed
  <2> QED
    BY <2>2, <2>3, <2>4 DEF Way
<1>4. returned' => crawl'[<<Root>>].pc = "end"
  <2>1. returned => crawl[<<Root>>].pc = "end"
    BY DEF WInv
  <2>2. <<Root>> \in Calls
    BY DEF CInv
  <2> QED
    BY <1>1, <2>1, <2>2
<1> QED
  BY <1>1, <1>2, <1>3, <1>4 DEF WInv

\* Every step of a call keeps the ways.
LEMMA WayGiveUp ==
  ASSUME CInv, WInv, NEW p \in Calls, GiveUp(p) PROVE WInv'
<1>1. PICK x : x = [crawl[p] EXCEPT !.pc = "ready"]
  OBVIOUS
<1>2. crawl[p] \in CallState /\ x.pc = "ready"
  BY <1>1, CallType DEF CallState
<1>3. crawl' = [crawl EXCEPT ![p] = x] /\ UNCHANGED <<links, found, returned>> /\ crawl[p].pc = "start"
  BY <1>1 DEF GiveUp, Goto
<1>4. ~(Len(p) <= MaxDepth /\ UrlOf(p) \in DOMAIN links)
  <2>1. Len(p) \in Nat
    BY CallType
  <2> QED
    BY <2>1, DepthAssumption DEF GiveUp, Depth, Exists
<1> QED
  BY <1>2, <1>3, <1>4, WayOn

\* It has followed no link yet.
LEMMA WayFetch ==
  ASSUME CInv, WInv, NEW p \in Calls, Fetch(p) PROVE WInv'
<1>1. PICK x : x = [crawl[p] EXCEPT !.pc = "loop", !.want = Cardinality(Unclaimed(UrlOf(p)))]
  OBVIOUS
<1>2. crawl[p] \in CallState /\ x.pc = "loop" /\ x.at = crawl[p].at
  BY <1>1, CallType DEF CallState
<1>3. crawl' = [crawl EXCEPT ![p] = x] /\ UNCHANGED <<links, found, returned>> /\ crawl[p].pc = "start"
  BY <1>1 DEF Fetch
<1>4. Way(p)
  BY DEF WInv
<1> QED
  BY <1>2, <1>3, <1>4, WayOn DEF Way, Followed

\* A link it passes is found; one that is not found is not on its trail.
LEMMA WayTest ==
  ASSUME CInv, WInv, NEW p \in Calls, Test(p) PROVE WInv'
<1>1. /\ crawl[p] \in CallState /\ crawl[p].pc = "loop" /\ AtLink(p)
      /\ UNCHANGED <<links, found, returned>>
  BY CallType DEF Test
<1>2. OnTrail(p) /\ Followed(p)
  BY DEF WInv, Way
<1>3. CASE Link(p) \in found
  <2>1. PICK x : x = [crawl[p] EXCEPT !.at = @ + 1]
    OBVIOUS
  <2>2. x.pc = "loop" /\ x.at = crawl[p].at + 1 /\ crawl[p].at \in Nat
    BY <1>1, <2>1 DEF CallState
  <2>3. crawl' = [crawl EXCEPT ![p] = x]
    BY <1>3, <2>1 DEF Test
  <2>4. ASSUME UrlOf(p) \in DOMAIN links, Len(p) <= MaxDepth,
               NEW k \in DOMAIN links[UrlOf(p)], k < x.at
        PROVE  links[UrlOf(p)][k] \in found
    <3>1. k \in Nat
      BY <2>4, CallType
    <3>2. CASE k = crawl[p].at
      BY <1>3, <3>2 DEF Link
    <3>3. CASE k < crawl[p].at
      BY <1>2, <2>4, <3>3 DEF Followed
    <3> QED
      BY <2>2, <2>4, <3>1, <3>2, <3>3
  <2> QED
    BY <1>1, <2>2, <2>3, <2>4, WayOn
<1>4. CASE Link(p) \notin found
  <2>1. PICK x : x = [crawl[p] EXCEPT !.pc = "claim"]
    OBVIOUS
  <2>2. x.pc = "claim" /\ x.at = crawl[p].at
    BY <1>1, <2>1 DEF CallState
  <2>3. crawl' = [crawl EXCEPT ![p] = x]
    BY <1>4, <2>1 DEF Test, Goto
  <2>4. \A i \in DOMAIN p : p[i] # links[UrlOf(p)][x.at]
    BY <1>2, <1>4, <2>2 DEF OnTrail, Link
  <2>5. /\ Len(p) <= MaxDepth /\ UrlOf(p) \in DOMAIN links =>
             \A k \in DOMAIN links[UrlOf(p)] :
               k < x.at \/ x.pc \in {"collect", "ready", "end"} => links[UrlOf(p)][k] \in found
    BY <1>2, <2>2 DEF Followed
  <2> QED
    BY <1>1, <2>3, <2>4, <2>5, WayOn
<1> QED
  BY <1>3, <1>4

\* It has passed the last link: all of them are found.
LEMMA WayLoopEnds ==
  ASSUME CInv, WInv, NEW p \in Calls, LoopEnds(p) PROVE WInv'
<1>1. PICK x : x = [crawl[p] EXCEPT !.pc = "collect"]
  OBVIOUS
<1>2. /\ crawl[p] \in CallState /\ x.pc = "collect" /\ crawl[p].at \in Nat /\ crawl[p].pc = "loop"
      /\ UNCHANGED <<links, found, returned>> /\ crawl' = [crawl EXCEPT ![p] = x]
  BY <1>1, CallType DEF CallState, LoopEnds, Goto
<1>3. Followed(p)
  BY DEF WInv, Way
<1>4. ASSUME UrlOf(p) \in DOMAIN links, Len(p) <= MaxDepth, NEW k \in DOMAIN links[UrlOf(p)]
      PROVE  links[UrlOf(p)][k] \in found
  <2>1. k \in 1..Len(links[UrlOf(p)]) /\ Len(links[UrlOf(p)]) \in Nat
    BY <1>4, CallType
  <2>2. ~(crawl[p].at <= Len(links[UrlOf(p)]))
    BY DEF LoopEnds, AtLink
  <2>3. k < crawl[p].at
    BY <1>2, <2>1, <2>2
  <2> QED
    BY <1>3, <1>4, <2>3 DEF Followed
<1> QED
  BY <1>2, <1>4, WayOn

\* Reports change nothing of that.
LEMMA WayCollect ==
  ASSUME CInv, WInv, NEW p \in Calls, Collect(p) PROVE WInv'
<1>1. PICK x : x = IF crawl[p].got < crawl[p].want /\ crawl' # [crawl EXCEPT ![p].pc = "ready"]
                   THEN [crawl[p] EXCEPT !.got = @ + 1, !.reports = @ - 1]
                   ELSE [crawl[p] EXCEPT !.pc = "ready"]
  OBVIOUS
<1>2. /\ crawl[p] \in CallState /\ x.pc \in {"collect", "ready"} /\ crawl[p].pc = "collect"
      /\ UNCHANGED <<links, found, returned>>
  BY <1>1, CallType DEF CallState, Collect
<1>3. crawl' = [crawl EXCEPT ![p] = x]
  BY <1>1 DEF Collect, Goto
<1>4. Followed(p)
  BY DEF WInv, Way
<1>5. Len(p) <= MaxDepth /\ UrlOf(p) \in DOMAIN links =>
        \A k \in DOMAIN links[UrlOf(p)] : links[UrlOf(p)][k] \in found
  BY <1>2, <1>4 DEF Followed
<1> QED
  BY <1>2, <1>3, <1>5, WayOn

\* Neither does its own.
LEMMA WayReady ==
  ASSUME CInv, WInv, NEW p \in Calls, Ready(p) PROVE WInv'
<1>1. /\ crawl[p].pc = "ready" /\ UNCHANGED <<links, found, returned>> /\ crawl[p] \in CallState
      /\ <<Root>> \in Calls
  BY CallType DEF Ready, CInv
<1>2. /\ Calls' = Calls /\ crawl'[p].pc = "end" /\ crawl'[p].at = crawl[p].at
      /\ \A q \in Calls : q # p => /\ crawl'[q].pc = crawl[q].pc /\ crawl'[q].at = crawl[q].at
  <2>1. CASE p = <<Root>>
    <3>1. crawl' = [crawl EXCEPT ![p].pc = "end"]
      BY <2>1 DEF Ready, Goto
    <3> QED
      BY <1>1, <3>1 DEF CInv, CrawlTypeOK, Calls, CallState
  <2>2. CASE p # <<Root>>
    <3>1. crawl' = [crawl EXCEPT ![p].pc = "end", ![Front(p)].reports = @ + 1]
      BY <2>2 DEF Ready
    <3>2. \A q \in Calls : crawl[q] \in CallState
      BY CallType
    <3> QED
      BY <1>1, <3>1, <3>2 DEF CInv, CrawlTypeOK, Calls, CallState
  <2> QED
    BY <2>1, <2>2
<1>3. ASSUME NEW q \in Calls PROVE Way(q)'
  <2>1. OnTrail(q) /\ NotBack(q) /\ Followed(q)
    BY DEF WInv, Way
  <2>2. OnTrail(q)'
    BY <1>1, <2>1 DEF OnTrail
  <2>3. NotBack(q)'
    BY <1>1, <1>2, <2>1 DEF NotBack, Link
  <2>4. Followed(q)'
    BY <1>1, <1>2, <2>1 DEF Followed
  <2> QED
    BY <2>2, <2>3, <2>4 DEF Way
<1>4. returned' => crawl'[<<Root>>].pc = "end"
  BY <1>1, <1>2 DEF WInv
<1> QED
  BY <1>2, <1>3, <1>4 DEF WInv

\* The child's name is a trail, and a page claimed stays found.
LEMMA WayClaim ==
  ASSUME CInv, WInv, NEW p \in Calls, Claim(p) PROVE WInv'
<1>1. PICK c : c = Append(p, Link(p))
  OBVIOUS
<1>3. /\ crawl[p] \in CallState /\ crawl[p].pc = "claim" /\ AtLink(p)
      /\ UrlOf(p) \in DOMAIN links /\ Len(p) <= MaxDepth
      /\ UNCHANGED <<links, returned>> /\ found' = found \union {Link(p)}
      /\ c \notin Calls
  BY <1>1, CallType, Mine DEF Claim, Fetched, NewChild
<1>4. /\ links[UrlOf(p)] \in Seq(Url) /\ crawl[p].at \in 1..Len(links[UrlOf(p)])
      /\ DOMAIN links[UrlOf(p)] = 1..Len(links[UrlOf(p)]) /\ Len(links[UrlOf(p)]) \in Nat
      /\ Link(p) \in Url
  BY <1>3, CallType DEF AtLink, CallState, Link
<1>5. /\ c \in Seq(Url) /\ Len(c) = Len(p) + 1 /\ UrlOf(c) = Link(p)
      /\ Len(p) \in Nat \ {0} /\ p \in Seq(Url) /\ DOMAIN p = 1..Len(p) /\ DOMAIN c = 1..(Len(p) + 1)
      /\ c[Len(p) + 1] = Link(p) /\ \A i \in 1..Len(p) : c[i] = p[i]
  <2>1. p \in Seq(Url) /\ Len(p) \in Nat \ {0}
    BY CallType
  <2>2. c \in Seq(Url) /\ Len(c) = Len(p) + 1 /\ UrlOf(c) = Link(p)
    BY <1>1, <1>4, <2>1, CallNames
  <2> QED
    BY <1>1, <1>4, <2>1, <2>2, AppendProperties, LenProperties
<1>6. PICK x : x = [crawl[p] EXCEPT !.pc = "loop", !.at = @ + 1]
  OBVIOUS
<1>7. x.pc = "loop" /\ x.at = crawl[p].at + 1
  BY <1>3, <1>6 DEF CallState
<1>8. /\ Calls' = Calls \union {c} /\ crawl'[c] = NewCall /\ crawl'[p] = x
      /\ \A q \in Calls : q # p => crawl'[q] = crawl[q]
  <2>1. crawl' = [q \in Calls \union {c} |->
                    IF q = c THEN NewCall ELSE IF q = p THEN x ELSE crawl[q]]
    BY <1>1, <1>6 DEF Claim
  <2>2. Calls' = Calls \union {c}
    BY <2>1 DEF Calls
  <2> QED
    BY <1>3, <2>1, <2>2
<1>9. OnTrail(p) /\ NotBack(p) /\ Followed(p)
  BY DEF WInv, Way
<1>10. \A q \in Calls : q # p => Way(q)'
  BY <1>3, <1>8, WayStays
<1>11. Way(p)'
  <2>1. OnTrail(p)'
    BY <1>3, <1>9 DEF OnTrail
  <2>2. NotBack(p)'
    BY <1>7, <1>8 DEF NotBack
  <2>3. ASSUME NEW k \in DOMAIN links[UrlOf(p)], k < x.at PROVE links[UrlOf(p)][k] \in found'
    <3>1. k \in Nat /\ crawl[p].at \in Nat
      BY <1>4
    <3>2. CASE k = crawl[p].at
      BY <1>3, <3>2 DEF Link
    <3>3. CASE k < crawl[p].at
      BY <1>3, <1>9, <3>3 DEF Followed
    <3> QED
      BY <1>7, <2>3, <3>1, <3>2, <3>3
  <2>4. Followed(p)'
    BY <1>3, <1>7, <1>8, <2>3 DEF Followed
  <2> QED
    BY <2>1, <2>2, <2>4 DEF Way
<1>12. Way(c)'
  <2>1. \A i, j \in DOMAIN c : c[i] = c[j] => i = j
    <3>1. \A i, j \in 1..Len(p) : p[i] = p[j] => i = j
      BY <1>5, <1>9 DEF OnTrail
    <3>2. \A i \in 1..Len(p) : p[i] # Link(p)
      BY <1>3, <1>5, <1>9 DEF NotBack
    <3>3. \A i \in DOMAIN c : i \in 1..Len(p) \/ i = Len(p) + 1
      BY <1>5
    <3> QED
      BY <1>5, <3>1, <3>2, <3>3
  <2>2. \A i \in DOMAIN c : c[i] \in found'
    <3>1. \A i \in 1..Len(p) : p[i] \in found
      BY <1>5, <1>9 DEF OnTrail
    <3>3. \A i \in DOMAIN c : i \in 1..Len(p) \/ i = Len(p) + 1
      BY <1>5
    <3> QED
      BY <1>3, <1>5, <3>1, <3>3
  <2>3. ASSUME NEW i \in 1..(Len(c) - 1)
        PROVE  c[i] \in DOMAIN links /\ c[i + 1] \in ToSet(links[c[i]])
    <3>1. i \in 1..Len(p) /\ c[i] = p[i] /\ i + 1 \in 1..(Len(p) + 1)
      BY <1>5
    <3>2. CASE i = Len(p)
      <4>1. c[i] = UrlOf(p) /\ c[i + 1] = links[UrlOf(p)][crawl[p].at]
        BY <1>5, <3>1, <3>2 DEF UrlOf, Last, Link
      <4> QED
        BY <1>3, <1>4, <4>1 DEF ToSet
    <3>3. CASE i # Len(p)
      <4>0. \A n \in Nat : \A j \in 1..n : j # n => j \in 1..(n - 1) /\ j + 1 \in 1..n
        OBVIOUS
      <4>2. i \in 1..(Len(p) - 1) /\ i + 1 \in 1..Len(p)
        BY <1>5, <3>1, <3>3, <4>0
      <4>1. i \in 1..(Len(p) - 1) /\ i + 1 \in 1..Len(p) /\ c[i + 1] = p[i + 1]
        BY <1>5, <4>2
      <4> QED
        BY <1>9, <3>1, <4>1 DEF OnTrail
    <3> QED
      BY <3>2, <3>3
  <2>4. c[1] = Root
    <3>1. 1 \in 1..Len(p)
      BY <1>5
    <3> QED
      BY <1>5, <1>9, <3>1 DEF OnTrail
  <2>5. OnTrail(c)'
    BY <1>3, <2>1, <2>2, <2>3, <2>4 DEF OnTrail
  <2>6. NewCall.pc = "start" /\ NewCall.at = 1
    BY DEF NewCall
  <2>7. UrlOf(c) \in DOMAIN links => links[UrlOf(c)] \in Seq(Url)
    BY WebAssumption DEF CInv, CrawlTypeOK
  <2>8. UrlOf(c) \in DOMAIN links => \A k \in DOMAIN links[UrlOf(c)] : ~(k < 1)
    BY <2>7
  <2>9. NotBack(c)' /\ Followed(c)'
    BY <1>3, <1>8, <2>6, <2>8 DEF NotBack, Followed
  <2> QED
    BY <2>5, <2>9 DEF Way
<1>13. returned' => crawl'[<<Root>>].pc = "end"
  <2>1. <<Root>> \in Calls /\ (returned => crawl[<<Root>>].pc = "end")
    BY DEF CInv, WInv
  <2> QED
    BY <1>3, <1>8, <2>1
<1> QED
  BY <1>8, <1>10, <1>11, <1>12, <1>13 DEF WInv

\* Every step of the crawler keeps the ways.
LEMMA NextWInv == CInv /\ WInv /\ [CrawlNext]_crawlVars => WInv'
<1> SUFFICES ASSUME CInv, WInv, [CrawlNext]_crawlVars PROVE WInv'
  OBVIOUS
<1>1. ASSUME NEW p \in Calls, Call(p) PROVE WInv'
  BY <1>1, WayGiveUp, WayFetch, WayTest, WayClaim, WayLoopEnds, WayCollect, WayReady DEF Call
<1>2. CASE UNCHANGED <<links, found, crawl>> /\ (returned' => returned \/ crawl[<<Root>>].pc = "end")
  <2>1. Calls' = Calls
    BY <1>2 DEF Calls
  <2>2. \A p \in Calls : Way(p)'
    BY <1>2, WayStays
  <2> QED
    BY <1>2, <2>1, <2>2 DEF WInv
<1>3. CASE MainReturns
  BY <1>2, <1>3 DEF MainReturns
<1>4. CASE UNCHANGED crawlVars
  BY <1>2, <1>4 DEF crawlVars
<1> QED
  BY <1>1, <1>3, <1>4 DEF CrawlNext, CrawlProgress

\* Induction over the numbers, for a set of them.
LEMMA AllNat ==
  ASSUME NEW P, 0 \in P, \A n \in Nat : n \in P => n + 1 \in P
  PROVE  Nat \subseteq P
<1> DEFINE T == Nat \ P
<1>1. ASSUME T # {} PROVE FALSE
  <2>1. PICK n \in T : \A m \in T : n <= m
    BY <1>1, LeastNat
  <2>2. n \in Nat /\ n # 0 /\ n - 1 \in Nat /\ n - 1 \notin T
    BY <2>1
  <2>3. n - 1 \in P /\ (n - 1) + 1 = n
    BY <2>2
  <2> QED
    BY <2>1, <2>2, <2>3
<1> QED
  BY <1>1

\* The walks from the root of at most d links, wherever they lead.
Linked(p) == \A i \in 1..(Len(p) - 1) : p[i] \in DOMAIN links /\ p[i + 1] \in ToSet(links[p[i]])
Walks(d)  == {p \in Seq(Url) : Len(p) \in 1..(d + 1) /\ p[1] = Root /\ Linked(p)}

\* A walk goes on along a link.
LEMMA WalkOn ==
  ASSUME NEW d \in Nat, NEW p \in Walks(d), Last(p) \in DOMAIN links,
         NEW v \in ToSet(links[Last(p)]), v \in Url
  PROVE  Append(p, v) \in Walks(d + 1) /\ Last(Append(p, v)) = v
<1>1. p \in Seq(Url) /\ Len(p) \in 1..(d + 1) /\ p[1] = Root /\ Linked(p)
  BY DEF Walks
<1>2. PICK q, n : q = Append(p, v) /\ n = Len(p) /\ n \in Nat /\ 1 <= n /\ n <= d + 1
  <2>1. Len(p) \in Nat /\ 1 <= Len(p) /\ Len(p) <= d + 1
    BY <1>1
  <2> QED
    BY <2>1
<1>3. /\ q \in Seq(Url) /\ Len(q) = n + 1 /\ q[n + 1] = v /\ \A i \in 1..n : q[i] = p[i]
  BY <1>1, <1>2, AppendProperties
<1>4. ASSUME NEW i \in 1..(Len(q) - 1)
      PROVE  q[i] \in DOMAIN links /\ q[i + 1] \in ToSet(links[q[i]])
  <2>0. Len(q) - 1 = n
    BY <1>2, <1>3
  <2>1. i \in 1..n /\ q[i] = p[i]
    BY <1>3, <2>0
  <2>2. CASE i = n
    BY <1>2, <1>3, <2>1, <2>2 DEF Last
  <2>3. CASE i # n
    <3>1. i \in 1..(n - 1) /\ i + 1 \in 1..n
      BY <1>2, <2>1, <2>3
    <3>2. q[i + 1] = p[i + 1]
      BY <1>3, <3>1
    <3> QED
      BY <1>1, <1>2, <2>1, <3>1, <3>2 DEF Linked
  <2> QED
    BY <2>2, <2>3
<1>5. q[1] = Root /\ Len(q) \in 1..((d + 1) + 1)
  <2>1. 1 \in 1..n
    BY <1>2
  <2> QED
    BY <1>1, <1>2, <1>3, <2>1
<1>6. Last(q) = v
  BY <1>3 DEF Last
<1> QED
  BY <1>2, <1>3, <1>4, <1>5, <1>6 DEF Walks, Linked

\* Part of the way it is a walk too.
LEMMA WalkLess ==
  ASSUME NEW p \in Seq(Url), NEW n \in Nat, n >= 1, n <= Len(p), p[1] = Root, Linked(p)
  PROVE  /\ SubSeq(p, 1, n) \in Seq(Url) /\ Len(SubSeq(p, 1, n)) = n
         /\ \A i \in 1..n : SubSeq(p, 1, n)[i] = p[i]
         /\ SubSeq(p, 1, n)[1] = Root /\ Linked(SubSeq(p, 1, n)) /\ Last(SubSeq(p, 1, n)) = p[n]
<1>1. PICK q, l : q = SubSeq(p, 1, n) /\ l = Len(p) /\ l \in Nat
  BY LenProperties
<1>2. q \in Seq(Url) /\ Len(q) = n /\ \A i \in 1..n : q[i] = p[i]
  <2>1. \A i \in 1..n : p[i] \in Url
    BY <1>1, ElementOfSeq
  <2>2. q \in Seq(Url) /\ Len(q) = IF 1 <= n THEN n - 1 + 1 ELSE 0
    BY <1>1, <2>1, SubSeqProperties
  <2>3. \A i \in 1..n : q[i] = p[1 + i - 1]
    BY <1>1, <2>1, SubSeqProperties
  <2>4. \A i \in 1..n : 1 + i - 1 = i
    OBVIOUS
  <2> QED
    BY <2>2, <2>3, <2>4
<1>3. Linked(q)
  <2>1. ASSUME NEW i \in 1..(n - 1)
        PROVE  q[i] \in DOMAIN links /\ q[i + 1] \in ToSet(links[q[i]])
    <3>1. i \in 1..n /\ i + 1 \in 1..n /\ i \in 1..(Len(p) - 1)
      BY <1>1
    <3>2. q[i] = p[i] /\ q[i + 1] = p[i + 1]
      BY <1>2, <3>1
    <3> QED
      BY <3>1, <3>2 DEF Linked
  <2> QED
    BY <1>2, <2>1 DEF Linked
<1>4. 1 \in 1..n /\ n \in 1..n
  OBVIOUS
<1>5. q[1] = Root /\ Last(q) = p[n]
  BY <1>2, <1>4 DEF Last
<1> QED
  BY <1>1, <1>2, <1>3, <1>5

\* What Within says of one more link.
Grown(A) == A \union UNION {ToSet(links[u]) : u \in A \intersect DOMAIN links}

\* The pages that walks lead to are what Within defines: so there is such a
\* function, and its equations hold.
LEMMA WithinSteps ==
  ASSUME links \in Web
  PROVE  Within[0] = {Root} /\ \A d \in Nat : Within[d + 1] = Grown(Within[d])
<1> DEFINE W == [d \in Nat |-> {v \in Url : \E p \in Walks(d) : Last(p) = v}]
<1>1. /\ DOMAIN links \subseteq Url
      /\ \A u \in DOMAIN links : links[u] \in Seq(Url) /\ ToSet(links[u]) \subseteq Url
  <2>1. DOMAIN links \subseteq Url /\ \A u \in DOMAIN links : links[u] \in Seq(Url)
    BY WebAssumption
  <2>2. ASSUME NEW u \in DOMAIN links PROVE ToSet(links[u]) \subseteq Url
    <3>1. links[u] \in Seq(Url)
      BY <2>1
    <3> QED
      BY <3>1 DEF ToSet
  <2> QED
    BY <2>1, <2>2
<1>2. W[0] = {Root}
  <2>1. ASSUME NEW p \in Walks(0) PROVE Last(p) = Root
    <3>1. Len(p) = 1 /\ p[1] = Root
      BY DEF Walks
    <3> QED
      BY <3>1 DEF Last
  <2>2. <<Root>> \in Walks(0) /\ Last(<<Root>>) = Root
    <3>1. <<Root>> \in Seq(Url) /\ Len(<<Root>>) = 1 /\ <<Root>>[1] = Root
      BY RootAssumption
    <3> QED
      BY <3>1 DEF Walks, Linked, Last
  <2>3. W[0] = {v \in Url : \E p \in Walks(0) : Last(p) = v}
    OBVIOUS
  <2> QED
    BY <2>1, <2>2, <2>3, RootAssumption
<1>3. ASSUME NEW d \in Nat PROVE W[d + 1] = Grown(W[d])
  <2>0. /\ d + 1 \in Nat
        /\ W[d] = {v \in Url : \E p \in Walks(d) : Last(p) = v}
        /\ W[d + 1] = {v \in Url : \E p \in Walks(d + 1) : Last(p) = v}
    OBVIOUS
  <2> HIDE DEF W
  <2>1. ASSUME NEW v \in W[d + 1] PROVE v \in Grown(W[d])
    <3>1. PICK p \in Walks(d + 1) : Last(p) = v
      BY <2>0
    <3>2. p \in Seq(Url) /\ Len(p) \in 1..(d + 2) /\ p[1] = Root /\ Linked(p) /\ v \in Url
      BY <2>0, <2>1 DEF Walks
    <3>3. CASE Len(p) <= d + 1
      <4>1. Len(p) \in 1..(d + 1)
        BY <3>2, <3>3
      <4>2. p \in Walks(d)
        BY <3>2, <4>1 DEF Walks
      <4> QED
        BY <2>0, <3>1, <3>2, <4>2 DEF Grown
    <3>4. CASE Len(p) = d + 2
      <4>1. PICK q : q = SubSeq(p, 1, d + 1)
        OBVIOUS
      <4>2. /\ q \in Seq(Url) /\ Len(q) = d + 1 /\ q[1] = Root /\ Linked(q) /\ Last(q) = p[d + 1]
        <5>1. d + 1 \in Nat /\ d + 1 >= 1 /\ d + 1 <= Len(p)
          BY <3>4
        <5> QED
          BY <3>2, <4>1, <5>1, WalkLess
      <4>3. q \in Walks(d)
        <5>1. Len(q) \in 1..(d + 1)
          BY <4>2
        <5> QED
          BY <4>2, <5>1 DEF Walks
      <4>4. p[d + 1] \in DOMAIN links /\ v \in ToSet(links[p[d + 1]])
        <5>1. d + 1 \in 1..(Len(p) - 1) /\ (d + 1) + 1 = Len(p)
          BY <3>4
        <5> QED
          BY <3>1, <3>2, <5>1 DEF Linked, Last
      <4>5. p[d + 1] \in W[d]
        BY <1>1, <2>0, <4>2, <4>3, <4>4
      <4> QED
        BY <4>4, <4>5 DEF Grown
    <3> QED
      BY <3>2, <3>3, <3>4
  <2>2. ASSUME NEW v \in Grown(W[d]) PROVE v \in W[d + 1]
    <3>1. CASE v \in W[d]
      <4>1. PICK p \in Walks(d) : Last(p) = v
        BY <2>0, <3>1
      <4>2. Len(p) \in 1..(d + 1)
        BY DEF Walks
      <4>3. Len(p) \in 1..((d + 1) + 1)
        BY <4>2
      <4>4. p \in Walks(d + 1)
        BY <4>3 DEF Walks
      <4> QED
        BY <2>0, <3>1, <4>1, <4>4
    <3>2. CASE \E u \in W[d] \intersect DOMAIN links : v \in ToSet(links[u])
      <4>1. PICK u \in W[d] \intersect DOMAIN links : v \in ToSet(links[u])
        BY <3>2
      <4>2. PICK p \in Walks(d) : Last(p) = u
        BY <2>0, <4>1
      <4>3. v \in Url
        BY <1>1, <4>1
      <4>4. Append(p, v) \in Walks(d + 1) /\ Last(Append(p, v)) = v
        BY <4>1, <4>2, <4>3, WalkOn
      <4> QED
        BY <2>0, <4>3, <4>4
    <3> QED
      BY <2>2, <3>1, <3>2 DEF Grown
  <2> QED
    BY <2>1, <2>2
<1>4. W = [d \in Nat |-> IF d = 0 THEN {Root} ELSE Grown(W[d - 1])]
  <2>1. ASSUME NEW d \in Nat PROVE W[d] = IF d = 0 THEN {Root} ELSE Grown(W[d - 1])
    <3>1. CASE d # 0
      <4>1. d - 1 \in Nat /\ (d - 1) + 1 = d
        BY <3>1
      <4> HIDE DEF W
      <4>2. W[(d - 1) + 1] = Grown(W[d - 1])
        BY <1>3, <4>1
      <4> QED
        BY <3>1, <4>1, <4>2
    <3> QED
      BY <1>2, <3>1
  <2>2. W = [d \in Nat |-> W[d]]
    OBVIOUS
  <2> HIDE DEF W
  <2> QED
    BY <2>1, <2>2
<1> DEFINE IsWithin(f) == f = [d \in Nat |-> IF d = 0 THEN {Root} ELSE Grown(f[d - 1])]
<1>5. IsWithin(Within)
  <2>1. \E f : IsWithin(f)
    <3> HIDE DEF W
    <3> QED
      BY <1>4
  <2>2. Within = CHOOSE f : IsWithin(f)
    BY DEF Within, Grown
  <2> HIDE DEF IsWithin
  <2> QED
    BY <2>1, <2>2
<1>6. \A d \in Nat : Within[d] = IF d = 0 THEN {Root} ELSE Grown(Within[d - 1])
  <2>1. PICK f : f = Within
    OBVIOUS
  <2>2. f = [d \in Nat |-> IF d = 0 THEN {Root} ELSE Grown(f[d - 1])]
    BY <1>5, <2>1
  <2>3. \A d \in Nat : f[d] = IF d = 0 THEN {Root} ELSE Grown(f[d - 1])
    BY <2>2
  <2> QED
    BY <2>1, <2>3
<1>7. \A d \in Nat : d + 1 \in Nat /\ d + 1 # 0 /\ (d + 1) - 1 = d
  OBVIOUS
<1> HIDE DEF IsWithin, W
<1> QED
  BY <1>6, <1>7

\* A call's page is within the length of its name.
LEMMA CallsWithin ==
  ASSUME CInv, WInv
  PROVE  \A d \in Nat : \A p \in Calls : \A i \in DOMAIN p : i <= d + 1 => p[i] \in Within[d]
<1> DEFINE P == {d \in Nat : \A p \in Calls : \A i \in DOMAIN p : i <= d + 1 => p[i] \in Within[d]}
<1>0. Within[0] = {Root} /\ \A d \in Nat : Within[d + 1] = Grown(Within[d])
  BY WithinSteps DEF CInv, CrawlTypeOK
<1>t. \A p \in Calls : p \in Seq(Url) /\ Len(p) \in Nat \ {0} /\ DOMAIN p = 1..Len(p) /\ OnTrail(p)
  BY CallType, LenProperties DEF WInv, Way
<1>1. 0 \in P
  <2>1. ASSUME NEW p \in Calls, NEW i \in DOMAIN p, i <= 1 PROVE p[i] \in Within[0]
    <3>1. i = 1
      BY <1>t, <2>1
    <3> QED
      BY <1>0, <1>t, <3>1 DEF OnTrail
  <2> QED
    BY <2>1
<1>2. ASSUME NEW d \in Nat, d \in P PROVE d + 1 \in P
  <2>1. ASSUME NEW p \in Calls, NEW i \in DOMAIN p, i <= (d + 1) + 1 PROVE p[i] \in Within[d + 1]
    <3>1. i \in 1..Len(p) /\ Len(p) \in Nat
      BY <1>t
    <3>2. CASE i <= d + 1
      BY <1>0, <1>2, <3>2 DEF Grown
    <3>3. CASE i = d + 2
      <4>1. d + 1 \in 1..(Len(p) - 1) /\ d + 1 \in 1..Len(p) /\ i = (d + 1) + 1 /\ d + 1 <= d + 1
        BY <3>1, <3>3
      <4>2. p[d + 1] \in Within[d]
        BY <1>2, <1>t, <4>1
      <4>3. p[d + 1] \in DOMAIN links /\ p[i] \in ToSet(links[p[d + 1]])
        BY <1>t, <4>1 DEF OnTrail
      <4> QED
        BY <1>0, <4>2, <4>3 DEF Grown
    <3> QED
      BY <2>1, <3>1, <3>2, <3>3
  <2>2. d + 1 \in Nat
    OBVIOUS
  <2> QED
    BY <2>1, <2>2
<1>3. Nat \subseteq P
  <2> HIDE DEF P
  <2> QED
    BY <1>1, <1>2, AllNat
<1> QED
  BY <1>3

\* So whatever is found is within the depth.
LEMMA FoundWithin ==
  ASSUME CInv, WInv
  PROVE  found \subseteq Within[MaxDepth]
<1>1. ASSUME NEW p \in Calls PROVE UrlOf(p) \in Within[MaxDepth]
  <2>1. Len(p) \in DOMAIN p /\ Len(p) <= MaxDepth + 1
    BY CallType, LenProperties
  <2> QED
    BY <2>1, CallsWithin, DepthAssumption DEF UrlOf, Last
<1> QED
  BY <1>1 DEF CInv, FoundIsCalled

\* When the first call has ended all have.
LEMMA AllEnded ==
  ASSUME CInv, WInv, returned
  PROVE  \A p \in Calls : crawl[p].pc = "end"
<1> DEFINE P == {n \in Nat : \A p \in Calls : Len(p) <= n => crawl[p].pc = "end"}
<1>t. \A p \in Calls : p \in Seq(Url) /\ Len(p) \in Nat \ {0}
  BY CallType
<1>1. 0 \in P
  BY <1>t
<1>2. ASSUME NEW n \in Nat, n \in P PROVE n + 1 \in P
  <2>1. ASSUME NEW p \in Calls, Len(p) = n + 1 PROVE crawl[p].pc = "end"
    <3>1. CASE p = <<Root>>
      BY <3>1 DEF WInv
    <3>2. CASE p # <<Root>>
      <4>1. Front(p) \in Calls
        BY <3>2, Mine DEF Started
      <4>2. Len(Front(p)) = n
        <5>1. p \in Seq(Url) /\ Len(p) = n + 1
          BY <1>t, <2>1
        <5> QED
          BY <5>1 DEF Front
      <4>3. crawl[Front(p)].pc = "end"
        BY <1>2, <4>1, <4>2
      <4>4. p \in Children(Front(p))
        BY <2>1, <4>2 DEF Children
      <4>5. p \in Ended(Children(Front(p)))
        BY <4>1, <4>3, <4>4, Mine DEF Outlasts
      <4> QED
        BY <4>5 DEF Ended
    <3> QED
      BY <3>1, <3>2
  <2>2. \A p \in Calls : Len(p) <= n + 1 => Len(p) <= n \/ Len(p) = n + 1
    BY <1>t
  <2>3. n + 1 \in Nat
    OBVIOUS
  <2> QED
    BY <1>2, <2>1, <2>2, <2>3
<1>3. Nat \subseteq P
  <2> HIDE DEF P
  <2> QED
    BY <1>1, <1>2, AllNat
<1>4. ASSUME NEW p \in Calls PROVE crawl[p].pc = "end"
  <2>1. Len(p) \in Nat /\ Len(p) <= Len(p)
    BY <1>t
  <2>2. Len(p) \in P
    BY <1>3, <2>1
  <2> QED
    BY <2>1, <2>2
<1> QED
  BY <1>4

\* A trail is a walk that is no longer than the depth allows.
LEMMA IsTrail ==
  ASSUME NEW p \in Seq(Url), Len(p) \in Nat \ {0}, Len(p) <= MaxDepth + 1, p[1] = Root, Linked(p),
         \A i, j \in 1..Len(p) : p[i] = p[j] => i = j
  PROVE  p \in Trails(links)
<1>1. p \in SeqOf(Url, MaxDepth + 1)
  <2>1. MaxDepth + 1 \in Nat
    BY DepthAssumption
  <2> QED
    BY <2>1, Bounded
<1>2. p # <<>> /\ DOMAIN p = 1..Len(p)
  BY LenProperties
<1>3. IsInjective(p)
  BY <1>2 DEF IsInjective
<1> QED
  BY <1>1, <1>2, <1>3 DEF Trails, Linked

\* On a tree, when main goes on, every page within the depth has been found,
\* by a call that is named by the shortest way to it.
LEMMA TreeFound ==
  ASSUME CInv, WInv, returned, links \in Trees
  PROVE  Within[MaxDepth] \subseteq found
<1> DEFINE Has(d) == \A v \in Within[d] : \E p \in Calls : UrlOf(p) = v /\ Len(p) <= d + 1
           P == {d \in Nat : d <= MaxDepth => Has(d)}
<1>0. Within[0] = {Root} /\ \A d \in Nat : Within[d + 1] = Grown(Within[d])
  BY WithinSteps DEF CInv, CrawlTypeOK
<1>t. \A p \in Calls : /\ p \in Seq(Url) /\ Len(p) \in Nat \ {0} /\ DOMAIN p = 1..Len(p)
                       /\ Len(p) <= MaxDepth + 1 /\ OnTrail(p) /\ Followed(p)
  BY CallType, LenProperties DEF WInv, Way
<1>u. \A p, q \in Trails(links) : Last(p) = Last(q) => p = q
  BY TreesAssumption
<1>1. 0 \in P
  <2>1. <<Root>> \in Calls /\ UrlOf(<<Root>>) = Root /\ Len(<<Root>>) = 1
    BY DEF CInv, UrlOf, Last
  <2>2. Has(0)
    <3>1. ASSUME NEW v \in Within[0] PROVE \E p \in Calls : UrlOf(p) = v /\ Len(p) <= 0 + 1
      <4>1. v = Root
        BY <1>0
      <4> QED
        BY <2>1, <4>1
    <3> QED
      BY <3>1
  <2> HIDE DEF Has
  <2> QED
    BY <2>2
<1>2. ASSUME NEW d \in Nat, d \in P, d + 1 <= MaxDepth, NEW v \in Within[d + 1]
      PROVE  \E p \in Calls : UrlOf(p) = v /\ Len(p) <= (d + 1) + 1
  <2>1. Has(d)
    <3>1. d <= MaxDepth
      BY <1>2, DepthAssumption
    <3> QED
      BY <1>2, <3>1
  <2>2. CASE v \in Within[d]
    <3>1. PICK p \in Calls : UrlOf(p) = v /\ Len(p) <= d + 1
      BY <2>1, <2>2
    <3>2. Len(p) <= (d + 1) + 1
      BY <1>t, <3>1
    <3> QED
      BY <3>1, <3>2
  <2>3. CASE \E u \in Within[d] \intersect DOMAIN links : v \in ToSet(links[u])
    <3>1. PICK u \in Within[d] \intersect DOMAIN links : v \in ToSet(links[u])
      BY <2>3
    <3>2. PICK p \in Calls : UrlOf(p) = u /\ Len(p) <= d + 1
      BY <2>1, <3>1
    <3>3. Len(p) <= MaxDepth /\ crawl[p].pc = "end"
      BY <1>2, <1>t, <3>2, AllEnded, DepthAssumption
    <3>4. v \in found
      BY <1>t, <3>1, <3>2, <3>3 DEF Followed, ToSet
    <3>5. PICK q \in Calls : UrlOf(q) = v
      BY <3>4 DEF CInv, FoundIsCalled
    <3>6. v \in Url
      BY <3>5, CallType
    <3>7. Linked(p) /\ Linked(q)
      BY <1>t DEF OnTrail, Linked
    <3>8. q \in Trails(links) /\ Last(q) = v
      <4>1. /\ q \in Seq(Url) /\ Len(q) \in Nat \ {0} /\ Len(q) <= MaxDepth + 1
            /\ DOMAIN q = 1..Len(q) /\ OnTrail(q)
        BY <1>t
      <4>2. q[1] = Root /\ \A i, j \in 1..Len(q) : q[i] = q[j] => i = j
        BY <4>1 DEF OnTrail
      <4>3. q \in Trails(links)
        BY <3>7, <4>1, <4>2, IsTrail
      <4> QED
        BY <3>5, <4>3 DEF UrlOf
    <3>9. CASE \E i \in 1..Len(p) : p[i] = v
      <4>1. PICK i \in 1..Len(p) : p[i] = v
        BY <3>9
      <4>2. PICK s : s = SubSeq(p, 1, i)
        OBVIOUS
      <4>3. i \in Nat /\ i >= 1 /\ i <= Len(p) /\ p[1] = Root
        BY <1>t DEF OnTrail
      <4>4. /\ s \in Seq(Url) /\ Len(s) = i /\ \A j \in 1..i : s[j] = p[j]
            /\ s[1] = Root /\ Linked(s) /\ Last(s) = v
        BY <1>t, <3>7, <4>1, <4>2, <4>3, WalkLess
      <4>5. \A j, k \in 1..Len(s) : s[j] = s[k] => j = k
        <5>1. \A j, k \in 1..Len(p) : p[j] = p[k] => j = k
          BY <1>t DEF OnTrail
        <5>2. \A j \in 1..i : j \in 1..Len(p)
          BY <1>t, <4>3
        <5> QED
          BY <4>4, <5>1, <5>2
      <4>6. s \in Trails(links)
        <5>1. Len(s) \in Nat \ {0} /\ Len(s) <= MaxDepth + 1
          BY <1>t, <4>3, <4>4, DepthAssumption
        <5> QED
          BY <4>4, <4>5, <5>1, IsTrail
      <4>7. q = s
        BY <1>u, <3>8, <4>4, <4>6
      <4>8. Len(q) <= (d + 1) + 1
        BY <1>t, <3>2, <4>3, <4>4, <4>7
      <4> QED
        BY <3>5, <4>8
    <3>10. CASE \A i \in 1..Len(p) : p[i] # v
      <4>1. PICK s : s = Append(p, v)
        OBVIOUS
      <4>2. p \in Walks(d) /\ Last(p) = u
        <5>1. Len(p) \in 1..(d + 1)
          BY <1>t, <3>2
        <5> QED
          BY <1>t, <3>2, <3>7, <5>1 DEF Walks, OnTrail, UrlOf
      <4>3. s \in Walks(d + 1) /\ Last(s) = v
        BY <3>1, <3>6, <4>1, <4>2, WalkOn
      <4>4. Len(s) = Len(p) + 1 /\ s[Len(p) + 1] = v /\ \A i \in 1..Len(p) : s[i] = p[i]
        BY <1>t, <3>6, <4>1, AppendProperties
      <4>5. \A j, k \in 1..Len(s) : s[j] = s[k] => j = k
        <5>1. \A j, k \in 1..Len(p) : p[j] = p[k] => j = k
          BY <1>t DEF OnTrail
        <5>2. \A j \in 1..Len(s) : j \in 1..Len(p) \/ j = Len(p) + 1
          BY <1>t, <4>4
        <5> QED
          BY <3>10, <4>4, <5>1, <5>2
      <4>6. s \in Trails(links)
        <5>1. Len(s) \in Nat \ {0} /\ Len(s) <= MaxDepth + 1
          BY <1>t, <3>3, <4>4, DepthAssumption
        <5> QED
          BY <4>3, <4>5, <5>1, IsTrail DEF Walks
      <4>7. q = s
        BY <1>u, <3>8, <4>3, <4>6
      <4>8. Len(q) <= (d + 1) + 1
        BY <1>t, <3>2, <4>4, <4>7
      <4> QED
        BY <3>5, <4>8
    <3> QED
      BY <3>9, <3>10
  <2> QED
    BY <1>0, <1>2, <2>2, <2>3 DEF Grown
<1>3. ASSUME NEW d \in Nat, d \in P PROVE d + 1 \in P
  <2>1. d + 1 <= MaxDepth => Has(d + 1)
    BY <1>2, <1>3
  <2> HIDE DEF Has
  <2> QED
    BY <2>1
<1>4. Nat \subseteq P
  <2>1. \A d \in Nat : d \in P => d + 1 \in P
    BY <1>3
  <2> HIDE DEF P
  <2> QED
    BY <1>1, <2>1, AllNat
<1>5. Has(MaxDepth)
  <2>1. MaxDepth \in Nat /\ MaxDepth <= MaxDepth
    BY DepthAssumption
  <2> HIDE DEF Has
  <2> QED
    BY <1>4, <2>1
<1> QED
  BY <1>5 DEF CInv, FoundIsCalled

\* For every site and depth nothing is found that lies deeper than the
\* maximum depth; and on a tree nothing within it is missed, however the
\* calls race, once main goes on.
THEOREM CompleteHolds == CrawlSpec => []Complete
<1>1. CInv /\ WInv => Complete
  BY FoundWithin, TreeFound DEF Complete
<1> QED
  BY <1>1, InitCInv, NextCInv, InitWInv, NextWInv, PTL DEF CrawlSpec
=============================================================================
