------------------------------- MODULE Crawl --------------------------------
(***************************************************************************)
(* goroutine.go: the recursive crawler.  Every call of Crawl is a process  *)
(* named by the chain of links that led to it, <<root, ..., url>>; a       *)
(* parent claims an unclaimed link and starts a child for it, and the      *)
(* child reports to the parent's channel when it returns.                  *)
(*                                                                         *)
(* found.f is guarded by an RWMutex, but a call counts the unclaimed links *)
(* under one read lock, tests each of them under another and claims it     *)
(* under a write lock: others may claim in between.  The critical sections *)
(* are single steps.                                                       *)
(***************************************************************************)
EXTENDS Integers, Sequences, SequencesExt, FiniteSets

CONSTANTS Url,
          Root,                  \* "http://golang.org/"
          MaxDepth,              \* 4
          Web,                   \* the fetchers: functions from the pages
                                 \* that exist to their lists of links
          Trees                  \* those where a page is linked from one page
                                 \* only, apart from links back up

ASSUME RootAssumption  == Root \in Url
ASSUME DepthAssumption == MaxDepth \in Nat
ASSUME WebAssumption   == \A f \in Web : DOMAIN f \subseteq Url
                            /\ \A u \in DOMAIN f : f[u] \in Seq(Url)

\* The ways from the root to a page on which no page comes twice.
Trails(f) == {p \in SeqOf(Url, MaxDepth + 1) :
                /\ p # <<>> /\ p[1] = Root /\ IsInjective(p)
                /\ \A i \in 1..(Len(p) - 1) : p[i] \in DOMAIN f /\ p[i + 1] \in ToSet(f[p[i]])}

ASSUME TreesAssumption ==
  /\ Trees \subseteq Web
  /\ \A f \in Trees : /\ \A u \in DOMAIN f : IsInjective(f[u])
                      /\ \A p, q \in Trails(f) : Last(p) = Last(q) => p = q

VARIABLES links,                 \* the fetcher, constant during a run
          found,                 \* found.f
          crawl,                 \* the calls made so far and their state
          returned               \* main has received from ready

crawlVars == <<links, found, crawl, returned>>

Calls     == DOMAIN crawl
UrlOf(p)  == Last(p)

\* Faulty variant: the depth is taken down before the page is fetched.
DepthShort(p) == MaxDepth - Len(p)

Depth(p)  == MaxDepth - (Len(p) - 1)
Exists(u) == u \in DOMAIN links
Unclaimed(u) == {k \in DOMAIN links[u] : links[u][k] \notin found}

\* A call: where it is, the link it is at, childrenCount, the reports it has
\* taken from readyChildren and those still in it.
NewCall == [pc |-> "start", at |-> 1, want |-> 0, got |-> 0, reports |-> 0]

CallState == [pc : {"start", "loop", "claim", "collect", "ready", "end"},
              at : Nat \ {0}, want : Nat, got : Nat, reports : Nat]

CrawlTypeOK ==
  /\ links \in Web
  /\ found \in SUBSET Url
  /\ Calls \subseteq SeqOf(Url, MaxDepth + 1)
  /\ crawl \in [Calls -> CallState]
  /\ returned \in BOOLEAN

CrawlInit == /\ links \in Web
             /\ found = {Root}
             /\ crawl = [p \in {<<Root>>} |-> NewCall]
             /\ returned = FALSE

Goto(p, l) == crawl' = [crawl EXCEPT ![p].pc = l]
-----------------------------------------------------------------------------
\* Faulty variant: the early returns send no report.
GiveUpSilent(p) == /\ crawl[p].pc = "start"
                   /\ Depth(p) <= 0 \/ ~Exists(UrlOf(p))
                   /\ Goto(p, "end")
                   /\ UNCHANGED <<links, found, returned>>

\* Nothing is fetched below the maximum depth or from a missing page.
GiveUp(p) == /\ crawl[p].pc = "start"
             /\ Depth(p) <= 0 \/ ~Exists(UrlOf(p))
             /\ Goto(p, "ready")
             /\ UNCHANGED <<links, found, returned>>

\* Faulty variant: the depth is not looked at.
FetchDeep(p) == /\ crawl[p].pc = "start" /\ Exists(UrlOf(p))
                /\ crawl' = [crawl EXCEPT ![p].pc = "loop",
                                          ![p].want = Cardinality(Unclaimed(UrlOf(p)))]
                /\ UNCHANGED <<links, found, returned>>

\* The page is fetched and its unclaimed links counted under a read lock.
Fetch(p) == /\ crawl[p].pc = "start" /\ Depth(p) > 0 /\ Exists(UrlOf(p))
            /\ crawl' = [crawl EXCEPT ![p].pc = "loop",
                                      ![p].want = Cardinality(Unclaimed(UrlOf(p)))]
            /\ UNCHANGED <<links, found, returned>>

Link(p) == links[UrlOf(p)][crawl[p].at]
AtLink(p) == crawl[p].at <= Len(links[UrlOf(p)])

\* Faulty variant: links already claimed are followed as well.
TestNothing(p) == /\ crawl[p].pc = "loop" /\ AtLink(p)
                  /\ Goto(p, "claim")
                  /\ UNCHANGED <<links, found, returned>>

\* IsIn(found.f, u), under a second read lock.
Test(p) == /\ crawl[p].pc = "loop" /\ AtLink(p)
           /\ IF Link(p) \in found THEN crawl' = [crawl EXCEPT ![p].at = @ + 1]
                                   ELSE Goto(p, "claim")
           /\ UNCHANGED <<links, found, returned>>

\* The append under the write lock, and the go statement.
Claim(p) == /\ crawl[p].pc = "claim"
            /\ found' = found \union {Link(p)}
            /\ crawl' = [q \in Calls \union {Append(p, Link(p))} |->
                           IF q = Append(p, Link(p)) THEN NewCall
                           ELSE IF q = p
                           THEN [crawl[p] EXCEPT !.pc = "loop", !.at = @ + 1]
                           ELSE crawl[q]]
            /\ UNCHANGED <<links, returned>>

LoopEnds(p) == /\ crawl[p].pc = "loop" /\ ~AtLink(p)
               /\ Goto(p, "collect")
               /\ UNCHANGED <<links, found, returned>>

\* <-readyChildren, childrenCount times.
Collect(p) == /\ crawl[p].pc = "collect"
              /\ \/ /\ crawl[p].got < crawl[p].want /\ crawl[p].reports > 0
                    /\ crawl' = [crawl EXCEPT ![p].got = @ + 1, ![p].reports = @ - 1]
                 \/ crawl[p].got = crawl[p].want /\ Goto(p, "ready")
              /\ UNCHANGED <<links, found, returned>>

\* The deferred ready <- url, to a channel with room for childrenCount
\* reports of the parent, or for the one main receives.
Ready(p) == /\ crawl[p].pc = "ready"
            /\ IF p = <<Root>> THEN Goto(p, "end")
               ELSE /\ crawl[Front(p)].reports < crawl[Front(p)].want
                    /\ crawl' = [crawl EXCEPT ![p].pc = "end", ![Front(p)].reports = @ + 1]
            /\ UNCHANGED <<links, found, returned>>

MainReturns == /\ crawl[<<Root>>].pc = "end" /\ ~returned
               /\ returned' = TRUE
               /\ UNCHANGED <<links, found, crawl>>

Call(p) == GiveUp(p) \/ Fetch(p) \/ Test(p) \/ Claim(p) \/ LoopEnds(p)
             \/ Collect(p) \/ Ready(p)

CrawlProgress == (\E p \in Calls : Call(p)) \/ MainReturns

\* The first call has not ended and no call can go on: each of them waits for
\* a report or for room to leave its own.  TLC reports any other state
\* without a step as a deadlock.
Stuck == /\ crawl[<<Root>>].pc # "end"
         /\ \A p \in Calls :
              /\ crawl[p].pc \in {"collect", "ready", "end"}
              /\ crawl[p].pc = "collect" =>
                   /\ crawl[p].got # crawl[p].want
                   /\ crawl[p].got >= crawl[p].want \/ crawl[p].reports = 0
              /\ crawl[p].pc = "ready" =>
                   p # <<Root>> /\ crawl[Front(p)].reports >= crawl[Front(p)].want

CrawlNext == CrawlProgress \/ ((Stuck \/ returned) /\ UNCHANGED crawlVars)

CrawlSpec     == CrawlInit /\ [][CrawlNext]_crawlVars
CrawlFairSpec == CrawlSpec /\ WF_crawlVars(CrawlNext)
-----------------------------------------------------------------------------
(* Properties                                                              *)

Children(p) == {q \in Calls : Len(q) = Len(p) + 1 /\ Front(q) = p}
Ended(S)    == {q \in S : crawl[q].pc = "end"}

\* A call never starts more children than it has counted, so the channel
\* it gives them has room and no child is blocked in its deferred send.
RoomForAll ==
  \A p \in Calls :
    /\ Cardinality(Children(p)) <= crawl[p].want
    /\ crawl[p].got + crawl[p].reports = Cardinality(Ended(Children(p)))

\* A call returns only after every call below it: when the root's report
\* arrives, nothing is being fetched.
ParentsOutlast ==
  \A p \in Calls : crawl[p].pc \in {"ready", "end"} => Ended(Children(p)) = Children(p)

\* No page is crawled before it is claimed, and every claimed page is: what
\* found.f lists is what calls were started for.
FoundIsCalled == found = {UrlOf(p) : p \in Calls}

\* What every call relies on.
CrawlInv == CrawlTypeOK /\ RoomForAll /\ ParentsOutlast /\ FoundIsCalled

\* The only way for the crawler to stop early: somebody waits for a child
\* that another call claimed after it was counted.
StuckIsOvercount ==
  Stuck =>
    \E p \in Calls : /\ crawl[p].pc = "collect"
                     /\ Ended(Children(p)) = Children(p)
                     /\ Cardinality(Children(p)) < crawl[p].want

\* The pages within a distance of the root that MaxDepth allows.
Within[d \in Nat] ==
  IF d = 0 THEN {Root}
  ELSE Within[d - 1] \union
         UNION {ToSet(links[u]) : u \in Within[d - 1] \intersect DOMAIN links}

\* No page is found that is further away than the maximum depth; and when main
\* goes on, every page within it has been, if the site is a tree.  Elsewhere a
\* page may be claimed by the longer of two paths to it, and its links are then
\* not followed as far as they might be.
Complete == /\ found \subseteq Within[MaxDepth]
            /\ returned /\ links \in Trees => found = Within[MaxDepth]

\* On a tree no link is counted that another call claims: main goes on.
TreesReturn == links \in Trees => <>returned

\* Crawl "recursively crawls pages starting with url": it comes back.
Returns == <>returned
=============================================================================
