---------------------------- MODULE MCGoPrograms ----------------------------
(***************************************************************************)
(* The small concurrent programs that share nothing: the prime sieve, the  *)
(* split of power-series.go, sq-merge.go and the crawler.  The first state *)
(* chooses one, and only its steps are taken.                              *)
(*                                                                         *)
(* Of split, only the second consumer is sure to read on; the first may    *)
(* stop at any term, or never begin.  sq-merge has two branches, as main   *)
(* starts them, and six numbers, two more than the branches have room for; *)
(* main may leave at once, in the middle, or ask for one value more than   *)
(* there are.  The sites of the crawler are those of MCCrawl.              *)
(***************************************************************************)
EXTENDS MCCrawl, Sieve, Split, SqMerge

CONSTANTS b1, b2

VARIABLE program

MCBranch == {b1, b2}
OnlyF1   == {F1}

goVars == <<program, sieveVars, vars, mergeVars, crawlVars>>

\* A program that does not run stays where it begins.
MCInit == /\ program \in {"sieve", "split", "merge", "crawl"}
          /\ SieveInit /\ Init /\ MergeInit /\ CrawlInit
          /\ program # "merge" => receives = 0
          /\ program # "crawl" => links = CHOOSE site \in Sites : TRUE

Runs(p) == program = p /\ UNCHANGED program

\* The sieve stands when generate has reached the limit, and split when nobody
\* reads; the other two stop only where their next-state relations say so.
MCNext ==
  \/ Runs("sieve") /\ SieveNext /\ UNCHANGED <<vars, mergeVars, crawlVars>>
  \/ Runs("split") /\ Next /\ UNCHANGED <<sieveVars, mergeVars, crawlVars>>
  \/ Runs("merge") /\ MergeNext /\ UNCHANGED <<sieveVars, vars, crawlVars>>
  \/ Runs("crawl") /\ CrawlNext /\ UNCHANGED <<sieveVars, vars, mergeVars>>
  \/ program \in {"sieve", "split"} /\ UNCHANGED goVars

\* The fairness of each program, that of split as in its module.
MCFairSpec == /\ MCInit /\ [][MCNext]_goVars
              /\ WF_sieveVars(program = "sieve" /\ SieveNext)
              /\ WF_vars(program = "split" /\ \E p \in Proc : Take(p))
              /\ WF_vars(program = "split" /\ \E p, q \in Proc : Forward(p, q))
              /\ \A c \in Reader : WF_vars(program = "split" /\ \E p \in Proc : Deliver(p, c))
              /\ WF_mergeVars(program = "merge" /\ Progress)
              /\ WF_crawlVars(program = "crawl" /\ CrawlNext)
-----------------------------------------------------------------------------
\* What the program that runs must come to, as its module has it.
SievePrints  == program = "sieve" => AllPrinted
SplitYields  == program = "split" => Independent
MergeExits   == program = "merge" => AllExit
CrawlReturns == program = "crawl" => TreesReturn
=============================================================================
