------------------------------ MODULE MCCrawl -------------------------------
(* Fetchers of up to four pages for the crawler.                           *)
EXTENDS Crawl

CONSTANTS go, pkg, cmd, fmt

MCUrl == {go, pkg, cmd, fmt}

\* The canned fetcher of goroutine.go without pkg/os/, which is linked like
\* pkg/fmt/: cmd/ is linked from two pages and does not exist.
Canned == {(go :> <<pkg, cmd>>) @@ (pkg :> <<go, cmd, fmt>>) @@ (fmt :> <<go, pkg>>)}

\* Sites in which the only other links of a page lead back to the pages it
\* was reached through, as a navigation bar does.
MCTrees == {(go :> <<pkg, cmd>>) @@ (pkg :> <<go, fmt>>) @@ (fmt :> <<go, pkg>>),
            (go :> <<pkg, cmd, fmt>>) @@ (pkg :> <<go>>) @@ (cmd :> <<>>),
            (go :> <<go, pkg>>) @@ (pkg :> <<cmd, go>>) @@ (cmd :> <<fmt>>) @@ (fmt :> <<cmd>>)}

\* Lists of at most two links, double links included.
Lists(S) == {<<>>} \union {<<u>> : u \in S} \union {<<u, v>> : u, v \in S}

\* Sites with up to two links on a page, double links included: pkg and cmd
\* may link to each other and to fmt, and the pages fmt and cmd may be missing.
Sites == {(go :> g) @@ (pkg :> p) @@ more : g \in {<<pkg>>, <<pkg, cmd>>, <<cmd, pkg>>, <<pkg, pkg>>},
                                            p \in Lists({cmd, fmt}),
                                            more \in {<<>>} \union [{cmd} -> Lists({pkg, fmt})]
                                                     \union [{cmd, fmt} -> {<<pkg>>, <<fmt>>}]}

NoTrees == {}
SitesAndTrees == Sites \union MCTrees
=============================================================================
