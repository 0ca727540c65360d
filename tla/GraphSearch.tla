---------------------------- MODULE GraphSearch -----------------------------
(***************************************************************************)
(* The graph programs of algo/graphs.  adj maps each vertex to the list of *)
(* its children; vertices are numbered in the order of their names.  A     *)
(* search starts from unmarked vertices, and a step is a turn of one of    *)
(* its loops: mostly a look at the next child of a vertex.                 *)
(*                                                                         *)
(* Four of the programs are a depth-first search that differs only in when *)
(* it gives up (Refuses) and what it says of an edge (Said); what one of   *)
(* them does not note is noted for it.  The others work off a queue, of    *)
(* which the head is the vertex whose children are looked at.              *)
(***************************************************************************)
EXTENDS Integers, Sequences, FiniteSets, Functions, SequencesExt

CONSTANT Graphs                  \* the graphs to search

ASSUME GraphsAssumption == \A g \in Graphs :
  /\ IsFiniteSet(DOMAIN g) /\ DOMAIN g \subseteq Nat \ {0}
  /\ \A u \in DOMAIN g : g[u] \in Seq(DOMAIN g) /\ IsInjective(g[u])

VARIABLES adj, search, start,    \* the graph, the program and where it starts
          color, path, dist,     \* the marks of the vertices: the parent or 0,
          disc, fin, cc,         \* when they were discovered and finished
          nth,                   \* per vertex: its children that were looked at
          stack, clock, group,   \* the visits under way, time and cc_class
          que, passed,
          cnt, listed,           \* cntIn and what topo_sort has printed
          refused, told          \* the answer False; the kinds of edges printed

depthVars == <<disc, fin, cc, stack, clock, group, told>>
topoVars  == <<cnt, listed>>
graphVars == <<adj, search, start, color, path, dist, nth, que, passed, refused, depthVars, topoVars>>

Nodes       == DOMAIN adj
Children(u) == Range(adj[u])
Edges       == {e \in Nodes \X Nodes : e[2] \in Children(e[1])}

DepthFirst == {"dag", "uag", "cc", "edges"}
Infinity   == -1                 \* the distance of a vertex that is not reached

\* What is before the loops.  The sources are gone through in any order.
Parents(v) == {u \in Nodes : v \in Children(u)}
GraphInit ==
  /\ adj \in Graphs
  /\ \/ search \in DepthFirst /\ start = 0 /\ que = <<>>
     \/ search \in {"bfs", "wrestlers"} /\ start \in Nodes /\ que = <<start>>
     \/ search = "topo" /\ start = 0 /\ que \in SetToSeqs({v \in Nodes : Parents(v) = {}})
  /\ color = [v \in Nodes |-> IF search = "wrestlers" THEN IF v = start THEN "white" ELSE "gray"
                              ELSE IF v = start THEN "gray" ELSE "white"]
  /\ dist = [v \in Nodes |-> IF v = start THEN 0 ELSE Infinity]
  /\ path = [v \in Nodes |-> 0] /\ nth = path
  /\ disc = path /\ fin = path /\ cc = path
  /\ stack = <<>> /\ clock = 0 /\ group = 1
  /\ passed = {} /\ refused = FALSE /\ told = {}
  /\ cnt = [v \in Nodes |-> Cardinality(Parents(v))] /\ listed = <<>>

\* u looks at its next child, v.
Looks(u, v) == nth[u] < Len(adj[u]) /\ v = adj[u][nth[u] + 1]
Advances(u) == nth' = [nth EXCEPT ![u] = @ + 1]
Through(u)  == nth[u] = Len(adj[u])
-----------------------------------------------------------------------------
(* Depth first                                                             *)

Here == stack[Len(stack)]

Enter(u) == /\ color' = [color EXCEPT ![u] = "gray"]
            /\ clock' = clock + 1 /\ disc' = [disc EXCEPT ![u] = clock + 1]
            /\ cc' = [cc EXCEPT ![u] = group]
            /\ stack' = Append(stack, u)
            /\ UNCHANGED <<fin, group, refused>>

\* A tree from the first vertex that is still white.
Root == /\ stack = <<>>
        /\ \E u \in Nodes : /\ color[u] = "white"
                            /\ \A v \in Nodes : color[v] = "white" => u <= v
                            /\ Enter(u)
        /\ UNCHANGED <<path, nth, told>>

\* dfs-edges.py looks at the child again when it has been visited.
Visit == /\ stack # <<>>
         /\ \E v \in Nodes : /\ Looks(Here, v) /\ color[v] = "white"
                             /\ path' = [path EXCEPT ![v] = Here]
                             /\ told' = told \union {<<<<Here, v>>, "tree">>}
                             /\ Enter(v)
         /\ IF search = "edges" THEN UNCHANGED nth ELSE Advances(Here)

\* Faulty variant: a vertex that is finished is taken for an ancestor, or,
\* of an undirected graph, only an ancestor is taken for a second way.
RefusesBlack(v) == \/ search = "dag" /\ color[v] # "white"
                   \/ search = "uag" /\ color[v] = "gray"

\* The child ends the search.
Refuses(v) == \/ search = "dag" /\ color[v] = "gray"
              \/ search = "uag" /\ color[v] # "white"

Refuse == /\ stack # <<>>
          /\ \E v \in Nodes : Looks(Here, v) /\ Refuses(v)
          /\ refused' = TRUE
          /\ UNCHANGED <<color, path, nth, depthVars>>

\* Faulty variant: the times are compared the wrong way round.
SaidSwapped(u, v) == IF color[v] = "gray" \/ u \in Children(v) THEN "back"
                     ELSE IF disc[u] > disc[v] THEN "forward" ELSE "cross"

\* What dfs-edges.py says of an edge to a vertex that is not white any more.
Said(u, v) == IF color[v] = "gray" \/ u \in Children(v) THEN "back"
              ELSE IF disc[u] < disc[v] THEN "forward" ELSE "cross"

Pass == /\ stack # <<>>
        /\ \E v \in Nodes : /\ Looks(Here, v) /\ color[v] # "white" /\ ~Refuses(v)
                            /\ told' = told \union {<<<<Here, v>>, Said(Here, v)>>}
        /\ Advances(Here)
        /\ UNCHANGED <<color, path, disc, fin, cc, stack, clock, group, refused>>

\* Faulty variant: the class is the same for all trees of the search.
LeaveOneClass == /\ stack # <<>> /\ Through(Here)
                 /\ color' = [color EXCEPT ![Here] = "black"]
                 /\ clock' = clock + 1 /\ fin' = [fin EXCEPT ![Here] = clock + 1]
                 /\ stack' = SubSeq(stack, 1, Len(stack) - 1)
                 /\ UNCHANGED <<path, nth, disc, cc, group, refused, told>>

Leave == /\ stack # <<>> /\ Through(Here)
         /\ color' = [color EXCEPT ![Here] = "black"]
         /\ clock' = clock + 1 /\ fin' = [fin EXCEPT ![Here] = clock + 1]
         /\ stack' = SubSeq(stack, 1, Len(stack) - 1)
         /\ group' = IF Len(stack) = 1 THEN group + 1 ELSE group
         /\ UNCHANGED <<path, nth, disc, cc, refused, told>>

DepthStep == /\ search \in DepthFirst /\ ~refused
             /\ Root \/ Visit \/ Refuse \/ Pass \/ Leave
             /\ UNCHANGED <<dist, que, passed, topoVars>>
-----------------------------------------------------------------------------
(* Breadth first: bfs.py and the same search in find-tree-diam.py          *)

\* Faulty variant: a vertex is marked when its turn comes, not when it is found.
FindUnmarked == /\ \E v \in Nodes : /\ Looks(Head(que), v) /\ color[v] = "white"
                                    /\ path' = [path EXCEPT ![v] = Head(que)]
                                    /\ dist' = [dist EXCEPT ![v] = dist[Head(que)] + 1]
                                    /\ que' = Append(que, v)
                /\ Advances(Head(que)) /\ UNCHANGED color

Find == /\ \E v \in Nodes : /\ Looks(Head(que), v) /\ color[v] = "white"
                            /\ color' = [color EXCEPT ![v] = "gray"]
                            /\ path' = [path EXCEPT ![v] = Head(que)]
                            /\ dist' = [dist EXCEPT ![v] = dist[Head(que)] + 1]
                            /\ que' = Append(que, v)
        /\ Advances(Head(que))

Skip == /\ \E v \in Nodes : Looks(Head(que), v) /\ color[v] # "white"
        /\ Advances(Head(que)) /\ UNCHANGED <<color, path, dist, que>>

Dequeue == que' = Tail(que) /\ nth' = [nth EXCEPT ![Head(que)] = 0]

Blacken == /\ Through(Head(que)) /\ Dequeue
           /\ color' = [color EXCEPT ![Head(que)] = "black"]
           /\ UNCHANGED <<path, dist>>

BreadthStep == /\ search = "bfs" /\ que # <<>>
               /\ Find \/ Skip \/ Blacken
               /\ UNCHANGED <<passed, refused, depthVars, topoVars>>
-----------------------------------------------------------------------------
(* pro-wrestlers.py: gray is a vertex without a color, white a babyface    *)

Neg(c) == IF c = "white" THEN "black" ELSE "white"

\* Faulty variant: its own rivals are not looked at.
RivalUnseen == /\ \E v \in Nodes : /\ Looks(Head(que), v) /\ v \notin passed
                                   /\ color' = [color EXCEPT ![v] = Neg(color[Head(que)])]
                                   /\ que' = Append(que, v)
               /\ Advances(Head(que)) /\ UNCHANGED <<passed, refused>>

\* A rival that is not passed is colored, again if need be, unless one of its
\* own rivals has that color.
Rival == /\ \E v \in Nodes :
              /\ Looks(Head(que), v) /\ v \notin passed
              /\ IF Neg(color[Head(que)]) \in {color[w] : w \in Children(v)}
                 THEN refused' = TRUE /\ UNCHANGED <<color, que, nth>>
                 ELSE /\ color' = [color EXCEPT ![v] = Neg(color[Head(que)])]
                      /\ que' = Append(que, v)
                      /\ Advances(Head(que)) /\ UNCHANGED refused
         /\ UNCHANGED passed

RivalPassed == /\ \E v \in passed : Looks(Head(que), v)
               /\ Advances(Head(que)) /\ UNCHANGED <<color, que, passed, refused>>

WrestlerPasses == /\ Through(Head(que)) /\ Dequeue
                  /\ passed' = passed \union {Head(que)}
                  /\ UNCHANGED <<color, refused>>

ColorStep == /\ search = "wrestlers" /\ que # <<>> /\ ~refused
             /\ Rival \/ RivalPassed \/ WrestlerPasses
             /\ UNCHANGED <<path, dist, depthVars, topoVars>>
-----------------------------------------------------------------------------
(* topo-sorting.py                                                         *)

\* Faulty variant: a vertex follows the first of its parents.
CountDownEager == /\ \E v \in Nodes : /\ Looks(Head(que), v)
                                      /\ cnt' = [cnt EXCEPT ![v] = 0]
                                      /\ que' = IF cnt[v] > 0 THEN Append(que, v) ELSE que
                  /\ Advances(Head(que)) /\ UNCHANGED listed

CountDown == /\ \E v \in Nodes : /\ Looks(Head(que), v)
                                 /\ cnt' = [cnt EXCEPT ![v] = @ - 1]
                                 /\ que' = IF cnt[v] = 1 THEN Append(que, v) ELSE que
             /\ Advances(Head(que)) /\ UNCHANGED listed

\* What was taken from the queue is printed, here when its children are through.
PrintName == /\ Through(Head(que)) /\ Dequeue
             /\ listed' = Append(listed, Head(que)) /\ UNCHANGED cnt

TopoStep == /\ search = "topo" /\ que # <<>>
            /\ CountDown \/ PrintName
            /\ UNCHANGED <<color, path, dist, passed, refused, depthVars>>
-----------------------------------------------------------------------------
GraphNext == /\ DepthStep \/ BreadthStep \/ ColorStep \/ TopoStep
             /\ UNCHANGED <<adj, search, start>>

GraphSpec == GraphInit /\ [][GraphNext]_graphVars

\* The search has ended.
Answered(s) == /\ search = s
               /\ refused \/ (stack = <<>> /\ que = <<>>)
               /\ search \in DepthFirst => refused \/ \A v \in Nodes : color[v] # "white"
-----------------------------------------------------------------------------
(* What the answers should be                                              *)

\* The vertices that edges of E lead to from u: what every set has that has u
\* and that no such edge leaves.
Reach(E, u) == {v \in Nodes : \A S \in SUBSET Nodes :
                  u \in S /\ (\A e \in E : e[1] \in S => e[2] \in S) => v \in S}

OnCycle(e) == e[1] \in Reach(Edges, e[2])

\* Each edge has one in the other direction, and none is a loop.
Undirected == \A e \in Edges : <<e[2], e[1]>> \in Edges /\ e[1] # e[2]

\* There is a walk of k edges from the start to v.
WalkTo(k, v) == \E w \in [0..k -> Nodes] :
  w[0] = start /\ w[k] = v /\ \A i \in 0..(k - 1) : <<w[i], w[i + 1]>> \in Edges

\* bfs.py: every vertex that can be reached gets the length of a shortest walk,
\* and its path leads one step back along such a walk.
BfsShortest == Answered("bfs") => \A v \in Nodes :
  /\ dist[v] # Infinity <=> v \in Reach(Edges, start)
  /\ dist[v] # Infinity => WalkTo(dist[v], v) /\ \A k \in 0..(dist[v] - 1) : ~WalkTo(k, v)
  /\ path[v] = 0 <=> v = start \/ dist[v] = Infinity
  /\ path[v] # 0 => <<path[v], v>> \in Edges /\ dist[v] = dist[path[v]] + 1

\* find-tree-diam.py: what the loop of find_diameter finds, when everything is
\* reached, is the longest of the distances from the root.  It is the diameter
\* only if the root is an end of a longest path.
Deepest == CHOOSE d \in Range(dist) : \A v \in Nodes : dist[v] <= d
DepthOfTree == Answered("bfs") /\ Reach(Edges, start) = Nodes =>
  /\ \E v \in Nodes : WalkTo(Deepest, v) /\ \A k \in 0..(Deepest - 1) : ~WalkTo(k, v)
  /\ \A v \in Nodes : \E k \in 0..Deepest : WalkTo(k, v)

\* find-simple-paths.py: a graph is refused exactly if it has a cycle, and
\* otherwise finished, which is how its vertices are sorted, such that each
\* comes behind all those it leads to.
DagExact == Answered("dag") =>
  /\ refused <=> \E e \in Edges : OnCycle(e)
  /\ ~refused => \A e \in Edges : fin[e[2]] < fin[e[1]]

\* check-undirected-acyclic.py: a graph is accepted exactly if no vertex is a
\* child of two and every child is led to from a vertex of an earlier name.  It
\* has then no cycle in whichever direction its edges are taken, but no edge
\* that is given in both directions either: what is undirected is refused,
\* trees included, as the parent of a vertex is not told from a second way.
Both(E)     == E \union {<<e[2], e[1]>> : e \in E}
OneParent   == \A e, f \in Edges : e[2] = f[2] => e = f
FromEarlier == \A e \in Edges : \E w \in Nodes : w < e[2] /\ e[2] \in Reach(Edges, w)
AcceptedExact == Answered("uag") =>
  /\ ~refused <=> OneParent /\ FromEarlier
  /\ ~refused => \A e \in Edges : /\ <<e[2], e[1]>> \notin Edges
                                  /\ e[1] \notin Reach(Both(Edges \ {e}), e[2])

\* identify-connected.py: of an undirected graph, two vertices have the same
\* number exactly if they are connected.
ComponentsExact == Answered("cc") /\ Undirected =>
  \A u, v \in Nodes : cc[u] = cc[v] <=> v \in Reach(Edges, u)

\* The kind of an edge, by the forest that the search has left.
Kind(e) == LET u == e[1]
               v == e[2]
           IN  IF path[v] = u THEN "tree"
               ELSE IF disc[v] <= disc[u] /\ fin[u] <= fin[v] THEN "back"
               ELSE IF disc[u] <= disc[v] /\ fin[v] <= fin[u] THEN "forward"
               ELSE "cross"

\* dfs-edges.py: an edge is printed with its kind and no other, but an edge of
\* a tree is printed as a forward edge too.  This is said of edges that have
\* none in the other direction, with which the program takes them for one.
Tells(e) == {k \in {"tree", "back", "forward", "cross"} : <<e, k>> \in told}
KindsPrinted == Answered("edges") => \A e \in Edges : <<e[2], e[1]>> \notin Edges =>
  Tells(e) = IF Kind(e) = "tree" THEN {"tree", "forward"} ELSE {Kind(e)}

\* topo-sorting.py: whatever the order of the set of vertices, a vertex is
\* printed after all its parents, once, and only those are left out that a
\* cycle leads to.
TopoOrder == Answered("topo") =>
  /\ \A i, j \in DOMAIN listed : /\ listed[i] = listed[j] => i = j
                                 /\ <<listed[i], listed[j]>> \in Edges => i < j
  /\ \A v \in Nodes : v \in Range(listed) <=> ~\E e \in Edges : OnCycle(e) /\ v \in Reach(Edges, e[1])

\* pro-wrestlers.py: two colors are possible for the rivals that can be reached
\* from the start exactly if the program says so, and it then has found them.
Proper(c) == \A e \in Edges : e[1] \in Reach(Edges, start) => c[e[1]] # c[e[2]]
ColoringExact == Answered("wrestlers") /\ Undirected =>
  IF refused THEN ~\E c \in [Reach(Edges, start) -> {"white", "black"}] : Proper(c)
             ELSE Proper(color) /\ \A v \in Reach(Edges, start) : color[v] # "gray"

\* Each program answers, of every graph, what is said above of it.
AllExact == /\ BfsShortest /\ DepthOfTree /\ DagExact /\ AcceptedExact /\ ComponentsExact
            /\ KindsPrinted /\ TopoOrder /\ ColoringExact
-----------------------------------------------------------------------------
(* What the comments of two programs say                                   *)

\* find-tree-diam.py "finds the diameter of a tree": the longest of the shortest
\* walks between any two vertices.
WalkBetween(u, v, k) == \E w \in [0..k -> Nodes] :
  w[0] = u /\ w[k] = v /\ \A i \in 0..(k - 1) : <<w[i], w[i + 1]>> \in Edges
IsTree == /\ Undirected /\ \A u \in Nodes : Reach(Edges, u) = Nodes
          /\ Cardinality(Edges) = 2 * (Cardinality(Nodes) - 1)
FindsDiameter == Answered("bfs") /\ IsTree =>
  \A u, v \in Nodes : \E k \in 0..Deepest : WalkBetween(u, v, k)

\* dfs-edges.py: an edge it prints as a forward edge "is a non-tree edge".
ForwardIsNoTreeEdge == \A e \in Edges : "forward" \in Tells(e) => Kind(e) # "tree"
=============================================================================
