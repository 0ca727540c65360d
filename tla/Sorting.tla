------------------------------ MODULE Sorting -------------------------------
(***************************************************************************)
(* The sorting programs of algo/sorting.  A list is a function from its    *)
(* indexes, counted from 0, and is sorted in place.  heap-sort.py keeps a  *)
(* -1 at index 0 and sorts the rest.                                       *)
(*                                                                         *)
(* The stack of calls holds what is still to be sorted, from index p to r, *)
(* or to be merged; the call on top is under way.  A step is a turn of one *)
(* of its loops: "at" says of which, or is "call" before the first.        *)
(***************************************************************************)
EXTENDS Integers, Sequences, FiniteSets

CONSTANT Lists                   \* what is sorted: lists of numbers above -1

Length(a) == Cardinality(DOMAIN a)

ASSUME ListsAssumption ==
  \A a \in Lists : Length(a) \in Nat /\ a \in [0..(Length(a) - 1) -> Nat]

VARIABLES given, prog,           \* the list as it was, and the program
          ls,
          calls,
          at,                    \* and the locals of its partition or loop:
          lo, hi,                \* i and j; the node in max_heapify
          edge,                  \* l, and q behind it; heap_size
          pivot,                 \* x, or key
          copy                   \* left and right, at their indexes in ls

sortVars == <<given, prog, ls, calls, at, lo, hi, edge, pivot, copy>>

Programs == {"merge", "insertion", "hoare", "simple", "equal", "heap"}

Sort(p, r)  == [f |-> "sort", p |-> p, r |-> r]
Merge(p, r) == [f |-> "merge", p |-> p, r |-> r]
Mid(c)      == (c.p + c.r + 1) \div 2
Top         == calls[Len(calls)]
Rest        == SubSeq(calls, 1, Len(calls) - 1)

\* The list behind its leading -1.
Headed(a) == [k \in 0..Length(a) |-> IF k = 0 THEN -1 ELSE a[k - 1]]

SortInit == /\ prog \in Programs
            /\ \E a \in Lists : given = IF prog = "heap" THEN Headed(a) ELSE a
            /\ ls = given /\ calls = <<Sort(0, Length(given) - 1)>>
            /\ at = "call" /\ lo = 0 /\ hi = 0 /\ edge = 0 /\ pivot = 0 /\ copy = <<>>
-----------------------------------------------------------------------------
Locals(a, i, j, l, x) == at' = a /\ lo' = i /\ hi' = j /\ edge' = l /\ pivot' = x

Calls(which, f) == calls # <<>> /\ at = "call" /\ prog = which /\ Top.f = f

Swaps(i, j) == ls' = [ls EXCEPT ![i] = ls[j], ![j] = ls[i]]

\* A loop begins, or the next one.
Loops(a, i, j, l, x) == Locals(a, i, j, l, x) /\ UNCHANGED <<calls, copy>>

\* The call on top is over and leaves the calls in t, the last of which is next.
Leaves(t) == /\ calls' = Rest \o t
             /\ Locals("call", 0, 0, 0, 0) /\ copy' = <<>>

\* One element or none.
Return == /\ \E which \in {"merge", "hoare", "simple", "equal"} : Calls(which, "sort")
          /\ Top.p >= Top.r
          /\ Leaves(<<>>) /\ UNCHANGED ls
-----------------------------------------------------------------------------
(* merge-sort.py                                                           *)

MergeSort == /\ Calls("merge", "sort") /\ Top.p < Top.r
             /\ Leaves(<<Merge(Top.p, Top.r), Sort(Mid(Top), Top.r), Sort(Top.p, Mid(Top) - 1)>>)
             /\ UNCHANGED ls

MergeBegins == /\ Calls("merge", "merge")
               /\ Locals("merge", Top.p, Mid(Top), 0, 0) /\ copy' = ls
               /\ UNCHANGED <<ls, calls>>

\* k is where as many are in place as were taken from left and right.
TakeLeft == /\ at = "merge" /\ lo < Mid(Top)
            /\ hi <= Top.r => copy[lo] <= copy[hi]
            /\ ls' = [ls EXCEPT ![lo + (hi - Mid(Top))] = copy[lo]]
            /\ lo' = lo + 1
            /\ UNCHANGED <<calls, at, hi, edge, pivot, copy>>

TakeRight == /\ at = "merge" /\ hi <= Top.r
             /\ lo < Mid(Top) => copy[lo] > copy[hi]
             /\ ls' = [ls EXCEPT ![lo + (hi - Mid(Top))] = copy[hi]]
             /\ hi' = hi + 1
             /\ UNCHANGED <<calls, at, lo, edge, pivot, copy>>

MergeEnds == /\ at = "merge" /\ lo = Mid(Top) /\ hi > Top.r
             /\ Leaves(<<>>) /\ UNCHANGED ls

Insertion == /\ Calls("insertion", "sort")
             /\ Loops("next", 1, 0, 0, 0) /\ UNCHANGED ls

NextKey == /\ at = "next" /\ lo < Length(ls)
           /\ Loops("shift", lo, lo - 1, 0, ls[lo]) /\ UNCHANGED ls

Larger == hi >= 0 /\ ls[hi] > pivot

Shift == /\ at = "shift" /\ Larger
         /\ ls' = [ls EXCEPT ![hi + 1] = ls[hi]]
         /\ Loops("shift", lo, hi - 1, 0, pivot)

Place == /\ at = "shift" /\ ~Larger
         /\ ls' = [ls EXCEPT ![hi + 1] = pivot]
         /\ Loops("next", lo + 1, 0, 0, 0)

InsertionEnds == /\ at = "next" /\ lo >= Length(ls)
                 /\ Leaves(<<>>) /\ UNCHANGED ls
-----------------------------------------------------------------------------
(* quicksort.py                                                            *)

HoarePartition == /\ Calls("hoare", "sort") /\ Top.p < Top.r
                  /\ Loops("down", Top.p - 1, Top.r + 1, 0, ls[Top.p]) /\ UNCHANGED ls

Down == /\ at = "down"
        /\ Loops(IF ls[hi - 1] > pivot THEN "down" ELSE "up", lo, hi - 1, 0, pivot)
        /\ UNCHANGED ls

Up == /\ at = "up" /\ ls[lo + 1] < pivot
      /\ Loops("up", lo + 1, hi, 0, pivot) /\ UNCHANGED ls

Exchange == /\ at = "up" /\ ls[lo + 1] >= pivot /\ lo + 1 < hi
            /\ Swaps(lo + 1, hi)
            /\ Loops("down", lo + 1, hi, 0, pivot)

\* Faulty variant: the pivot is taken for a part of its own.
HoareSplitStrict == /\ at = "up" /\ ls[lo + 1] >= pivot /\ lo + 1 >= hi
                    /\ Leaves(<<Sort(hi + 1, Top.r), Sort(Top.p, hi - 1)>>) /\ UNCHANGED ls

HoareSplit == /\ at = "up" /\ ls[lo + 1] >= pivot /\ lo + 1 >= hi
              /\ Leaves(<<Sort(hi + 1, Top.r), Sort(Top.p, hi)>>) /\ UNCHANGED ls

Partition == /\ Calls("simple", "sort") /\ Top.p < Top.r
             /\ Loops("scan", Top.p - 1, Top.p, 0, ls[Top.r]) /\ UNCHANGED ls

Scan == /\ at = "scan" /\ hi < Top.r
        /\ IF ls[hi] <= pivot THEN Swaps(hi, lo + 1) /\ Loops("scan", lo + 1, hi + 1, 0, pivot)
                              ELSE Loops("scan", lo, hi + 1, 0, pivot) /\ UNCHANGED ls

Split == /\ at = "scan" /\ hi = Top.r
         /\ Swaps(Top.r, lo + 1)
         /\ Leaves(<<Sort(lo + 2, Top.r), Sort(Top.p, lo)>>)

PartitionEq == /\ Calls("equal", "sort") /\ Top.p < Top.r
               /\ Loops("gather", Top.p - 1, Top.p, Top.r, ls[Top.r]) /\ UNCHANGED ls

\* Faulty variant: what was swapped in from the end is not looked at.
GatherSkips == /\ at = "gather" /\ hi < edge
               /\ \/ /\ ls[hi] < pivot
                     /\ Swaps(hi, lo + 1) /\ Loops("gather", lo + 1, hi + 1, edge, pivot)
                  \/ /\ ls[hi] = pivot
                     /\ Swaps(edge - 1, hi) /\ Loops("gather", lo, hi + 1, edge - 1, pivot)
                  \/ /\ ls[hi] > pivot
                     /\ Loops("gather", lo, hi + 1, edge, pivot) /\ UNCHANGED ls

\* The elements equal to the pivot gather at the end, from l on.
Gather == /\ at = "gather" /\ hi < edge
          /\ \/ /\ ls[hi] < pivot
                /\ Swaps(hi, lo + 1) /\ Loops("gather", lo + 1, hi + 1, edge, pivot)
             \/ /\ ls[hi] = pivot
                /\ Swaps(edge - 1, hi) /\ Loops("gather", lo, hi, edge - 1, pivot)
             \/ /\ ls[hi] > pivot
                /\ Loops("gather", lo, hi + 1, edge, pivot) /\ UNCHANGED ls

\* hi is q from here on.
Gathered == /\ at = "gather" /\ hi >= edge
            /\ Loops("move", lo, lo + 1, edge, pivot) /\ UNCHANGED ls

Move == /\ at = "move" /\ edge <= Top.r
        /\ Swaps(hi, edge) /\ Loops("move", lo, hi + 1, edge + 1, pivot)

SplitEq == /\ at = "move" /\ edge > Top.r
           /\ Leaves(<<Sort(hi, Top.r), Sort(Top.p, lo)>>) /\ UNCHANGED ls
-----------------------------------------------------------------------------
(* heap-sort.py                                                            *)

HeapSort == /\ Calls("heap", "sort")
            /\ Loops("build", Length(ls) \div 2 - 1, 0, 0, 0) /\ UNCHANGED ls

\* max_heapify goes on at hi, for place lo of the list or for its root.
Build == /\ at = "build" /\ lo >= 1
         /\ Loops("heapify", lo, lo, Length(ls), 0) /\ UNCHANGED ls

Built == /\ at = "build" /\ lo < 1
         /\ Loops("extract", Length(ls) - 1, 0, 0, 0) /\ UNCHANGED ls

\* The largest goes behind the heap, which gets shorter by it.
Extract == /\ at = "extract" /\ lo >= 2
           /\ Swaps(lo, 1) /\ Loops("reheap", lo, 1, lo, 0)

HeapEnds == /\ at = "extract" /\ lo < 2
            /\ Leaves(<<>>) /\ UNCHANGED ls

LargerChildren == {c \in {2 * hi, 2 * hi + 1} : c < edge /\ ls[hi] < ls[c]}

\* Faulty variant: the child on the right is taken for the larger one.
HeapifyRight == /\ at \in {"heapify", "reheap"}
                /\ \E c \in LargerChildren :
                     /\ \A d \in LargerChildren : d <= c
                     /\ Swaps(c, hi) /\ Loops(at, lo, c, edge, 0)

\* Of two children as large the left one.
Heapify == /\ at \in {"heapify", "reheap"}
           /\ \E c \in LargerChildren :
                /\ \A d \in LargerChildren : ls[d] < ls[c] \/ (ls[d] = ls[c] /\ c <= d)
                /\ Swaps(c, hi) /\ Loops(at, lo, c, edge, 0)

Heapified == /\ at \in {"heapify", "reheap"} /\ LargerChildren = {}
             /\ Loops(IF at = "heapify" THEN "build" ELSE "extract", lo - 1, 0, 0, 0)
             /\ UNCHANGED ls
-----------------------------------------------------------------------------
MergeStep  == MergeSort \/ MergeBegins \/ TakeLeft \/ TakeRight \/ MergeEnds
InsertStep == Insertion \/ NextKey \/ Shift \/ Place \/ InsertionEnds
HoareStep  == HoarePartition \/ Down \/ Up \/ Exchange \/ HoareSplit
SimpleStep == Partition \/ Scan \/ Split
EqualStep  == PartitionEq \/ Gather \/ Gathered \/ Move \/ SplitEq
HeapStep   == HeapSort \/ Build \/ Built \/ Extract \/ HeapEnds \/ Heapify \/ Heapified

SortNext == /\ Return \/ MergeStep \/ InsertStep \/ HoareStep \/ SimpleStep \/ EqualStep \/ HeapStep
            /\ UNCHANGED <<given, prog>>

SortSpec == SortInit /\ [][SortNext]_sortVars
-----------------------------------------------------------------------------
(* Properties                                                              *)

Times(a, x) == Cardinality({k \in DOMAIN a : a[k] = x})
Sorted(a)   == \A k \in DOMAIN a \ {0} : a[k - 1] <= a[k]
Same        == DOMAIN ls = DOMAIN given /\ \A k \in DOMAIN given : Times(ls, given[k]) = Times(given, given[k])

Over == calls = <<>>

\* Merging, inserting and the three ways of partitioning, with their different
\* borders of the parts that are left to sort, bring every list in order and
\* neither lose nor double an element, also among equal ones.
Sorts == Over /\ prog \in Programs \ {"heap"} => Same /\ Sorted(ls)

\* partition_eq leaves the elements equal to the pivot from q to t - 1, with
\* the smaller ones before and the larger ones behind them: they can be left
\* out of what is sorted next.
EqualApart == at = "move" /\ edge > Top.r =>
  \A k \in Top.p..Top.r : (k <= lo <=> ls[k] < pivot) /\ (k \in (lo + 1)..(hi - 1) <=> ls[k] = pivot)

\* The scans of hoare_partition have no test for the ends of the part they
\* divide: the pivot, or what was swapped before, stops them.
ScansStay == /\ at = "down" => hi - 1 >= Top.p
             /\ at = "up"   => lo + 1 <= Top.r

\* Heap sort sorts the lists of odd length.  Of a list of even length it does
\* not look at the last place that has a child, and relies on that child, the
\* last element, being no larger.  (With the -1 the lengths are one more.)
HeapSorts == Over /\ prog = "heap" =>
  LET n == Length(given)
  IN  /\ Same /\ ls[0] = given[0]
      /\ n % 2 = 0 \/ given[n - 1] <= given[n \div 2] => \A k \in 2..(n - 1) : ls[k - 1] <= ls[k]

\* What each program leaves is what was given, in order; but heap sort has the
\* gap above.
AllSort == Sorts /\ EqualApart /\ ScansStay /\ HeapSorts
=============================================================================
