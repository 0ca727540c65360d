# Verification of learning-code

TLA+ models of the programs in this repository whose correctness is hard to test,
with TLC runs on small instances and TLAPS proofs for every instance.

The repository collects a few hundred independent exercises in some fifteen
languages. Most are sequential and pure. The programs in which several activities
interact, and where a unit test says little, are modelled first: the Go programs
under `src/go/src/github.com/emdeha/goroutine/`; the libuv programs `uvcat` and `uvtee`
under `src/libuv/webserver/`, with as much of the library as they use; and the clustered
file responder of `src/node/nodejs-right-way/`. Of the sequential programs, those whose
answers have corners a test would hardly reach: the Lisp interpreter of
`src/lisp-c/ch11/`, and the sorting programs, graph searches and dynamic programs of
`src/algo/`. Go paths that do not begin with `src/` are relative to the first of
these directories.

1. [Inventory](#inventory)
2. [Modelling conventions](#modelling-conventions)
3. [The modules](#the-modules)
4. [Runs, bounds and fairness](#runs-bounds-and-fairness)
5. [Proofs](#proofs)
6. [Findings](#findings)
7. [What is not modelled](#what-is-not-modelled)
8. [Plan](#plan)

## Inventory

| Component | State it keeps | Operations | Interaction | What is hard | What makes it correct |
|---|---|---|---|---|---|
| MD5All, three programs (`serial.go`, `par-serial.go`, `bounded-serial.go`) | the map of sums, the channels `c`, `paths`, `errc`, `done`, a WaitGroup | walk the tree, read a file, collect, cancel | walker, file goroutines or digesters, closer and MD5All, over channels | early return with goroutines under way; `close(c)` against sends on it; an error that overtakes another; cancellation taken for a failure | one return that the tree allows, decided by the tree but for which of several unreadable files is named; no send on a closed channel; every goroutine returns |
| Load balancer (`load-balancer.go`) | queues of the workers, `pending`, the heap of workers with their `index` | submit, dispatch, serve, reply, `completed` | 30 requesters, one balancer, workers; the heap calls back `Less`, `Swap`, `Push`, `Pop` | dispatch blocks on a full queue while the worker blocks on `done`; an index kept up by callbacks; reply channels used again | each request answered once; the load is exact; the index is the place; no deadlock |
| Crawler (`goroutine.go`) | `found.f` under an RWMutex, a report channel per call | fetch, count, test, claim, collect, report | one goroutine per page; parents wait for children | the three critical sections of a call are separate; counts that go stale; depth used up by a longer path | each page once; within the depth; complete; comes back (the first and the last fail, see the findings) |
| Pipeline (`sq-merge.go`) | channels, a WaitGroup, `done` | gen, sq, merge, cancel | a chain with a fan-out and a fan-in; main leaves early | all senders need a way out; `close(out)` against the outputs | nothing lost or doubled before main leaves; everybody exits after |
| Sieve (`primes.go`) | a growing chain of filters | generate, filter, print | neighbours in the chain | the chain grows at one end while it is fed at the other | exactly the primes, in order |
| Power series (`power-series.go`) | one goroutine per term and split, channels of rationals | split, add, multiply, derive, print | two consumers of one series at different paces | channels change hands; goroutines pile up; values shared between iterations | both consumers get the series; one may stop; products are right |
| Goroutine chains (`sq.go`, `chinese-whispers.go`) | channels | send, add one | a fixed chain | little: one value at a time in a chain that does not change | the sum or the squares |
| `uvcat` (`src/libuv/webserver/uvcat.c`) | the request at the thread pool, the global `iov` and `buffer` | open, read, write | callbacks post the next request to the pool; the pool wakes the loop through an eventfd | `iov.len` left over from the read before; the pool's shutdown | what is written is the file; the program ends |
| `uvtee` (`src/libuv/webserver/uvtee.c`) | three streams, each with its write queues | read, write to two destinations, close | the loop: pending queue, epoll, closing handles | partial writes, errors and EOF with requests still queued; a file that epoll does not take | both copies in order; the file complete unless the program is killed or the disk full; every request freed once; it ends |
| libuv (`src/libuv/webserver/uv/src/`) | `wq`, `loop->wq`, `pending`; per stream `write_queue`, `write_queue_size`, `POLLOUT` | post, take, finish, exit; write, flush, callback, close | worker threads and loop; loop and kernel | wake-ups lost between two threads; counters of bytes over partial writes and errors | no request stranded or called back twice |
| Lisp interpreter (`src/lisp-c/ch11/var.c`) | a heap of `lval` trees | read, evaluate in place, print, free | none | ownership by hand over every early return; `lval_pop` moves too much | nothing leaked or freed twice; what is printed is what the line means |
| File responders (`src/node/nodejs-right-way/03-robust-messaging/`) | ROUTER and DEALER queues, three worker processes | request a file, respond | requesters in lock step, a master that only proxies | a worker that dies over an unreadable file, with requests queued at it | every request answered, or lost only with its worker |
| Graph programs (`src/algo/graphs/`) | color, path, times, distance in each vertex | search, color, sort | none; a script's tests share their vertices | loops, edges in both directions, a color tested again after a call, marks left over | the definition by paths |
| Sorting (`src/algo/sorting/`) | the list, in place | heap, merge, insertion sort, three quicksorts | none | borders of the parts, equal elements, where the parents end | in order, nothing lost |
| Dynamic programs (`src/algo/dyn-prog/`) | a table of best values and one of choices | fill, follow the choices | none | ties, empty parts, values and choices that drift apart | the best of all solutions, and the choices reach it |

`PROJECT.json` lists these and every other part of the repository, with the reason
where a part is left out, and 40 hazards at the lines where they bite.

## Modelling conventions

* A goroutine is a process with a program counter (`"range"`, `"select"`, ...). A
  send on an unbuffered channel and its receive are **one joint step**, as in Go
  neither side goes on alone. A buffered channel is a sequence or a counter with
  the capacity in the sender's guard.
* A `select` with several ready cases may take any of them: a disjunction.
* Closing a channel, `wg.Done`, a critical section under a mutex are single steps.
  What happens between two of them is not assumed to be atomic.
* A send on a closed channel, a negative WaitGroup and an index out of range are
  panics. Where the program is believed to be free of them this is an invariant
  (`NoPanic`, `NoSendOnClosed`); where it is not, the panic is an action
  (`HCompletedPanics`).
* When `main` returns the process ends and the goroutines with it. The models let
  the goroutines go on: `AllExit` says that they would all return by themselves,
  which is what matters when the code is used as a library function.
* File contents, page bodies, sums, results and sleeping times are left out. Which
  value goes where is kept.
* A system call, a critical section, and a callback together with the library calls
  it makes are single steps of the C programs. What the kernel may answer (a short
  read, a partial write, `EAGAIN`, an error) is a choice or follows from the room
  there is.
* Operators commented *Faulty variant* change one definition the way a slip in the
  code would. No specification uses them; each shows that some property of the run
  would notice.

## The modules

### MD5All

`MD5All` is the promise: given a tree, presented by `filepath.Walk` as entries
`1..N` each of a kind (regular, unreadable, other, broken), one return out of
`Outcomes`. A failed read wins over a failed walk, whatever their order in time,
because the map is collected before `errc` is read. The tree decides the map and the
kind of error; which file a read error names it decides only for `serial.go` (the
first unreadable one in walk order). The other two return the `*PathError` they
receive first (par-serial.go:80, bounded-serial.go:98), so `Outcomes` has one element
for each unreadable file Walk reaches; the field `file` of `ret` says which.

* `SerialMD5`: `serial.go`. A sequential program, so a function of the tree: `Visit` is
  one call of the walk's callback, and a recursive function goes over the entries.
* `ParSerial`: `par-serial.go`. A goroutine per file; `WalkSpawn` is `wg.Add` and
  the `go` statement, `Poll` the `select` with a default on `done`, `SendErr` the
  buffered `errc`, `CloseC` the goroutine that waits for `wg`. `SameAsSerial`
  compares the return with `SerialMD5All` on the same tree: same map, same kind of
  error, and a file that may differ only as said above, never to an earlier one.
* `BoundedSerial`: `bounded-serial.go`. A fixed set of digesters that take paths
  from the walker: `WalkSend`, `Deliver`, and the exits `DigesterDrained` and
  `DigesterCanceled`; then `CloseC`, `ReceiveErr` and the deferred `CloseDone`.

Both concurrent modules check `Implements == Promise!Spec`, with `INSTANCE MD5All`
and the identity mapping of `kind` and `ret`: every step is the one `Return` of the
promise or leaves `ret` alone.

### Load balancer

`LoadBalancer` is the balancer without its heap: dispatch may choose *any* worker.
`Accept` is the receive from `work` with the choice of the worker, `Enqueue` the
send that may block, with `pending++`; while the balancer is between the two
(`held # None`) it does not listen to `done`. `Take`, `Reply` and `Completed` are
the worker's loop.

The module shows that the program can stop for good: the balancer sends to a full
queue of a worker that itself waits in `done <- w`. `Wedged` describes it,
`WedgeForever` says it is final, `WedgeNeedsCrowd` what it takes: more than `Cap`
requesters waiting at once. As shipped `main` starts 30 requesters, one worker and
a queue of three, so it is a matter of time. `Answered` is therefore stated as
answered *or wedged*, and `StuckIsWedge` says nothing else can stop the program: `Stuck`
describes, from the guards, the states from which no goroutine goes on, and is written out
as a step that changes nothing, so that TLC would report any other state without a step as
a deadlock.

`HeapBalancer` extends it with the pool. `Swap`, `Push` and `Pop` are the methods
of `Pool`, and `Down`, `Up`, `HeapPop`, `HeapPush`, `HeapRemove` what
`container/heap` does with them (external, not in the repository). A heap is the
record of slice, `index` fields and loads. `HAccept`, `HEnqueue`, `HCompleted` are
the steps of `LoadBalancer` conjoined with the heap call that goes with each, so that
what `LoadBalancer` promises of requests holds here by construction. What the heap itself
has to do is `LeastLoaded`: `Up` and `Down` compare `pending`, which `dispatch` and
`completed` change while the worker is out of order or out of the pool, and yet dispatch
takes a worker that none has less to do than, until a wrong index has cost the pool a
worker. `Fleets` are the sets of workers to start, of which `main` starts a single one.

### Crawler

`Crawl`: a call is named by the chain of links that led to it, so that the tree of
calls is in the names. `Fetch` counts the unclaimed links under one read lock,
`Test` looks at a link under another, `Claim` appends it under the write lock and
starts the child; `Collect` takes the reports, `Ready` is the deferred send. The
single writer is not assumed: another call may claim between `Test` and `Claim`, in
which case the page is crawled twice and `found.f` lists it twice (modelled as a
set, as `IsIn` only asks for membership). `Stuck` describes the states from which no call
goes on, as in `LoadBalancer`. The first entry of `found.f` is the
empty string in the code and is left out.

### Pipeline

`SqMerge`: `gen`, the `sq` and `output` goroutine of each branch, the closer and
`main`. `receives` is chosen at the start, from leaving at once to asking for one
value more than there are, which covers the two receives of `main` and the loop in
its comment.

### Sieve

`Sieve`: stage 0 is `generate`, stage k the k-th filter. `Pass` hands a number to
the next filter, `MainReceives` prints what leaves the last one and starts a
filter. The filters hold numbers side by side.

### Power series

`Split`: `split`, `doSplit` and `pscopy`. A goroutine is a record of its program
counter, the term it holds and the two channels it may send on; `Deliver` is a
send to a consumer, `Forward` a send on the `H` of a goroutine that copies. The
handing over of a channel to the new `doSplit` is `AfterSend`.

### uvcat, uvtee and libuv

Five modules, from the library up:

* `UvPool`: the thread pool of `threadpool.c` and the wake-up of the loop in
  `async.c`. A worker is looking, waiting, woken, at a request, or gone. `Finish` is
  the critical section at the end of the work, `AsyncEvent` what the loop does when
  the eventfd is readable. `WorkerExits` leaves the exit message in the queue and
  signals the next worker.
* `UvCat`: `uvcat.c` over the pool. `CatOpen`, `CatRead`, `CatWrite` are the system
  calls of a worker, `CatDone` is `uv__work_done` with the callback, which posts the
  next request or nothing.
* `UvStream`: the writing half of a stream, `stream.c`, as operators on a record:
  `UvWrite`, `TryWrite`, `Callbacks`, `Flushed`, `Closed`, `Destroyed`.
* `UvTee`: `uvtee.c` over the streams, with the turn of the loop:
  `FlushPending` (`uv__run_pending`), `PollReturns` or `Abort` (`uv__io_poll`),
  `ReadData`, `ReadNothing`, `ReadEof` (`uv__read` with `read_stdin` and both
  `write_data`), `FinishClose` (`uv__run_closing_handles`).
* `UvPipeline`: the shell pipeline `uvcat in | uvtee out`, with the pipe between
  the two, whoever reads standard output or stops reading it (`OutIsRead`,
  `OutLeaves`), and a disk with more or less room.

`TeeSpec` is the promise of any tee: each destination is given the input in order,
and nothing due to a destination that can take data is dropped. `KeepsPromise`
checks that the pipeline implements it: what is owed to a destination is read off
the requests in its write queue, and a destination is fit as long as its stream is
open and the disk has room or the reader is there.

Neither program and nothing in libuv handles SIGPIPE, so the first write to standard
output after its reader has left kills `uvtee` (`Deadly`, `FlushKills`, `ReadKills`), and a
write by `uvcat` after `uvtee` is gone kills `uvcat` (`CatKilled`). A process may also be
started with the signal ignored, which it inherits; the write then fails with `EPIPE` and
the program goes on. `ignored`, chosen by the first state, says which. `uvtee` writes to
standard output first: killed within `read_stdin`, it has read what the file is not
given. `Copies` says so: the file holds all that was read while `uvtee` lives, and when it
is killed the file is behind by that one read and no more (`OneReadShort`).

What the code does and the model keeps: at the end of its input `uvtee` closes all
three streams at once, so what is queued for standard output is lost, while the
file, which is never queued for, is complete; a write that a full disk cuts short
starts `POLLOUT` on a regular file, which epoll refuses, and the process aborts;
when the file did not open, `uv_write` answers `EBADF`, nobody looks, and the
request is lost; there is no back-pressure.

### Lispy

`Lispy`: the loop of `main` in `src/lisp-c/ch11/var.c` with an explicit heap of live
addresses. Each operation (`Del`, `Pop`, `Take`, `Join`, the built-ins, `Eval`) takes
a heap and returns one, so that a double free, a leak and a write behind an array
show. `Meaning` is the reference: the value of a line as a function on trees, with
no heap and exact arithmetic. A write behind an array may stop the process at any
later point (`Killed`).

### File responders

`FilerCluster`: the master, workers and requesters of `zmq-filer-rep-cluster.js` and
`zmq-filer-req-loop.js` (in `src/node/nodejs-right-way/03-robust-messaging/`). A request
goes by its requester, since a REQ socket has one under way. `RouterMessage` and
`DealerMessage` are the two proxying handlers, `Message` and `FileRead` the two callbacks
of a worker, `Request` the next of the sends that the loop has handed to the socket.
`FileRead` of a file that cannot be read kills the worker: `data` is undefined. What
the sockets do is external: `DealerSend` goes round the workers that are connected,
busy or not, and keeps the requests while there is none; `Disconnect` is the master's
learning that a worker has gone, after which what lay there is lost.

### Graphs, sorting, dynamic programs

`Sorting`: the list, the program that sorts it, and the stack of calls: each entry is a
part still to be sorted, or to be merged, and the call on top is under way. The locals of
its loop are variables (`lo` and `hi` for i and j, `pivot` for x or the key, `copy` for
`left` and `right`), and a step is a turn of a loop: a comparison with the move or
exchange it leads to. The two recursive calls at the end of a quicksort, and those of
merge sort, replace their call on the stack (`Leaves`); the three loops that merge are
`TakeLeft` and `TakeRight` for as long as there is something left to take. `AllSort` says what
each program leaves at its end, and on the way that the scans of `hoare_partition`, which
have no test for the ends of the list, stay in their part.

`GraphSearch`: a graph is a list of children for each vertex, so their order is part of
it; `color`, `path`, `dist`, `disc`, `fin` and `cc` are the marks of the vertices, and `nth`
says how far the loop over a vertex's children has come. A step is a look at a child, or
the end of such a loop. Four of the programs are the same depth-first search, whose
recursion is the `stack`: a child is entered (`Visit`), passed (`Pass`) or ends the search
(`Refuse`), and a vertex is left when its children are through (`Leave`). `Refuses` says
when a program gives up and `Said` what `dfs-edges.py` prints of an edge. The others work
off a queue: breadth first (`Find`, `Skip`, `Blacken`; `bfs.py` and `find-tree-diam.py`),
the coloring of `pro-wrestlers.py` (`Rival`, `RivalPassed`, `WrestlerPasses`) and
`topo-sorting.py` (`CountDown`, `PrintName`). There a vertex is taken from the queue when
its children are through, not before; nothing looks at the queue in between but appends.
A set that the program goes through (`Graph.nodes`) is gone through in any order where the
order shows. What the answers should be is said without searching: what can be
reached is what every set has that has the start and that no edge leaves (`Reach`), and a
distance is the length of a walk, a function on `0..k` (`WalkTo`), with none shorter.
`AcceptedExact` says, both ways, which graphs `check-undirected-acyclic.py` accepts: those
in which no vertex is a child of two and every child is led to from a vertex of an earlier
name. They are forests, but only some forests are among them, see the observations below.

`DynProg` has a step for each question: the programs are sequential and what may be wrong
is the answer. A table maps each cell to its best value and the choice that led to it.
Each property compares with a definition that does not fill tables: all orders of
breaking a string, all ways to cut, all trees. The parts of `AllExact`, `AllSort` and
`AllBest` belong to one program each. In `lcs.py` the indices i-1 and j-1 may be -1, which
in Python is the last row or column of `c`: `Entry` takes the index modulo the number of
rows, so that the program is right only because `c` has a row and a column more than
there are letters (`Extent`; a variant without them is refuted). `cut_rod_price` is checked
to do what its loop does only in run `rod_price`, against its comments.

These three, `Lispy` and `FilerCluster` share nothing with each other. `MCPrograms`
puts them side by side: the first state chooses one of the five, and from then on
only its steps are taken. `MCGoPrograms` does the same with `Sieve`, `Split`, `SqMerge` and
`Crawl`, whose definitions carry a prefix (`Merge`, `Crawl`) where the modules would
otherwise have given two things one name.

## Runs, bounds and fairness

| Run | Instance | States | Properties |
|---|---|---|---|
| `par_serial` | all 4^3 trees of 3 entries | 5 245 | `Inv` (no panic, nothing lost), `SameAsSerial`, `Implements`, `AllExit` |
| `bounded_serial` | the same, 2 digesters | 6 089 | `Inv`, `Implements`, `AllExit` |
| `balancer` | 4 requesters, 2 workers, queues of 2 | 3 576 | `Inv`, `WedgeNeedsCrowd`, `StuckIsWedge`, `WedgeForever`, `Answered` |
| `heap` | 4 requesters, fleets of 1 to 4 workers, queues of 1 | 769 004 | `DamageBounded`, `LeastLoaded` |
| `heap_index` | 2 workers | violation | `IndexInHeap` |
| `pipeline` | a file of 3 units, 2 workers, buffers of 2, room for 1 or 5 on the disk, SIGPIPE ignored or not | 382 996 | `Inv`, `Copies`, `KeepsPromise`, `Ends` |
| `programs` | five programs, below | 276 127 | `Inv`, `Served`; `NothingLeft`, `PrintsMeaning`; `AllSort`; `AllExact`; `DynProgRight` |
| `rod_price`, `tree_diameter`, `forward_edges` | the instances of `programs`, with two graphs | violation | `RodPricePaid`; `FindsDiameter`; `ForwardIsNoTreeEdge` |
| `go_programs` | four programs, below | 220 651 | `SieveInv`, `PrintsPrimes`, `SievePrints`; `Inv`, `SameSeries`, `ReadAhead`, `SplitYields`; `MergeInv`, `OnePlace`, `MergeReadAhead`, `MergeExits`; `CrawlInv`, `StuckIsOvercount`, `Complete`, `CrawlReturns` |
| `crawl_canned` | the site in `goroutine.go`, depth 4 | violation | `Returns` |

In `go_programs` the instances are: numbers up to 50 (`Sieve`, 7 808 states); 5 terms, one
consumer sure to read (`Split`, 1 706); 6 numbers, 2 branches, 0 to 7 receives (`SqMerge`,
88 327); several hundred sites of 4 pages, depth 2 (`Crawl`, 122 810). `SievePrints`,
`SplitYields`, `MergeExits` and `CrawlReturns` are `AllPrinted`, `Independent`, `AllExit` and
`TreesReturn` of the modules, for the program that runs.

In `programs` the instances are: 2 workers and 4 requesters of 2 requests, two of them
for files that cannot be read (`FilerCluster`, 63 998 states); some 7 400 lines, with
numbers from -4 to 3 (`Lispy`, 66 203); graphs of 3 vertices, two of them with the
children in any order and two with loops, and of 4 all undirected ones, all of up to 3
edges and those of 4 out of 6, without loops (`GraphSearch`); the lists of up to 5
elements of 3 values and of 6 of 2 (`Sorting`); 8 655 questions (`DynProg`). `AllExact`:
each of the eight answers is what the paths say. `DynProgRight` is `AllBest`: the
programs find the best of all solutions, and the choices reach it; of `cut-rod.py` this
is said for free cuts, and with a price only that what is promised is what the pieces
yield (`RodPromise`). `DamageBounded` of `heap` puts together what the wrong indices of
the findings can do to the pool: it keeps its size (`PoolSize`), it is right, and every
index a place of it, until a worker is lost (`RightUntilLoss`), a lost worker keeps the
index -1 and is lost for good (`LostHasNoIndex`), a panic is preceded by a loss
(`PanicMeansLost`), and the single worker of `main` is spared (`SoleWorkerIndex`).
`LeastLoaded` is the order of the heap. That nothing but a panic or a wedge ends the
program is the run's deadlock check (`HStopped`). `Inv` of `pipeline` is inductive: that
the loop is called exactly for a completion it has not seen (`OneRequest`), that a
request or the exit message in the queue always has a worker on its way to it, or has
been seen by all (`NoneForgotten`: no wake-up of the pool's condition variable is lost),
the bytes in the pipe and in `uvcat`'s buffer (`CatCopies`), the turns of `uvtee`'s loop
(`TeeTurns`), its memory and counters (`Ledger`, `SizeExact`, `Armed`), and the bytes
given to and owed to each destination (`InOrder`, `FileWhole`).

Why these bounds are enough for the cases meant:

* **Trees of three entries**: a failed read can be delivered while a second file
  is with another goroutine and the walker waits with a third, or a broken entry
  follows; two digesters are enough for one to be cancelled while the other drains.
* **Four requesters, queues of two**: a wedge occupies the queue and the
  balancer, so it takes `Cap + 1 = 3`; the fourth competes for the `select`. In
  `heap` the queues hold one request, so that the workers can be loaded unevenly.
  Four workers are the least for which `Down` has a left and a right child to choose from
  with another worker out of the pool, as in `completed`.
* **Four pages**: a page linked from two others, a page linked twice, mutual and
  back links and missing pages all occur; depth 2 leaves a claimed page whose links
  are not followed. Trees are the sites on which a page is linked from one page,
  apart from links back to where one came from; that everything is found, and
  `TreesReturn`, are claimed for them only, see the findings.
* **Six numbers, two branches**: two more than the branches hold.
* **Three units, buffers of two**: `uvcat` needs two reads at least and may read
  short, so that `iov.len` is left at 1; `uvtee` gets full and short reads, a pipe
  at standard output that takes one unit forces partial writes and queues of several
  requests, and the disks are full in the middle of a write and at the next, or never.
  Two workers are the least with one that has to be told to exit by the other, and
  with a request and an idle worker side by side.
* **All lines of up to two items and those of three that begin with a symbol**, of 26
  items that include nested lists, unevaluated code and errors: each built-in gets
  no, one and two arguments of every type, and an error comes as first, second and
  third cell. -4 to 3 stand for the range of `long`: sums, products and `-4 / -1`
  overflow.
* **Two workers, two unreadable files**: one worker may die with a request for a
  readable file behind the one that kills it, and both may die. With two requests of
  each of four requesters the second may come when a worker has gone. The code has
  three workers and three requests.
* **Three and four vertices**: every kind of edge, loops, edges in both directions,
  unconnected parts, a circle of odd and of even length, and a vertex with two parents
  at different depths occur. A vertex is finished while another is open, in
  either order of the children.
* **Five elements of three values, six of two**: lists of odd and even length, all shapes
  of heaps up to three levels, runs of equal elements at either end and beside the pivot.
* **The questions of `DynProg`**: `MCPrograms` has the bounds. Ties are frequent in all of
  them, and words and prices with nothing in common, empty weights and no breaks occur.
* **Fifty**: fifteen filters, several of them occupied at once. `Limit` stops
  `generate`, which in the program runs for ever, as `Terms` stops the series in
  `Split`; there `go_programs` lets a state repeat. The MD5All runs, whose programs
  terminate, say `CHECK_DEADLOCK FALSE`, and so do those of `MCPrograms`, where damage to its
  heap may stop the interpreter and the others end with the last answer. The balancer,
  heap, `go_programs` and pipeline runs are checked for deadlock.

Fairness, and where it comes from:

* Weak fairness of the next-state relation (MD5All, `Crawl`, `Sieve`) and of `Progress`
  (`SqMerge`): as long as some goroutine can run, the Go scheduler runs one. These
  programs take finitely many steps, so no more is needed.
* `LoadBalancer` runs for ever: weak fairness of each goroutine's own steps, and
  *strong* fairness of `Completed`, since it competes with `Accept` in a `select`,
  which Go resolves at random: a case that is ready again and again is taken.
  Nothing obliges a requester to submit.
* `Split`: weak fairness of taking, forwarding and of delivery to the consumers
  in `Reader`, who are assumed to read on. Nothing is assumed of the other. In
  `go_programs` each program's fairness is that of its own actions, and vacuous in the
  states that chose another.
* `UvPipeline`: weak fairness of `uvcat`'s main thread, of each of its workers and of
  `uvtee`, as the kernel schedules threads. Nobody is obliged to read standard
  output: `Ends` holds without.
* `FilerCluster`: weak fairness of each step of each requester and worker and of the
  master's sockets: processes run, and a connection is served for as long as it lasts.
  In `programs` it is assumed of the runs in which this program was chosen.
* `HeapBalancer`, `Lispy`, `GraphSearch`, `Sorting` and `DynProg` state no fairness and
  have no liveness property.

## Proofs

For every value of the constants, under the assumptions named in the modules
(finite sets of goroutines, a positive capacity, `None` outside the sets):

* `BoundedSerial_proof`. `InvHolds`: `Inv` is inductive. The difficulty is that the
  closing of `c` depends on the counter of the WaitGroup, and the soundness of the
  early exits on `done` being closed only after the result is fixed. The parts:
  `NoPanic` (the counter is the number of digesters left), `NothingLost` (each file
  passed is in the map or with one digester), `WalkerInv` (what is in `errc` is what
  the walker found), `DigesterInv` (what is collected comes from the part walked),
  `DoneInv` (`done` means the result is fixed). `NeverPanics` reads off the first
  part. `ImplementsPromise` proves the refinement of `MD5All`: the two steps that
  set `ret`, `ReceiveErr` and the failing `Deliver`, set it to one of `Outcomes`, for which
  `VisitedPrefix` identifies the entries walked with those before the first broken.
* `LoadBalancer_proof`. `InvHolds`, and from it `RequestsKept` (no request lost or
  doubled) and `LoadExact`. `CrowdWedges`: the queue of a wedged worker and the
  request held are `Cap + 1` distinct waiting requesters, an injection from
  `1..Cap + 1`. `WedgeLasts`: no step leaves a wedge. `OnlyWedgeStops`: when nobody goes
  on, everybody waits, so somebody's request is with a worker; a worker that has one and
  does not move is in `done <- w`, and the balancer does not listen because it sends to
  a full queue, whose worker is one of those.
* The same module, for the heap. `Down` and `Up` are recursive functions; that such a
  definition satisfies its own equation is proved (`LoopDefined`) by giving the function:
  the value reached after the least number of turns that ends the loop. Induction over
  numbers is done through the least element of a set (`LeastNat`). It follows that
  `heap.Push`, `Pop` and `Remove` keep, add or take away members and leave indices that
  are places, for any loads. `HeapInvHolds` is the inductive invariant, `LostForGood` an
  action property, `DamageIsBounded` adds the single worker. `DispatchLeastLoaded` is
  about the loads: as long as nobody is lost the pool is in order before and after every
  step. `OrderBut` is what holds when one place may have too much to do, its children being
  in order with its parent, `OrderUp` when one may have too little; `Down` turns the first
  into the second or into order (`DownOrders`), `Up` the second into order (`UpOrders`). A
  removed worker's place is the former, one just pushed the latter; in between `pending`
  is changed only of the worker that is out of the pool (`dispatch`) or at the place about
  to be removed (`completed`). The root of a pool in order is least by the least
  counterexample (`TopIsLeast`). `HeapKeepsRequests` carries the theorems of `LoadBalancer`
  over.
* `ParSerial_proof`. `InvHolds` and `ImplementsPromise`, along the same argument:
  `wg` counts the goroutines that have yet to send or to leave, so `c` is closed
  after the last of them; `done` means that the result is fixed; `FileInv` ties each
  goroutine to a file the walker has reached. `SerialKeepsPromise`: the loop of
  `serial.go` returns a promised outcome on every tree, the one that names the first
  unreadable file, by induction over the entries walked. `ReturnsAsSerial`, that the
  concurrent program returns the same map and kind of error, its file the same or a later
  one, is then read off the two promises.
* `Crawl_proof`. `InvHolds`. The counts of a call are stale as soon as its read lock
  is released, and yet its channel has room: the strengthening `Counted` says that
  the children a call has and the links it may still claim are no more than it
  counted, where a link found unclaimed and about to be claimed is included although
  somebody else may have claimed it since. `NewChild` says that the child to be
  started is a new one. Other calls only take links away. `OnlyOvercountStops`: among
  the calls that wait take one with the longest name; its children have ended, and it has
  taken all their reports. `CompleteHolds` needs a second invariant, `WInv`: the name of a
  call is a trail of links from the root on which no page comes twice, and the links a
  call has passed are found. `Within` is recursive; its equations are proved by giving
  the function, the ends of walks of at most d links. What is found is then within the
  depth. On a tree a call that ended has found every link of its page, and the call that
  claimed such a link has, since trails to a page are unique, the name one would expect: it
  has not used up more depth. What makes a site a tree is `TreesAssumption`, which TLC
  evaluates for the trees of the run.
* `SqMerge_proof`. The invariant `Pipeline` places each number sent in one of three
  parts of the pipeline, in none twice, and counts the branches by what they are
  doing. From it `InvHolds`, `OnePlaceHolds` and `ReadAheadHolds`: what is on the way
  is one number for each sq and each output that holds one.
* `Chains_proof`, of the two chains of goroutines. `SieveInvHolds`: what a filter holds
  has passed all before it, numbers do not overtake each other, and what has disappeared
  is a multiple of a printed prime. From it `OnlyAndAllPrimes`, with the arithmetic that a
  number with a divisor has a prime divisor among those printed taken from
  `NothingSkipped` by way of three lemmas on `%`. For `Split` the chain of copies may be
  of any length, and the inductive invariant `Chains` asserts two functions on channels
  that describe it: the term a channel carries next, and the consumer it leads to. A step
  hands over a channel or moves a term, and the functions with it. From it `InvHolds`,
  `SameSeriesHolds` and, with one goroutine for each term taken (`Leader`),
  `ReadAheadHolds`: what a consumer lacks is held by different goroutines of its own
  chain, an injection, and the two chains together are no longer than the terms taken.
* `Programs_proof`, of the file responders, the sorting and the graph programs.
  `FilerInvHolds`: the inductive invariant `Followed` says of each request that it is in
  one place of one kind, and there once (`Alone`), that workers without a connection are
  not in turn, and that a dead worker holds the unreadable request that killed it. When
  `DealerSend` deals a queue out, the request at position `x` goes to the worker
  `Peer(x)` and its place `Slot(x)`; that these two are a bijection is arithmetic on `%`
  and `\div` (`Turns`).
* The same module, for `Sorting`. `AllSortHolds`, for lists of any length and content, from
  the inductive invariant `IndInv`. `Kept`: the list, as it would be with the key or what
  is left to merge put down (`View`), is a rearrangement of what was given. `Ordered`: any
  two elements in the wrong order are both in a part that some call on the stack has yet to
  sort, or on the two sides of one it has yet to merge (`Covers`), and the calls are
  apart or within a half of each other. Since the recursion is a stack in the state,
  no induction over it is needed: what a call leaves is replaced on the stack by parts
  that cover what is still out of order (`Resplit`), and when the stack is empty nothing
  is. `LoopInv` has a conjunct for each loop, with what has been passed on either side; in
  `hoare_partition` it also names an element on each side that stops the scan. For heap
  sort the parts behind the heap are in order and above it; that the root is the largest
  comes from the least counterexample (`RootLargest`), and `Fits` is the condition under
  which the parent that `build_max_heap` leaves out does no harm.
* The same module, for `GraphSearch`. `AllExactHolds`, for every finite graph, from the
  inductive invariant `GraphInd`, which has a part for each kind of search. Depth first
  (`DepthInv`): the stack is a path, discovered in this order, and the marks are in step
  with it (`StackInv`, `MarkInv`). From there each program adds what its answer needs:
  for `find-simple-paths.py` that each vertex on the stack leads to those above it and
  that what is finished was finished after all its children, so that in a finished
  search the times of finishing fall along every edge, which leaves no cycle: what a
  vertex leads to was finished no later; for `check-undirected-acyclic.py` that every
  child looked at was found from there and has a root of an earlier name, that no root
  is led to from an earlier vertex, and that a refusal means two parents or none earlier
  (`UagInv`, with `AcceptedExact` read off it in both directions by `UagAnswer`); for
  `identify-connected.py` that a class is in one piece; for `dfs-edges.py` that what was
  printed fits the times so far (`Backward`, `Forward`, `Across`). Breadth first
  (`BreadthInv`): distances do not fall along the queue and differ by one at most; that
  no walk is shorter follows from the least counterexample (`WalkBounds`). `ColorInv`: a
  color given is the one that every coloring that fits gives, seen from the start, so
  that a refusal means there is none. `TopoInv`: the counter of a vertex is the number
  of parents that have yet to count it down (`Pending`). What is left out at the end has
  a parent left out; among those that lead to it, one with the most vertices to lead to
  is on a cycle (`LeftOutIsLedTo`).
* `UvPipeline_proof`. `InvHolds`: the invariant is inductive, for any pool, input,
  buffers and capacities. The proof goes from the data to the programs. What
  `FlattenSeq` makes of a queue of requests is shown by describing the sequence it
  yields as consecutive runs (the community module defines it recursively). For a
  stream, `Sound` is what each of `TryWrite`, `UvWrite`, `Callbacks`, `Flushed`,
  `Closed` and `Destroyed` keeps of its record (`Ledger` and `SizeExact`), and
  `Replacing` and `Sent` say what becomes of the bytes it was given and still owes.
  `DestOK` is the part of the invariant about one destination, `FlushCase` and
  `WriteCase` the two ways in which it changes. The invariant is cut at the pipe:
  `CatKept` is `uvcat`'s half, `TeeKept` that of `uvtee`, and `PipeOK` says that what is
  in the pipe comes next in the input; each step of one program leaves the other's half
  alone. `NoneForgotten` goes beside `CatKept`: a request is posted only when no worker
  is busy or gone (`PostIsSeen`), and a worker that leaves passes the exit message on
  (`SignalledOne`), so what `Ends` needs of the pool is safety for any number of
  workers, and only the fairness is left to TLC. From it `CopiesHolds`, where the facts
  the invariant does not hold are that an abort means a full disk (`AbortMeansFull`) and
  a kill at most one read short (`KilledMeansShort`), and `PromiseKept`: each step is a
  `Serve` of `TeeSpec`, with a `Give` for each destination, or changes nothing of it; a
  destination that is closed or found full is no longer fit. `FitMissesNothing` reads
  the promise off: a fit destination has been given, and is owed, exactly the input so
  far.

The assumptions: `Branch` of `SqMerge` is finite and not empty (the code has two); the
balancer has a requester and a worker at least, and a queue has room for one; a `Web` maps
pages to finite lists of pages, and in `Trees` no page is listed twice and one trail within
the depth leads to each page; `Terms` is a natural number; `uvtee`'s buffer has room for
something; a list to sort is of natural numbers, indexed from 0; a graph
is finite, its vertices are numbered from 1 in the order of their names, and no child is
listed twice.

Only model-checked: everything about liveness (`AllExit`, `Answered`, `SievePrints`,
`SplitYields`, `MergeExits`, `CrawlReturns`, `Ends`, `Served`), which the prover does
not handle, and that a state which `Stuck` does not describe has a step, which is TLC's
deadlock check; `Lispy` and `DynProg`, whose operators are recursive on trees and
tables; and that the sorting and graph programs end.

## Findings

* **`Pool.Swap` sets the wrong indices** (`load-balancer.go:77`). After the exchange
  `p[i]` gets the index `j` and `p[j]` the index `i`, though the field is the "index
  in the heap". With two workers or more `completed` removes another worker than the
  one that reported, and in the end indexes place -1 and panics. Run `heap_index`
  gives the trace. `main` starts one worker, for which the index stays right
  (`SoleWorkerIndex`).
* **The crawler can wait for children it never started** (`goroutine.go:71`). The
  links are counted before they are claimed. On the canned site a page linked from
  two others is enough: run `crawl_canned`. `StuckIsOvercount` says this is the
  only way it hangs.
* **`cut_rod_price` has free cuts** (`cut-rod.py:119`, in `src/algo/dyn-prog/`). The comments
  say "Adding a constant price for each cut" and "We subtract the price from the current
  `best` solution"; `c` is never used. Run `rod_price`. `cut_rod_extended` does subtract it
  and promises what its pieces yield (`RodPromise`), but is not always the best: it compares
  a revenue that has paid for the cut with one that has not.
* **`find-tree-diam.py` finds the depth** (line 26, in `src/algo/graphs/`), the largest
  distance from the root it is given, and prints it as the diameter. Run `tree_diameter`, on
  a root with three children. What it does is `DepthOfTree`.
* **`dfs-edges.py` calls tree edges forward edges** (line 42). It tests the color of `v`
  again after the visit, when `v` is black, so an edge of the tree is printed a second time,
  though a forward edge is said to be "a non-tree edge". Run `forward_edges`.
  `KindsPrinted` says what is printed for each kind of edge.

Observed, without a document or test that claims otherwise: the wedge of the load
balancer described above; a page may be claimed by the longer of two paths, so that
its links are not followed although they are within the depth (no property covers this:
`Complete` asks for every page on trees only, where there is one path to each); a page may be
crawled twice; `doSplit` leaves a goroutine copying for ever with each term, and
the chain of them reads the series ahead of both consumers (`ReadAhead` bounds it);
`pscmul` (`power-series.go:68`) multiplies into the factor it will use for the next
term, and `psmul` (`power-series.go:134`) overwrites the first term of `F` with the
product before it uses it as a factor;
`lval_pop` (`src/lisp-c/ch11/var.c:262`) moves `count - 1` cells whichever it takes, so
that taking the third or a later one writes behind the array, which an error in that
place of a list brings about (`PrintsMeaning` says that nothing else does); `uvtee`
drops what is queued for standard output when its input ends, and aborts on a full
disk (`Copies` says that nothing else makes it abort); killed by SIGPIPE, it has not
given the file its last read; `uvcat` keeps reading in pieces as small as its shortest read.

The algorithm programs do less than their names or comments say in four more places. The
properties of `programs` state what they do instead, so that each is exact:

* `check-undirected-acyclic.py:17` does not tell the parent of a vertex from a second way to
  it, and refuses every undirected graph that has an edge, trees included; of directed
  graphs it accepts some forests, by the names of their roots (`AcceptedExact`).
* `heap-sort.py:24` leaves out the last parent when the number of elements is even, as it
  is in `main`: `[-1, 0, 1]` comes out as `[-1, 1, 0]`. `HeapSorts` says when the result
  is in order all the same.
* `quicksort.py:72` says that `partition_eq` puts the elements equal to the pivot in
  `[q...r-1]`; they are in `[q..t-1]`, and what comes behind is larger and sorted by the
  second call (`EqualApart`).
* `singly-connected.py:97`, seen in reading only: `clearEdges` leaves the marks of the
  vertices, so that the search of the third test finds none that is white, and
  answers `True` where `False` is expected.

## What is not modelled

* In the modelled programs: printing, the content of files and pages, sums, results
  and times. `main` of the load balancer writes `nWorker` after the requesters that
  read it have started (a data race); both values are positive and only scale the
  time a requester sleeps, and any order of submissions is modelled.
* Of libuv: cancelling requests (`uvcat` and `uvtee` never do), timers, signals,
  servers, sockets, shutdown, handles passed between processes. Read errors of `uvtee`'s
  standard input and spurious wake-ups of a worker or of epoll are left out, and so are
  signals other than SIGPIPE. A write of `uvcat` is of at most 1024 units, no more than
  `PIPE_BUF`, and is therefore whole.
* Of the interpreter: the environment (`lenv_*`, `lval_put`, `lval_copy`, `lval_fun`),
  which `main` never reaches; parsing, by the vendored `mpc.c`, of which the tree is
  seen; the end of the input, where `readline` returns `NULL`.
* Of the file responders: what the sockets do beyond the above (high-water marks,
  reconnecting), and the files.
* Of the graph programs: `singly-connected.py`, `find_simple_paths_count`, which nobody
  calls, and the iterative search of `dfs.py`. A graph file is given as the script
  builds it. The dynamic programs that use floating-point numbers (`viterbi.py`,
  `exchange.py`), `fib.py`, the brute-force `cut_rod`, and `print_lcs_c_table`; tables
  that are filled on demand are taken for those filled in order. Energies of
  `seam-carving.py` are positive, since 0 marks a cell not filled yet.
* `filepath.Walk`, `container/heap`, `sync` and the channels themselves are taken
  from their documentation; only the heap is written out.
* Vendored code: `src/par/RPC/haxr`, `src/par/pcph-marlow/parconc-examples-0.3.4`,
  `http_parser`, all of `src/libuv/webserver/uv` but the pool, the loop and the
  streams, and six copies of the parser library `mpc.c`. Nearly all lines of C in the
  repository are of these, which is why the modelled share of them is small. Generated code
  (`src/perl/dbix`, bison output), course scaffolds (`src/ai`), style sheets, data.
* Exercises without state or interaction: Haskell, Racket, Perl, the earlier chapters of
  Lisp-in-C, Scala and R. Most are a few lines; `PROJECT.json` has the reason for each
  group.

## Plan

In the order of what matters most; done so far are items 1 to 10.

1. `MD5All`, `BoundedSerial`, `ParSerial`, `SerialMD5`: one promise, three programs.
2. `LoadBalancer`, and on top of it `HeapBalancer`.
3. `Crawl`.
4. `SqMerge`.
5. `Sieve`.
6. `Split`, the part of the power series where goroutines interact.
7. `UvPool`, `UvCat`, `UvStream`, `UvTee`, composed in `UvPipeline`, and `TeeSpec`.
8. `Lispy`.
9. `FilerCluster`.
10. `GraphSearch`, `Sorting`, `DynProg`.
11. The values of power series: `psmul`, `pscmul` and `psadd` as a function on
    prefixes of series. No comment or test says what they should yield; the observation
    on lines 68 and 134 stands without a run.
12. `mpc.c`: the parser's marks and backtracking, with `Lispy` reading its trees.
13. `sq.go` and `chinese-whispers.go`; `LDJClient`'s buffering in
    `src/node/nodejs-right-way/02-networking`; `src/haskell/parIO.hs`.

Theorems still worth proving, in this order: that `Split` reads no more
than it must when one consumer stops; and, with the cells of a table filled one by one,
as in `Sorting` and `GraphSearch`, what the dynamic programs find for any input.
