------------------------------ MODULE UvStream ------------------------------
(***************************************************************************)
(* The writing half of a libuv stream on a non-blocking file descriptor,   *)
(* stream.c, as operators on the stream's record:                          *)
(*   fd       io_watcher.fd is not -1                                      *)
(*   q, done  write_queue and write_completed_queue                        *)
(*   size     write_queue_size                                             *)
(*   pollout  POLLOUT is in io_watcher.pevents                             *)
(*   fed      io_watcher is in loop->pending_queue                         *)
(*   called   how many callbacks have run, each freeing its request        *)
(* A request is [id, rest, err]: the bytes of its one buffer that are      *)
(* still to be written, and whether its error is set.  n is what write()   *)
(* returned: -1 an error, 0 EAGAIN, else the number of units taken.        *)
(***************************************************************************)
EXTENDS Naturals, Integers, Sequences, SequencesExt

Request(D) == [id : Nat, rest : Seq(D), err : BOOLEAN]
Stream(D)  == [fd : BOOLEAN, q : Seq(Request(D)), done : Seq(Request(D)), size : Int,
               pollout : BOOLEAN, fed : BOOLEAN, called : Nat]

NewStream(open) == [fd |-> open, q |-> <<>>, done |-> <<>>, size |-> 0,
                    pollout |-> FALSE, fed |-> FALSE, called |-> 0]

\* The requests of a stream, in the order they were handed to it.
Requests(s) == s.done \o s.q

\* What requests hold, in that order; uv__write_req_size is its length.
Bytes(reqs)  == FlattenSeq([i \in DOMAIN reqs |-> reqs[i].rest])
SizeOf(reqs) == Len(Bytes(reqs))

\* uv__write_req_finish: the head, as it is now, goes to the completed
\* queue, and the watcher to the pending queue.
Finished(s, r) == [s EXCEPT !.q = Tail(@), !.done = Append(@, r), !.fed = TRUE]

\* What is left of a request when n units more have been written.
Left(r, n) == [r EXCEPT !.rest = SubSeq(@, n + 1, Len(@))]

\* Faulty variant: a partial write does not reduce the size.
WriteKeepSize(s, n) ==
  LET r == Head(s.q)
  IN  IF s.q = <<>> THEN s
      ELSE IF n < 0
      THEN [Finished(s, [r EXCEPT !.err = TRUE]) EXCEPT !.pollout = FALSE]
      ELSE IF n = Len(r.rest)
      THEN [Finished(s, Left(r, n)) EXCEPT !.size = @ - n]
      ELSE [s EXCEPT !.q = <<Left(r, n)>> \o Tail(@), !.pollout = TRUE]

\* uv__write: one write() for the request at the head.  A request in error
\* keeps its size until its callback.
TryWrite(s, n) ==
  LET r == Head(s.q)
  IN  IF s.q = <<>> THEN s
      ELSE IF n < 0
      THEN [Finished(s, [r EXCEPT !.err = TRUE]) EXCEPT !.pollout = FALSE]
      ELSE IF n = Len(r.rest)
      THEN [Finished(s, Left(r, n)) EXCEPT !.size = @ - n]
      ELSE [s EXCEPT !.q = <<Left(r, n)>> \o Tail(@), !.size = @ - n,
                     !.pollout = TRUE]

\* Faulty variant: a request waits for the file to be writable.
WritesLater(s) == FALSE

\* uv_write2 writes at once when nothing is counted as unwritten.
WritesNow(s) == s.fd /\ s.size = 0

\* uv_write2: EBADF on a stream that is not open.
UvWrite(s, r, n) ==
  LET t == [s EXCEPT !.q = Append(@, r), !.size = @ + Len(r.rest)]
  IN  IF ~s.fd THEN s
      ELSE IF WritesNow(s) THEN TryWrite(t, n)
      ELSE [t EXCEPT !.pollout = TRUE]

\* uv__write_callbacks: a request in error gives back the size of what it
\* still holds, where one that is whole holds nothing; every callback frees
\* its request.
Callbacks(s) == [s EXCEPT !.done = <<>>, !.called = @ + Len(s.done),
                          !.size = @ - SizeOf(s.done)]

\* uv__stream_io on POLLOUT: uv__write, the callbacks and, on an empty
\* queue, uv__drain.
Flushed(s, n) ==
  LET t == Callbacks(TryWrite(s, n))
  IN  IF t.q = <<>> THEN [t EXCEPT !.pollout = FALSE] ELSE t

\* uv_close on a stream: uv__io_close drops the watcher and its place in the
\* pending queue; the requests stay until uv__stream_destroy.
Closed(s) == [s EXCEPT !.fd = FALSE, !.pollout = FALSE, !.fed = FALSE]

\* uv__stream_destroy: what is queued fails with ECANCELED, and every
\* callback runs.
Destroyed(s) ==
  LET cancelled == [i \in DOMAIN s.q |-> [s.q[i] EXCEPT !.err = TRUE]]
  IN  Callbacks([s EXCEPT !.q = <<>>, !.done = @ \o cancelled])
=============================================================================
