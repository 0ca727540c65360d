-------------------------------- MODULE UvCat -------------------------------
(***************************************************************************)
(* uvcat.c: copy a file to standard output, here the write end of a pipe.  *)
(* One request at a time is at the thread pool: the open, then reads and   *)
(* writes in turn, each posted by the callback of the one before.          *)
(*                                                                         *)
(* `iov` is global: on_read shrinks iov.len to what was read and nothing   *)
(* sets it back, so a short read makes all later reads that short.  A      *)
(* write of at most a buffer, 1024 bytes, fits PIPE_BUF: it blocks until   *)
(* it fits and then is whole.                                              *)
(***************************************************************************)
EXTENDS UvPool, Integers

CONSTANTS CatBuf,                \* sizeof(buffer)
          PipeCap                \* what the pipe holds

ASSUME CatAssumption == /\ Reqs = {"open", "read", "write"}
                        /\ CatBuf \in Nat \ {0} /\ PipeCap \in Nat
                        /\ CatBuf <= PipeCap

VARIABLES cat,                   \* the main thread
          unread,                \* what the file still holds
          buf, iovlen,           \* the bytes in buffer, iov.len
          result,                \* of the request that finished last
          pipe                   \* stdin of the next program

catVars == <<cat, unread, buf, iovlen, result>>

\* "poll" in uv_run, "done" at uv__work_done, "exit" at the pool's cleanup
CatStates == {"start", "poll", "done", "exit", "gone"}

CatInit(input) == /\ PoolInit
                  /\ cat = "start" /\ unread = input /\ buf = <<>>
                  /\ iovlen = CatBuf /\ result = 0 /\ pipe = <<>>

WriterGone == cat = "gone"
-----------------------------------------------------------------------------
\* main: uv_fs_open posts the first request.
CatStart == /\ cat = "start" /\ cat' = "poll"
            /\ Post("open")
            /\ UNCHANGED <<lwq, pending, efd, unread, buf, iovlen, result, pipe>>

\* The worker's system calls.  An error is a result of -1.
CatOpen(w) == /\ worker[w] = "open" /\ Finish(w)
              /\ result' \in {0, -1}
              /\ UNCHANGED <<cat, unread, buf, iovlen, pipe>>

\* read(): 0 at the end, else what the file gives, which may be less than
\* iov.len.
CatRead(w) == /\ worker[w] = "read" /\ Finish(w)
              /\ result' \in {n \in -1 .. iovlen : /\ n <= Len(unread)
                                                   /\ n = 0 => unread = <<>>}
              /\ IF result' > 0
                 THEN /\ buf' = SubSeq(unread, 1, result')
                      /\ unread' = SubSeq(unread, result' + 1, Len(unread))
                 ELSE UNCHANGED <<buf, unread>>
              /\ UNCHANGED <<cat, iovlen, pipe>>

\* write(1, buffer, iov.len).  When the reader is gone it fails, if SIGPIPE
\* is ignored.
CatWrite(w, gone, ignores) ==
  /\ worker[w] = "write" /\ Finish(w)
  /\ \/ /\ ~gone /\ Len(pipe) + iovlen <= PipeCap
        /\ pipe' = pipe \o SubSeq(buf, 1, iovlen)
        /\ result' = iovlen
     \/ gone /\ ignores /\ result' = -1 /\ pipe' = pipe
  /\ UNCHANGED <<cat, unread, buf, iovlen>>

\* If it is not, the signal kills uvcat with all its threads, one of them in
\* the middle of a request.
CatKilled(w, gone, ignores) ==
  /\ worker[w] = "write" /\ gone /\ ~ignores
  /\ worker' = [v \in Workers |-> "gone"] /\ cat' = "gone" /\ result' = -1
  /\ UNCHANGED <<wq, lwq, pending, efd, unread, buf, iovlen, pipe>>

\* uv__io_poll returns with the eventfd.
CatWakes == /\ cat = "poll" /\ AsyncEvent /\ cat' = "done"
            /\ UNCHANGED <<unread, buf, iovlen, result, pipe>>

\* on_open, on_read, on_write: the request each posts next.  After an error,
\* or at the end, none: uv_run returns, and so does main.
OnDone(r) == IF result < 0 THEN Exit
             ELSE IF r = "read" THEN IF result = 0 THEN Exit ELSE "write"
             ELSE "read"

\* uv__work_done and the callback of the one request in it.  The destructor
\* of the pool posts the exit message.
CatDone == /\ cat = "done" /\ lwq # <<>>
           /\ LET next == OnDone(Head(lwq))
              IN  /\ Post(next)
                  /\ cat' = IF next = Exit THEN "exit" ELSE "poll"
                  /\ iovlen' = IF next = "write" THEN result ELSE iovlen
           /\ lwq' = <<>>
           /\ UNCHANGED <<pending, efd, unread, buf, result, pipe>>

\* uv_thread_join of every worker; the pipe's write end is closed.
CatExits == /\ cat = "exit" /\ \A w \in Workers : worker[w] = "gone"
            /\ cat' = "gone"
            /\ UNCHANGED <<poolVars, unread, buf, iovlen, result, pipe>>

CatWorks(w, gone, ignores) ==
  \/ PoolStep(w) /\ UNCHANGED <<catVars, pipe>>
  \/ CatOpen(w) \/ CatRead(w) \/ CatWrite(w, gone, ignores)
  \/ CatKilled(w, gone, ignores)

CatMain == CatStart \/ CatWakes \/ CatDone \/ CatExits

CatType == /\ PoolType
           /\ cat \in CatStates
           /\ iovlen \in 1 .. CatBuf /\ result \in -1 .. CatBuf
           /\ Len(pipe) <= PipeCap
=============================================================================
