-------------------------------- MODULE UvTee -------------------------------
(***************************************************************************)
(* uvtee.c on libuv's loop: what is read from standard input, a pipe, is   *)
(* written to standard output, another pipe, and to a file.  One turn of   *)
(* uv_run is uv__run_pending, uv__io_poll with uv__stream_io for each      *)
(* event, and uv__run_closing_handles.                                     *)
(*                                                                         *)
(* A regular file cannot be watched by epoll: if the loop ever has to wait *)
(* for the file, uv__io_poll aborts.  uvtee never stops reading, however   *)
(* much is queued, and on the end of the input it closes everything.       *)
(* Neither uvtee nor libuv handles SIGPIPE: once nobody reads standard     *)
(* output the next write to it kills the program, unless whoever started   *)
(* it had the signal ignored.                                              *)
(***************************************************************************)
EXTENDS UvStream, FiniteSets

CONSTANTS BufLen,                \* what one read asks for, 64 kB
          Batch,                 \* reads in one uv__read, 32
          OutCap,                \* what the pipe at standard output holds
          Disk                   \* how much room the file may find

ASSUME TeeAssumption == /\ BufLen \in Nat \ {0} /\ Batch \in Nat \ {0}
                        /\ OutCap \in Nat /\ Disk \subseteq Nat

Dests == {"stdout", "file"}

VARIABLES tee,                   \* where uv_run is
          stdinOpen,             \* stdin_pipe is not closed
          dst,                   \* the streams stdout_pipe and file_pipe
          batch,                 \* uv__run_pending's own queue
          evs, hup,              \* what epoll returned, POLLHUP with stdin
          count,                 \* reads left in uv__read
          reads,                 \* how often read_stdin was given data
          took,                  \* the units it was given in all
          copy,                  \* what each destination was given
          room,                  \* what each could take now
          outGone,               \* nobody reads standard output any more
          ignored                \* SIGPIPE is ignored, constant in a run

teeVars == <<tee, stdinOpen, dst, batch, evs, hup, count, reads, took, copy,
             room, outGone>>

\* The input pipe belongs to the writer's module: its content, and whether
\* the write end is closed, are parameters here.
TeeStates == {"pending", "events", "reading", "exited", "aborted", "killed"}

TeeGone == tee \in {"exited", "aborted", "killed"}

\* The file may fail to open: its stream then has no descriptor.
TeeInit == /\ tee = "pending" /\ stdinOpen = TRUE
           /\ \E opened \in BOOLEAN :
                dst = [d \in Dests |-> NewStream(d = "stdout" \/ opened)]
           /\ batch = {} /\ evs = {} /\ hup = FALSE /\ count = 0
           /\ reads = 0 /\ took = 0
           /\ copy = [d \in Dests |-> <<>>]
           /\ \E r \in Disk : room = [d \in Dests |->
                                        IF d = "file" THEN r ELSE OutCap]
           /\ outGone = FALSE /\ ignored \in BOOLEAN
-----------------------------------------------------------------------------
Least(a, b) == IF a < b THEN a ELSE b

\* What write() of len units returns, if it does: ENOSPC on a full disk,
\* EPIPE when the reader has left, EAGAIN on a full pipe, else what fits.
Unable(d) == IF d = "file" THEN room[d] = 0 ELSE outGone
Outcome(d, len) == IF Unable(d) THEN -1 ELSE Least(len, room[d])

\* Each d in D has had write() for the first of `bytes[d]`, returning n[d].
Wrote(n, bytes) ==
  /\ copy' = [d \in Dests |-> copy[d] \o SubSeq(bytes[d], 1, n[d])]
  /\ room' = [d \in Dests |-> room[d] - (IF n[d] < 0 THEN 0 ELSE n[d])]

\* uv__stream_io(POLLOUT) on d
StreamIO(d) ==
  LET bytes == [e \in Dests |-> IF e = d /\ dst[d].q # <<>>
                                THEN Head(dst[d].q).rest ELSE <<>>]
      n     == [e \in Dests |-> IF bytes[e] = <<>> THEN 0
                                ELSE Outcome(e, Len(bytes[e]))]
  IN  /\ dst' = [dst EXCEPT ![d] = Flushed(@, n[d])]
      /\ Wrote(n, bytes)

\* A write to standard output would raise SIGPIPE, and the signal kills.
Deadly == outGone /\ ~ignored
DeadlyFlush(d) == Deadly /\ d = "stdout" /\ dst[d].q # <<>>
DeadlyRead == Deadly /\ WritesNow(dst["stdout"])

\* The process dies within write(): its memory, its requests and its
\* descriptors go with it.
Dies == /\ tee' = "killed" /\ stdinOpen' = FALSE
        /\ dst' = [d \in Dests |-> NewStream(FALSE)]
        /\ batch' = {} /\ evs' = {}

\* uv__run_pending
FlushPending(d) == /\ tee = "pending" /\ d \in batch /\ ~DeadlyFlush(d)
                   /\ batch' = batch \ {d}
                   /\ StreamIO(d)
                   /\ UNCHANGED <<tee, stdinOpen, evs, hup, count, reads, took,
                                  outGone>>

\* uv__io_poll registers the watchers that were started: EPERM for a file.
Abort == /\ tee = "pending" /\ batch = {} /\ dst["file"].pollout
         /\ tee' = "aborted"
         /\ UNCHANGED <<stdinOpen, dst, batch, evs, hup, count, reads, took,
                        copy, room, outGone>>

\* epoll_wait: at once when something is pending, else when there is an event.
PollReturns(pipe, ended) ==
  LET ready == {h \in {"stdin", "stdout"} :
                 \/ /\ h = "stdin"
                    /\ pipe # <<>> \/ ended
                 \/ /\ h = "stdout" /\ dst[h].pollout
                    /\ room[h] > 0 \/ outGone}
  IN  /\ tee = "pending" /\ batch = {} /\ ~dst["file"].pollout
      /\ tee' = "events"
      /\ ready # {} \/ \E d \in Dests : dst[d].fed
      /\ evs' = ready /\ hup' = ended /\ count' = Batch
      /\ UNCHANGED <<stdinOpen, dst, batch, reads, took, copy, room, outGone>>

FlushEvent == /\ tee = "events" /\ "stdout" \in evs /\ ~DeadlyFlush("stdout")
              /\ evs' = evs \ {"stdout"}
              /\ StreamIO("stdout")
              /\ UNCHANGED <<tee, stdinOpen, batch, hup, count, reads, took,
                             outGone>>

\* Either of them, when its write kills.
FlushKills == /\ \/ tee = "pending" /\ "stdout" \in batch
                 \/ tee = "events" /\ "stdout" \in evs
              /\ DeadlyFlush("stdout")
              /\ Dies
              /\ UNCHANGED <<hup, count, reads, took, copy, room, outGone>>

Reading == \/ tee = "reading"
           \/ tee = "events" /\ "stdin" \in evs

\* read_stdin on the end of the input: uv_close on all three.  The events of
\* what is closed are dropped.
Close(streams) == /\ dst' = [d \in Dests |-> Closed(streams[d])]
                  /\ stdinOpen' = FALSE /\ evs' = {} /\ tee' = "events"

\* Faulty variant: a destination that has a backlog is left out.
WriteDataIfIdle(data) ==
  [d \in Dests |-> IF dst[d].size > 0 THEN dst[d]
                   ELSE UvWrite(dst[d], [id |-> reads + 1, rest |-> data,
                                         err |-> FALSE],
                                Outcome(d, Len(data)))]

\* write_data for both destinations
WriteData(data) ==
  [d \in Dests |-> UvWrite(dst[d], [id |-> reads + 1, rest |-> data,
                                    err |-> FALSE],
                           Outcome(d, Len(data)))]

\* UV_STREAM_READ_PARTIAL and POLLHUP: the end of the input, without a read.
EndSeen(len) == len < BufLen /\ hup

\* read_stdin with nread > 0.  A read that did not fill the buffer ends the
\* loop of uv__read.
ReadData(pipe, pipe_, ended) ==
  LET len  == Least(BufLen, Len(pipe))
      data == SubSeq(pipe, 1, len)
      n    == [d \in Dests |-> IF WritesNow(dst[d]) THEN Outcome(d, len) ELSE 0]
      more == len = BufLen /\ count > 1
  IN  /\ Reading /\ pipe # <<>> /\ ~DeadlyRead
      /\ pipe_ = SubSeq(pipe, len + 1, Len(pipe))
      /\ reads' = reads + 1 /\ took' = took + len /\ count' = count - 1
      /\ Wrote(n, [d \in Dests |-> data])
      /\ IF ~more /\ EndSeen(len) THEN Close(WriteData(data))
         ELSE /\ dst' = WriteData(data)
              /\ tee' = IF more THEN "reading" ELSE "events"
              /\ evs' = evs \ {"stdin"}
              /\ UNCHANGED stdinOpen
      /\ UNCHANGED <<batch, hup, outGone>>

\* The same when the write to standard output kills: the file, which comes
\* second, is not given what was read.
ReadKills(pipe, pipe_) ==
  LET len == Least(BufLen, Len(pipe))
  IN  /\ Reading /\ pipe # <<>> /\ DeadlyRead
      /\ pipe_ = SubSeq(pipe, len + 1, Len(pipe))
      /\ reads' = reads + 1 /\ took' = took + len
      /\ Dies
      /\ UNCHANGED <<hup, count, copy, room, outGone>>

\* EAGAIN: read_stdin with nread = 0
ReadNothing(pipe, ended) ==
  /\ Reading /\ pipe = <<>> /\ ~ended
  /\ tee' = "events" /\ evs' = evs \ {"stdin"}
  /\ UNCHANGED <<stdinOpen, dst, batch, hup, count, reads, took, copy, room,
                 outGone>>

\* uv__stream_eof
ReadEof(pipe, ended) ==
  /\ Reading /\ pipe = <<>> /\ ended
  /\ Close(dst)
  /\ UNCHANGED <<batch, hup, count, reads, took, copy, room, outGone>>

\* The end of a turn with stdin open: uv__loop_alive, and the watchers that
\* were fed are moved to the pending queue of the next turn.
NextTurn == /\ tee = "events" /\ evs = {} /\ stdinOpen
            /\ tee' = "pending"
            /\ batch' = {d \in Dests : dst[d].fed}
            /\ dst' = [d \in Dests |-> [dst[d] EXCEPT !.fed = FALSE]]
            /\ UNCHANGED <<stdinOpen, evs, hup, count, reads, took, copy, room,
                           outGone>>

\* uv__run_closing_handles; no handle and no request is left, so uv_run
\* returns.
FinishClose == /\ tee = "events" /\ evs = {} /\ ~stdinOpen
               /\ dst' = [d \in Dests |-> Destroyed(dst[d])]
               /\ tee' = IF \E d \in Dests : Requests(dst'[d]) # <<>>
                         THEN "pending" ELSE "exited"
               /\ UNCHANGED <<stdinOpen, batch, evs, hup, count, reads, took,
                              copy, room, outGone>>

\* Whoever reads standard output takes all there is, or leaves.
OutIsRead == /\ ~outGone /\ room["stdout"] < OutCap
             /\ room' = [room EXCEPT !["stdout"] = OutCap]
             /\ UNCHANGED <<tee, stdinOpen, dst, batch, evs, hup, count, reads,
                            took, copy, outGone>>
OutLeaves == /\ ~outGone /\ outGone' = TRUE
             /\ UNCHANGED <<tee, stdinOpen, dst, batch, evs, hup, count, reads,
                            took, copy, room>>
-----------------------------------------------------------------------------
TeeLoop == \/ \E d \in Dests : FlushPending(d)
           \/ Abort \/ FlushEvent \/ FlushKills \/ NextTurn \/ FinishClose
=============================================================================
