----------------------------- MODULE UvPipeline -----------------------------
(***************************************************************************)
(* The shell pipeline  uvcat in | uvtee out : the two programs and the     *)
(* pipe between them.  When uvtee is gone a write by uvcat raises SIGPIPE, *)
(* or fails if the two were started with the signal ignored; when uvcat is *)
(* gone uvtee finds the end of its input behind what is left.              *)
(***************************************************************************)
EXTENDS UvCat, UvTee

CONSTANT Input                   \* the file that uvcat copies

Byte == {Input[i] : i \in DOMAIN Input}

ASSUME InputAssumption == Input \in Seq(Byte)

vars == <<poolVars, catVars, teeVars, pipe, ignored>>

Init == CatInit(Input) /\ TeeInit

CatNext == /\ \/ CatMain
              \/ \E w \in Workers : CatWorks(w, TeeGone, ignored)
           /\ UNCHANGED <<teeVars, ignored>>

TeeReads == \/ PollReturns(pipe, WriterGone) /\ UNCHANGED pipe
            \/ ReadData(pipe, pipe', WriterGone)
            \/ ReadKills(pipe, pipe')
            \/ ReadNothing(pipe, WriterGone) /\ UNCHANGED pipe
            \/ ReadEof(pipe, WriterGone) /\ UNCHANGED pipe

TeeNext == /\ \/ TeeReads
              \/ TeeLoop /\ UNCHANGED pipe
           /\ UNCHANGED <<poolVars, catVars, ignored>>

OutNext == (OutIsRead \/ OutLeaves) /\ UNCHANGED <<poolVars, catVars, pipe, ignored>>

Ended == WriterGone /\ TeeGone

\* Both programs have ended.
AllGone == Ended /\ UNCHANGED vars

Next == CatNext \/ TeeNext \/ OutNext \/ AllGone

Spec == Init /\ [][Next]_vars

\* Each program's threads are scheduled fairly.  Nobody has to read the
\* output.
Fairness == /\ WF_vars(CatMain /\ UNCHANGED <<teeVars, ignored>>)
            /\ \A w \in Workers :
                 WF_vars(CatWorks(w, TeeGone, ignored) /\ UNCHANGED <<teeVars, ignored>>)
            /\ WF_vars(TeeNext)

FairSpec == Spec /\ Fairness
-----------------------------------------------------------------------------
(* Properties                                                              *)

TypeOK == /\ CatType
          /\ unread \in Seq(Byte) /\ buf \in Seq(Byte) /\ pipe \in Seq(Byte)
          /\ tee \in TeeStates /\ stdinOpen \in BOOLEAN
          /\ dst \in [Dests -> Stream(Byte)]
          /\ batch \subseteq Dests /\ evs \subseteq {"stdin", "stdout"}
          /\ hup \in BOOLEAN /\ outGone \in BOOLEAN /\ ignored \in BOOLEAN
          /\ count \in 0 .. Batch /\ (Reading => count > 0)
          /\ reads \in Nat /\ took \in 0 .. Len(Input)
          /\ copy \in [Dests -> Seq(Byte)] /\ room \in [Dests -> Nat]

\* uvcat has one request at a time, in one place: to be taken, at a worker,
\* or done; the exit message comes after the last, unless the program was
\* killed in a request.  The loop is called exactly for a request that is
\* done and that it has not seen.
Busy == {w \in Workers : worker[w] \in Reqs}
OneRequest ==
  LET posted == {<<r>> : r \in Reqs}
  IN  /\ efd = pending /\ pending = (cat = "poll" /\ lwq # <<>>)
      /\ \/ cat = "start" /\ wq = <<>> /\ lwq = <<>> /\ Busy = {}
         \/ cat = "poll" /\ wq \in posted /\ lwq = <<>> /\ Busy = {}
         \/ cat = "poll" /\ wq = <<>> /\ lwq = <<>> /\ \E w \in Workers : Busy = {w}
         \/ cat \in {"poll", "done"} /\ wq = <<>> /\ lwq \in posted /\ Busy = {}
         \/ cat \in {"exit", "gone"} /\ wq = <<Exit>> /\ lwq = <<>> /\ Busy = {}
         \/ /\ cat = "gone" /\ wq = <<>> /\ lwq = <<>> /\ Busy = {}
            /\ TeeGone /\ ~ignored /\ result = -1

\* No wake-up is lost: while a request or the exit message is in wq some
\* worker is on its way to it, or the message has reached them all; and no
\* worker leaves before the exit message.
NoneForgotten ==
  /\ wq # <<>> => \/ \E w \in Workers : Looking(w)
                 \/ \A w \in Workers : worker[w] = "gone"
  /\ (\E w \in Workers : worker[w] = "gone") => cat \in {"exit", "gone"}

\* What uvcat has read is in the pipe, in its buffer or passed on, in this
\* order, until an error ends it.  Nothing is read into the buffer before
\* it has been written.
Part(i, j) == SubSeq(Input, i + 1, j)
Unfinished(r) == wq = <<r>> \/ \E w \in Workers : worker[w] = r
InBuf == IF Unfinished("write") THEN iovlen
         ELSE IF lwq = <<"read">> /\ result > 0 THEN result ELSE 0
CatCopies ==
  LET end == Len(Input) - Len(unread)
  IN  /\ Len(unread) <= Len(Input) /\ unread = Part(end, Len(Input))
      /\ took + Len(pipe) <= Len(Input) /\ pipe = Part(took, took + Len(pipe))
      /\ cat = "start" \/ (\E r \in Reqs : Unfinished(r)) => result >= 0
      /\ result >= 0 => /\ took + Len(pipe) + InBuf = end
                        /\ SubSeq(buf, 1, InBuf) = Part(end - InBuf, end)

\* uvtee closes its streams at the end of its input only, or is killed, for
\* want of a reader of its output; what it polled for is dealt with before
\* the next turn.
TeeTurns == /\ tee # "pending" => batch = {}
            /\ tee \in {"exited", "killed"} => ~stdinOpen
            /\ tee = "killed" => Deadly
            /\ hup => WriterGone
            /\ IF stdinOpen THEN dst["stdout"].fd
               ELSE /\ evs = {} /\ \A d \in Dests : ~dst[d].fd
                    /\ \/ tee = "killed"
                       \/ tee \in {"events", "exited"} /\ pipe = <<>> /\ WriterGone

\* uvtee's memory.  Every write_req_t handed to a stream is in one of its
\* queues or has been freed by its callback, once and in the order of the
\* writes, and none is left when the program ends; one that uv_write
\* refused, when the file was not opened, is lost.
Queued(d) == Requests(dst[d])
Ledger == \A d \in Dests :
  /\ \A i \in DOMAIN Queued(d) : Queued(d)[i].id = dst[d].called + i
  /\ \/ dst[d].called + Len(Queued(d)) = reads
     \/ ~dst[d].fd /\ dst[d].called = 0 /\ Queued(d) = <<>>
  /\ stdinOpen /\ ~dst[d].fd => dst[d].called = 0 /\ Queued(d) = <<>>
  /\ tee = "exited" => Queued(d) = <<>>

\* write_queue_size is what the requests in the queues still hold, and only
\* one in error is finished with something left.
SizeExact == \A d \in Dests :
  /\ dst[d].size = SizeOf(Queued(d))
  /\ \A i \in DOMAIN dst[d].q : ~dst[d].q[i].err /\ dst[d].q[i].rest # <<>>
  /\ \A i \in DOMAIN dst[d].done : dst[d].done[i].err \/ dst[d].done[i].rest = <<>>

\* No request is stranded: a stream with requests in its queues is either
\* watched for POLLOUT or due in the pending queue.
Armed == \A d \in Dests :
  dst[d].fd /\ Queued(d) # <<>> =>
    \/ dst[d].fed \/ d \in batch
    \/ dst[d].pollout /\ dst[d].done = <<>>

\* What a destination was given is the beginning of what uvtee has read, and
\* what is queued for it is the end of that.  While it is fit nothing is in
\* between; the file, while the disk has room, is never behind.
Owed(d) == Bytes(dst[d].q)
Fit == {d \in Dests : dst[d].fd /\ IF d = "file" THEN room[d] > 0 ELSE ~outGone}
InOrder == \A d \in Dests :
  LET given == Len(copy[d])
      owed  == Len(Owed(d))
  IN  /\ copy[d] = Part(0, given) /\ Owed(d) = Part(took - owed, took)
      /\ given + owed <= took /\ (d \in Fit => given + owed = took)
Written  == dst["file"].called > 0 \/ Queued("file") # <<>>
FileOpen == dst["file"].fd \/ Written
FileWhole ==
  /\ room["file"] > 0 => /\ dst["file"].size = 0 /\ ~dst["file"].pollout
                         /\ FileOpen => Len(copy["file"]) = took
  /\ Written \/ tee = "killed" \/ copy["file"] = <<>>

\* The inductive invariant: uvcat's one request, the workers that look for
\* it and the bytes on their way, and the bookkeeping of uvtee's streams
\* over all interleavings of partial writes, errors, pending callbacks and
\* the close.
Inv == /\ TypeOK /\ OneRequest /\ NoneForgotten /\ CatCopies /\ TeeTurns
       /\ Ledger /\ SizeExact /\ Armed /\ InOrder /\ FileWhole

\* How far a file that was opened and has room may be behind: the one read
\* that killed uvtee.
OneReadShort == room["file"] > 0 /\ copy["file"] # <<>> => took <= Len(copy["file"]) + BufLen

\* The pipeline copies.  As long as uvtee lives, or has ended in its own
\* way, the file holds all that uvtee has read while the disk has room,
\* however slowly standard output is read and even when it is not; when both
\* programs have ended well that is the whole input.  Only when the disk was
\* found full does the loop have to wait for the file, and abort.  When
\* nobody reads standard output and SIGPIPE is not ignored uvtee is killed,
\* and the file lacks the read it died in, though it is never behind by
\* more.  Standard output has a prefix.
Copies == /\ \A d \in Dests : IsPrefix(copy[d], SubSeq(Input, 1, took))
          /\ FileOpen /\ room["file"] > 0 => Len(copy["file"]) = took
          /\ tee = "exited" /\ result = 0 /\ unread = <<>> => took = Len(Input)
          /\ tee = "aborted" => room["file"] = 0
          /\ tee = "killed" => outGone /\ ~ignored /\ OneReadShort

\* uvtee keeps the promise of a tee: the refinement reads what is owed to a
\* destination off the requests in its write queue.
Promise == INSTANCE TeeSpec WITH owed <- [d \in Dests |-> Owed(d)], fit <- Fit
KeepsPromise == Promise!Spec

\* Both programs end, even when nobody reads standard output any more.
Ends == <>Ended
=============================================================================
