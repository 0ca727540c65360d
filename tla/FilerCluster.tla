---------------------------- MODULE FilerCluster ----------------------------
(***************************************************************************)
(* The clustered file responder zmq-filer-rep-cluster.js and its clients   *)
(* zmq-filer-req-loop.js.  The master joins a ROUTER socket, which the     *)
(* requesters connect to, with a DEALER socket, which the workers connect  *)
(* to.  A requester's REQ socket has one request under way at a time, so a *)
(* request, and its reply, go by the name of the requester.                *)
(*                                                                         *)
(* The sockets are external: DEALER serves the workers it is connected to  *)
(* in turn, whether or not they are busy; REP hands over the next request  *)
(* when the last one is answered; what a peer has not fetched when it goes *)
(* is lost; and the master learns some time later that a worker has gone.  *)
(***************************************************************************)
EXTENDS Naturals, Sequences, FiniteSets, SequencesExt, Functions

CONSTANTS Worker, Requester,
          Readable,              \* the requesters whose file can be read
          Sends,                 \* requests of each requester, 3 in the code
          None

ASSUME ReadableAssumption == Readable \subseteq Requester
ASSUME SendsAssumption    == Sends \in Nat
ASSUME NoneAssumption     == None \notin Requester

VARIABLES unsent, asked,         \* per requester: requests left, one under way
          incoming,              \* requests on their way to the router
          outgoing,              \* what the dealer could not send yet
          turn,                  \* the workers the dealer knows, the next first
          inbox,                 \* per worker: requests sent to it
          serving,               \* per worker: the request being read, or None
          replies,               \* per worker: replies on their way to the dealer
          returning,             \* replies on their way to the requesters
          state                  \* per worker

master  == <<incoming, outgoing, turn, returning>>
clients == <<unsent, asked>>
vars    == <<clients, master, inbox, serving, replies, state>>

TypeOK == /\ unsent \in [Requester -> 0..Sends]
          /\ asked \in [Requester -> BOOLEAN]
          /\ incoming \subseteq Requester /\ returning \subseteq Requester
          /\ outgoing \in Seq(Requester)
          /\ turn \in Seq(Worker) /\ IsInjective(turn)
          /\ inbox \in [Worker -> Seq(Requester)]
          /\ serving \in [Worker -> Requester \union {None}]
          /\ replies \in [Worker -> Seq(Requester)]
          /\ state \in [Worker -> {"forked", "up", "dead"}]

Init == /\ unsent = [r \in Requester |-> Sends]
        /\ asked = [r \in Requester |-> FALSE]
        /\ incoming = {} /\ outgoing = <<>> /\ turn = <<>> /\ returning = {}
        /\ inbox = [w \in Worker |-> <<>>]
        /\ serving = [w \in Worker |-> None]
        /\ replies = [w \in Worker |-> <<>>]
        /\ state = [w \in Worker |-> "forked"]
-----------------------------------------------------------------------------
(* The requesters                                                          *)

\* Faulty variant: a requester that sends again without waiting for the reply.
RequestAgain(r) == /\ unsent[r] > 0 /\ r \notin incoming
                   /\ unsent' = [unsent EXCEPT ![r] = @ - 1]
                   /\ asked' = [asked EXCEPT ![r] = TRUE]
                   /\ incoming' = incoming \union {r}
                   /\ UNCHANGED <<outgoing, turn, returning, inbox, serving, replies, state>>

\* All three calls of send are made at once; REQ lets the next one go when
\* the last is answered.
Request(r) == /\ unsent[r] > 0 /\ ~asked[r]
              /\ unsent' = [unsent EXCEPT ![r] = @ - 1]
              /\ asked' = [asked EXCEPT ![r] = TRUE]
              /\ incoming' = incoming \union {r}
              /\ UNCHANGED <<outgoing, turn, returning, inbox, serving, replies, state>>

\* requester.on('message')
Receive(r) == /\ r \in returning
              /\ returning' = returning \ {r}
              /\ asked' = [asked EXCEPT ![r] = FALSE]
              /\ UNCHANGED <<unsent, incoming, outgoing, turn, inbox, serving, replies, state>>
-----------------------------------------------------------------------------
(* The master                                                              *)

\* Faulty variant: without a worker a request is dropped.
DealerSendDrops(q) ==
  IF turn = <<>> THEN outgoing' = <<>> /\ UNCHANGED <<turn, inbox>>
  ELSE /\ outgoing' = <<>>
       /\ inbox' = [inbox EXCEPT ![Head(turn)] = @ \o q]
       /\ turn' = Append(Tail(turn), Head(turn))

\* dealer.send for each request of q: to the workers in turn, or kept.  The
\* worker that is j-th in turn gets the j-th of q and then every Len(turn)-th.
DealerSend(q) ==
  IF turn = <<>> THEN outgoing' = q /\ UNCHANGED <<turn, inbox>>
  ELSE LET L     == Len(turn)
           dealt(j) == [m \in 1..((Len(q) + L - j) \div L) |-> q[j + (m - 1) * L]]
           k     == Len(q) % L
       IN  /\ outgoing' = <<>>
           /\ inbox' = [w \in Worker |->
                IF \E j \in 1..L : turn[j] = w
                THEN inbox[w] \o dealt(CHOOSE j \in 1..L : turn[j] = w) ELSE inbox[w]]
           /\ turn' = SubSeq(turn, k + 1, L) \o SubSeq(turn, 1, k)

\* router.on('message')
RouterMessage(r) == /\ r \in incoming
                    /\ incoming' = incoming \ {r}
                    /\ DealerSend(Append(outgoing, r))
                    /\ UNCHANGED <<clients, returning, serving, replies, state>>

\* The dealer has become writable.
DealerWritable == /\ outgoing # <<>> /\ turn # <<>>
                  /\ DealerSend(outgoing)
                  /\ UNCHANGED <<clients, incoming, returning, serving, replies, state>>

\* dealer.on('message')
DealerMessage(w) == /\ replies[w] # <<>> /\ w \in ToSet(turn)
                    /\ replies' = [replies EXCEPT ![w] = Tail(@)]
                    /\ returning' = returning \union {Head(replies[w])}
                    /\ UNCHANGED <<clients, incoming, outgoing, turn, inbox, serving, state>>

\* The connection of a dead worker is found closed; what was sent on it, in
\* either direction, is lost.  No worker is forked in its place.
Disconnect(w) == /\ state[w] = "dead"
                 /\ \E k \in DOMAIN turn : turn[k] = w /\ turn' = RemoveAt(turn, k)
                 /\ UNCHANGED <<clients, incoming, outgoing, returning, inbox, serving,
                                replies, state>>
-----------------------------------------------------------------------------
(* The workers                                                             *)

\* cluster.fork, zmq.socket('rep').connect
Connect(w) == /\ state[w] = "forked"
              /\ state' = [state EXCEPT ![w] = "up"]
              /\ turn' = Append(turn, w)
              /\ UNCHANGED <<clients, incoming, outgoing, returning, inbox, serving, replies>>

\* responder.on('message'): the file is being read.
Message(w) == /\ state[w] = "up" /\ serving[w] = None /\ inbox[w] # <<>>
              /\ serving' = [serving EXCEPT ![w] = Head(inbox[w])]
              /\ inbox' = [inbox EXCEPT ![w] = Tail(@)]
              /\ UNCHANGED <<clients, master, replies, state>>

\* Faulty variant: the error is looked at, but not answered.
FileReadReturns(w) == /\ state[w] = "up" /\ serving[w] \in Readable
                      /\ replies' = [replies EXCEPT ![w] = Append(@, serving[w])]
                      /\ serving' = [serving EXCEPT ![w] = None]
                      /\ UNCHANGED <<state, clients, master, inbox>>

\* The callback of readFile.  Without data data.toString() throws, and
\* nothing catches it.
FileRead(w) == /\ state[w] = "up" /\ serving[w] # None
               /\ IF serving[w] \in Readable
                  THEN /\ replies' = [replies EXCEPT ![w] = Append(@, serving[w])]
                       /\ serving' = [serving EXCEPT ![w] = None]
                       /\ UNCHANGED state
                  ELSE /\ state' = [state EXCEPT ![w] = "dead"]
                       /\ UNCHANGED <<replies, serving>>
               /\ UNCHANGED <<clients, master, inbox>>
-----------------------------------------------------------------------------
ClientStep(r) == Request(r) \/ Receive(r) \/ RouterMessage(r)
WorkerStep(w) == Connect(w) \/ Message(w) \/ FileRead(w) \/ DealerMessage(w) \/ Disconnect(w)

Next == \/ \E r \in Requester : ClientStep(r)
        \/ \E w \in Worker : WorkerStep(w)
        \/ DealerWritable

Spec == Init /\ [][Next]_vars

\* Every process runs and every connection is served.
Fairness == /\ \A r \in Requester : WF_vars(Request(r)) /\ WF_vars(Receive(r))
                                    /\ WF_vars(RouterMessage(r))
            /\ \A w \in Worker : WF_vars(Connect(w)) /\ WF_vars(Message(w))
                                 /\ WF_vars(FileRead(w)) /\ WF_vars(DealerMessage(w))
                                 /\ WF_vars(Disconnect(w))
            /\ WF_vars(DealerWritable)

FairSpec == Spec /\ Fairness
-----------------------------------------------------------------------------
(* Properties                                                              *)

\* The places of one kind of queue where a request of r is.
Slots(kind, queues, r) ==
  UNION {{<<kind, w, i>> : i \in {j \in DOMAIN queues[w] : queues[w][j] = r}} : w \in Worker}

\* Where a request of r is between r and back.
Places(r) == {<<"incoming">> : x \in incoming \intersect {r}}
             \union {<<"outgoing", i>> : i \in {j \in DOMAIN outgoing : outgoing[j] = r}}
             \union Slots("inbox", inbox, r)
             \union {<<"serving", w>> : w \in {v \in Worker : serving[v] = r}}
             \union Slots("replies", replies, r)
             \union {<<"returning">> : x \in returning \intersect {r}}

\* A request under way is in exactly one place; without a request under way
\* there is none.
OnePlace == \A r \in Requester : Cardinality(Places(r)) = IF asked[r] THEN 1 ELSE 0

Dead    == {w \in Worker : state[w] = "dead"}
Lost(r) == \E w \in Dead \ ToSet(turn) :
             r \in ToSet(inbox[w]) \union ToSet(replies[w]) \union {serving[w]}

\* A requester whose file cannot be read waits for ever, so each takes one
\* worker at most with it; the cluster outlives fewer of them than it has
\* workers, and each of the dead holds the request that killed it.
OneDeathEach == /\ \A w \in Dead : serving[w] \in Requester \ Readable
                /\ \A v, w \in Dead : serving[v] = serving[w] => v = w

\* Between all the queues, busy and dead workers, no request is doubled,
\* dropped, or blamed for two deaths.
Inv == TypeOK /\ OnePlace /\ OneDeathEach

\* A request for a file that can be read is answered, unless it was sent to a
\* worker that an unreadable file kills, or no worker is left.  Nobody may
\* just be forgotten, and a request that comes before the first worker is
\* connected has to wait, not to fail.
Served == \A r \in Requester :
            asked[r] ~> (~asked[r] \/ Lost(r) \/ Dead = Worker)
=============================================================================
