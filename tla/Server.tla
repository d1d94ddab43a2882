-------------------------------- MODULE Server --------------------------------
(***************************************************************************)
(* server::object_storage::ObjectStorage: start, the accept loop, the      *)
(* worker threads that run the handlers of one io_service, and stop.  Of a *)
(* session only what holds a worker is here: it is received from, its      *)
(* handler runs when the line of a request has come, and reads the rest of *)
(* the header with a blocking call (handleHttp).                           *)
(***************************************************************************)
EXTENDS Naturals, Sequences, FiniteSets

CONSTANTS Workers,        \* threads start() may create
          Clients,
          Slow,           \* clients that need not finish a header
          Hangups,        \* clients may leave
          AcceptErrors,   \* async_accept may fail
          Flaws           \* a request may end the process: see HttpSession

ASSUME SlowAssumption == Slow \subseteq Clients

VARIABLES phase,      \* of the server: see Phases
          workers_,   \* the threads created
          doing,      \* the handler a worker runs, or "waiting" or "exited"
          ready,      \* handlers in the queue of the io_service
          accept,     \* the async_accept: "none", "pending", or "failed" for good
          client,     \* how far the connection of each client is: see Stages
          left        \* the clients that have closed or reset it

vars == <<phase, workers_, doing, ready, accept, client, left>>

Phases == {"created", "refused", "running", "stopping", "stopped", "terminated"}

(* "posted": receiveMessage is in the queue; "open": its async_read_until  *)
(* is pending; then the line of a request has come, and its header.        *)
Stages == {"away", "backlog", "accepted", "posted", "open", "line", "header", "closed"}

(* The completions of async_accept ("started" is acceptConnection from the *)
(* post on), receiveMessage, and the handler of a line.                    *)
Tasks == {"accept", "started", "refuse", "receive", "serve"}

Handler(h, c) == [do |-> h, client |-> c]

Waiting == Handler("waiting", "none")
Exited == Handler("exited", "none")

Init ==
    /\ phase = "created" /\ workers_ = {}
    /\ doing = [w \in Workers |-> Waiting]
    /\ ready = <<>> /\ accept = "none"
    /\ client = [c \in Clients |-> "away"]
    /\ left = {}

-----------------------------------------------------------------------------
(* The address is bound, and the first connection awaited. *)
configureAcceptor == phase = "created" /\ accept' = "pending"

(* start(): no threads, a bad port range or a failing acceptor refuse.     *)
Start(threads) ==
    /\ phase = "created"
    /\ \/ /\ phase' = "refused"
          /\ UNCHANGED <<workers_, accept>>
       \/ /\ threads # {}
          /\ phase' = "running"
          /\ workers_' = threads
          /\ configureAcceptor
    /\ UNCHANGED <<doing, ready, client, left>>

(* stop(): io_service_.stop() and then the joins.  No handler is taken     *)
(* from the queue any more.                                                *)
Stop ==
    /\ phase \in {"created", "refused", "running"}
    /\ phase' = "stopping"
    /\ UNCHANGED <<workers_, doing, ready, accept, client, left>>

(* Mistake: poll() in place of run(). *)
NothingReady == ready = <<>>

(* No handler runs or waits, and nothing is pending that would bring one.  *)
(* A write or a data connection of a session puts this off and no more, so *)
(* they are left out.                                                      *)
OutOfWork ==
    /\ accept # "pending" /\ ready = <<>>
    /\ \A w \in Workers : doing[w].do \notin Tasks
    /\ \A c \in Clients : client[c] # "open"

(* Mistake: stop() joins the threads and leaves the io_service running. *)
ExitWhenDrained(w) ==
    /\ phase \in {"running", "stopping"} /\ OutOfWork
    /\ w \in workers_ /\ doing[w] = Waiting
    /\ doing' = [doing EXCEPT ![w] = Exited]
    /\ UNCHANGED <<phase, workers_, ready, accept, client, left>>

(* run() returns when the io_service is stopped, and when it is out of     *)
(* work: nothing keeps it from that.                                       *)
Exit(w) ==
    /\ phase = "stopping" \/ (phase = "running" /\ OutOfWork)
    /\ w \in workers_ /\ doing[w] = Waiting
    /\ doing' = [doing EXCEPT ![w] = Exited]
    /\ UNCHANGED <<phase, workers_, ready, accept, client, left>>

Joined ==
    /\ phase = "stopping" /\ \A w \in workers_ : doing[w] = Exited
    /\ phase' = "stopped"
    /\ UNCHANGED <<workers_, doing, ready, accept, client, left>>

-----------------------------------------------------------------------------
(* The io_service. *)
Alive == phase \in {"running", "stopping"}

Queue(h, c) == ready' = Append(ready, Handler(h, c))

(* async_accept takes a connection, or fails and leaves it: no descriptor. *)
Accepted(c) ==
    /\ Alive /\ accept = "pending" /\ client[c] = "backlog"
    /\ \/ /\ client' = [client EXCEPT ![c] = "accepted"]
          /\ Queue("accept", c)
       \/ /\ AcceptErrors
          /\ Queue("refuse", c)
          /\ UNCHANGED client
    /\ accept' = "none"
    /\ UNCHANGED <<phase, workers_, doing, left>>

(* Mistake: the next line is received while this one is served. *)
LineReadAgain(c) ==
    /\ Alive /\ client[c] \in {"open", "line"}
    /\ client' = [client EXCEPT ![c] = "line"]
    /\ Queue("serve", c)
    /\ UNCHANGED <<phase, workers_, doing, accept, left>>

(* The line of a request has come: async_read_until completes. *)
LineRead(c) ==
    /\ Alive /\ client[c] = "open"
    /\ client' = [client EXCEPT ![c] = "line"]
    /\ Queue("serve", c)
    /\ UNCHANGED <<phase, workers_, doing, accept, left>>

(* It fails: the client has left.  The handler receives again, and that    *)
(* read fails at once.                                                     *)
ReadFails(c) ==
    /\ Alive /\ client[c] = "open" /\ c \in left
    /\ client' = [client EXCEPT ![c] = "posted"]
    /\ Queue("receive", c)
    /\ UNCHANGED <<phase, workers_, doing, accept, left>>

(* Mistake: a handler runs on a thread that start() has not created. *)
TakeAnywhere(w) ==
    /\ phase = "running" /\ doing[w] = Waiting /\ ready # <<>>
    /\ doing' = [doing EXCEPT ![w] = Head(ready)]
    /\ ready' = Tail(ready)
    /\ UNCHANGED <<phase, workers_, accept, client, left>>

Take(w) ==
    /\ phase = "running" /\ w \in workers_ /\ doing[w] = Waiting /\ ready # <<>>
    /\ doing' = [doing EXCEPT ![w] = Head(ready)]
    /\ ready' = Tail(ready)
    /\ UNCHANGED <<phase, workers_, accept, client, left>>

-----------------------------------------------------------------------------
(* The handlers, on worker w. *)
Runs(w, h) == Alive /\ doing[w].do = h

Returns(w) == doing' = [doing EXCEPT ![w] = Waiting]

(* Nothing catches what a handler throws.                                  *)
Throws == phase' = "terminated" /\ UNCHANGED <<workers_, doing, ready, accept, client, left>>

(* acceptConnection and Session::start up to the post of receiveMessage,   *)
(* which another worker may take at once.  Asking for the address of a     *)
(* client that has reset the connection throws; one that has closed it is  *)
(* received from, and found to be at its end.                              *)
AcceptConnection(w) ==
    /\ Runs(w, "accept")
    /\ LET c == doing[w].client IN
       \/ /\ c \in left
          /\ Throws
       \/ /\ client' = [client EXCEPT ![c] = "posted"]
          /\ Queue("receive", c)
          /\ doing' = [doing EXCEPT ![w] = Handler("started", c)]
          /\ UNCHANGED <<phase, workers_, accept, left>>

(* Mistake: a client that is gone by now is dropped, the next accept with it. *)
AcceptOnlyHere(w) ==
    /\ Runs(w, "started")
    /\ accept' = IF doing[w].client \in left THEN accept ELSE "pending"
    /\ Returns(w)
    /\ UNCHANGED <<phase, workers_, ready, client, left>>

(* The rest of them: the address is asked for again, and the next          *)
(* connection is awaited.  The session may be served already.              *)
AcceptNext(w) ==
    /\ Runs(w, "started")
    /\ \/ /\ doing[w].client \in left
          /\ Throws
       \/ /\ accept' = "pending"
          /\ Returns(w)
          /\ UNCHANGED <<phase, workers_, ready, client, left>>

(* Its error branch returns without another async_accept. *)
AcceptFails(w) ==
    /\ Runs(w, "refuse")
    /\ accept' = "failed"
    /\ Returns(w)
    /\ UNCHANGED <<phase, workers_, ready, client, left>>

receiveMessage(w) ==
    /\ Runs(w, "receive")
    /\ client' = [client EXCEPT ![doing[w].client] = "open"]
    /\ Returns(w)
    /\ UNCHANGED <<phase, workers_, ready, accept, left>>

(* Mistake: the session does not receive again. *)
ServeOnce(w) ==
    /\ Runs(w, "serve")
    /\ client[doing[w].client] = "header"
    /\ Returns(w)
    /\ UNCHANGED <<phase, workers_, ready, accept, client, left>>

(* handleHttp holds its worker until the header has come.  The session     *)
(* receives again, or has refused the request and ends.  The end of the    *)
(* stream makes read_until throw in a noexcept function, and some requests *)
(* do so to those it calls.                                                *)
Serve(w) ==
    /\ Runs(w, "serve")
    /\ LET c == doing[w].client IN
       \/ /\ client[c] = "header"
          /\ \E stage \in {"open", "closed"} : client' = [client EXCEPT ![c] = stage]
          /\ Returns(w)
          /\ UNCHANGED <<phase, workers_, ready, accept, left>>
       \/ /\ \/ client[c] = "line" /\ c \in left
             \/ client[c] = "header" /\ Flaws
          /\ Throws

Handlers(w) ==
    AcceptConnection(w) \/ AcceptNext(w) \/ AcceptFails(w) \/ receiveMessage(w) \/ Serve(w)

-----------------------------------------------------------------------------
(* The clients. *)
Connect(c) ==
    /\ Alive /\ client[c] = "away"
    /\ client' = [client EXCEPT ![c] = "backlog"]
    /\ UNCHANGED <<phase, workers_, doing, ready, accept, left>>

(* The rest of the header comes; it may have been sent before the client   *)
(* left.                                                                   *)
HeaderSent(c) ==
    /\ Alive /\ client[c] = "line"
    /\ client' = [client EXCEPT ![c] = "header"]
    /\ UNCHANGED <<phase, workers_, doing, ready, accept, left>>

(* At any time; the server learns of it when it uses the socket.           *)
Leaves(c) ==
    /\ Hangups /\ Alive /\ client[c] # "away" /\ c \notin left
    /\ left' = left \cup {c}
    /\ UNCHANGED <<phase, workers_, doing, ready, accept, client>>

Next ==
    \/ \E threads \in SUBSET Workers : Start(threads)
    \/ Stop \/ Joined
    \/ \E w \in Workers : Exit(w) \/ Take(w) \/ Handlers(w)
    \/ \E c \in Clients :
          Connect(c) \/ Accepted(c) \/ LineRead(c) \/ ReadFails(c) \/ HeaderSent(c) \/ Leaves(c)

(* The threads run, the system completes accepts and failing reads, and    *)
(* every client but the slow ones finishes the header it has begun, unless *)
(* it leaves.                                                              *)
Spec ==
    /\ Init /\ [][Next]_vars
    /\ WF_vars(Joined)
    /\ \A w \in Workers : WF_vars(Exit(w)) /\ WF_vars(Take(w)) /\ WF_vars(Handlers(w))
    /\ \A c \in Clients : WF_vars(Accepted(c)) /\ WF_vars(ReadFails(c))
    /\ \A c \in Clients \ Slow : WF_vars(c \notin left /\ HeaderSent(c))

-----------------------------------------------------------------------------
(* Every variable keeps to its values, and only threads that start() has   *)
(* created run handlers.                                                   *)
TypeOK ==
    /\ phase \in Phases /\ workers_ \subseteq Workers
    /\ accept \in {"none", "pending", "failed"}
    /\ client \in [Clients -> Stages] /\ left \subseteq Clients
    /\ \A j \in 1 .. Len(ready) : ready[j].do \in Tasks /\ ready[j].client \in Clients
    /\ \A w \in Workers :
          \/ doing[w] = Waiting
          \/ w \in workers_ /\ doing[w] = Exited
          \/ w \in workers_ /\ doing[w].do \in Tasks /\ doing[w].client \in Clients

(* The handlers that wait in the queue and those that run. *)
Queued(P(_)) == {<<"queue", j>> : j \in {i \in 1 .. Len(ready) : P(ready[i])}}
Running(P(_)) == {<<"worker", w>> : w \in {v \in Workers : P(doing[v])}}

Places(P(_)) == Queued(P) \cup Running(P)

OfAccept(h) == h.do \in {"accept", "started", "refuse"}

OfSession(h, c) == h.do \in {"accept", "receive", "serve"} /\ h.client = c

(* No handler is due for a client that has not been accepted, from whom    *)
(* the session receives, or whose session has ended.                       *)
Unattended == {"away", "backlog", "open", "closed"}

(* The accept loop does not fork, and only the error of an accept stops    *)
(* it: until one has failed there is one async_accept, or one handler that *)
(* has yet to begin the next; from then on there is neither, and every     *)
(* later client stays in the backlog of a server that runs.                *)
OneAccept ==
    phase = "running" =>
        LET async_accepts == IF accept = "pending" THEN 1 ELSE 0 IN
        async_accepts + Cardinality(Places(OfAccept)) = IF accept = "failed" THEN 0 ELSE 1

(* A session has no lock.  From its acceptance until it receives it has    *)
(* one handler, queued or running, that reads from its socket or acts on   *)
(* what was read, and none while it receives or when it has ended: no two  *)
(* workers ever serve one connection.  Only the rest of start(), after its *)
(* post, runs beside them.                                                 *)
OneHandlerEach ==
    \A c \in Clients :
        LET Of(h) == OfSession(h, c) IN
        Cardinality(Places(Of)) = IF client[c] \in Unattended THEN 0 ELSE 1

(* run() has nothing to keep it from returning, yet a worker of a running  *)
(* server ends only when an accept has failed and no session is left to be *)
(* served: never between two handlers of a session or of the accept loop.  *)
WorkersStay ==
    phase = "running" /\ (\E w \in workers_ : doing[w] = Exited) =>
        accept = "failed" /\ \A c \in Clients : client[c] \in {"away", "backlog", "closed"}

(* The invariant behind them.  What handlers are, and what start() finds;  *)
(* of the handlers, "one" without counting; why a worker has ended.        *)
HandlerTypes ==
    /\ ready \in Seq([do : Tasks, client : Clients])
    /\ doing \in [Workers -> [do : Tasks, client : Clients] \cup {Waiting, Exited}]
    /\ phase = "created" => ready = <<>> /\ \A w \in Workers : doing[w] = Waiting

IsOne(S) == \E x \in S : S = {x}

AcceptIsDue ==
    phase = "running" =>
        IF accept = "none" THEN IsOne(Places(OfAccept)) ELSE Places(OfAccept) = {}

HandlerIsDue ==
    \A c \in Clients :
        LET Of(h) == OfSession(h, c) IN
        IF client[c] \in Unattended THEN Places(Of) = {} ELSE IsOne(Places(Of))

EndsOutOfWork ==
    phase = "running" /\ (\E w \in workers_ : doing[w] = Exited) => OutOfWork

IInv == TypeOK /\ HandlerTypes /\ AcceptIsDue /\ HandlerIsDue /\ EndsOutOfWork

Enough == Cardinality(Slow) < Cardinality(workers_)

(* With fewer slow clients than workers every other connection is taken,   *)
(* and every session that is started, or has read a line, receives again   *)
(* or ends, unless accepting has failed for good or the server stops or    *)
(* ends.  Sessions whose client has left keep the queue busy and do not    *)
(* keep the others from it.                                                *)
EveryClientServed ==
    \A c \in Clients \ Slow :
        /\ Enough /\ client[c] = "backlog"
              ~> (client[c] # "backlog" \/ accept = "failed" \/ phase # "running")
        /\ Enough /\ client[c] \in {"accepted", "posted", "line", "header"}
              ~> (client[c] \in {"open", "closed"} \/ phase # "running")

(* stop() returns, unless a worker waits for the header of a slow client.  *)
StopEnds ==
    phase = "stopping" ~>
        \/ phase \in {"stopped", "terminated"}
        \/ \E w \in Workers : doing[w].do = "serve" /\ doing[w].client \in Slow
=============================================================================
