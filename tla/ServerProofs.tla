----------------------------- MODULE ServerProofs -----------------------------
(* The accept loop and the handlers, for any number of workers and clients. *)
EXTENDS Server, SequenceTheorems, FiniteSetTheorems, TLAPS

(***************************************************************************)
(* Where handlers of a set H are, in a queue q and with workers that do d.  *)
(***************************************************************************)
PlacesOf(q, d, H) ==
    {<<"queue", j>> : j \in {i \in 1 .. Len(q) : q[i] \in H}}
        \cup {<<"worker", w>> : w \in {v \in Workers : d[v] \in H}}

(* A handler that is queued gets a place of its own. *)
LEMMA PlacesAppend ==
    ASSUME NEW S, NEW q \in Seq(S), NEW h \in S, NEW d, NEW H
    PROVE /\ h \in H => PlacesOf(Append(q, h), d, H) = PlacesOf(q, d, H) \cup {<<"queue", Len(q) + 1>>}
          /\ h \notin H => PlacesOf(Append(q, h), d, H) = PlacesOf(q, d, H)
<1>1. /\ Len(q) \in Nat /\ Len(Append(q, h)) = Len(q) + 1
      /\ \A i \in 1 .. Len(q) : Append(q, h)[i] = q[i]
      /\ Append(q, h)[Len(q) + 1] = h
    BY AppendProperties, LenProperties
<1>2. {i \in 1 .. Len(Append(q, h)) : Append(q, h)[i] \in H} =
        {i \in 1 .. Len(q) : q[i] \in H} \cup (IF h \in H THEN {Len(q) + 1} ELSE {})
  <2>1. 1 .. Len(Append(q, h)) = 1 .. Len(q) \cup {Len(q) + 1}
    BY <1>1
  <2>. QED
    BY <1>1, <2>1
<1>. QED
    BY <1>2 DEF PlacesOf

(* A worker that turns to x, of another set, gives its place up. *)
TurnsTo(w, x) == doing' = [doing EXCEPT ![w] = x]

LEMMA PlacesReturn ==
    ASSUME HandlerTypes, NEW w \in Workers, NEW x, TurnsTo(w, x), NEW H, x \notin H
    PROVE PlacesOf(ready, doing', H) = PlacesOf(ready, doing, H) \ {<<"worker", w>>}
<1>1. doing'[w] = x /\ \A v \in Workers \ {w} : doing'[v] = doing[v]
    BY DEF HandlerTypes, TurnsTo
<1>2. {v \in Workers : doing'[v] \in H} = {v \in Workers : doing[v] \in H} \ {w}
    BY <1>1
<1>. QED
    BY <1>2 DEF PlacesOf

(* A worker that takes the first handler of the queue changes the places,  *)
(* not how many there are.                                                 *)
LEMMA PlacesTake ==
    ASSUME NEW S, NEW q \in Seq(S), q # <<>>, NEW D, NEW d \in [Workers -> D],
           NEW w \in Workers, NEW H, d[w] \notin H
    PROVE /\ PlacesOf(q, d, H) = {} => PlacesOf(Tail(q), [d EXCEPT ![w] = Head(q)], H) = {}
          /\ IsOne(PlacesOf(q, d, H)) => IsOne(PlacesOf(Tail(q), [d EXCEPT ![w] = Head(q)], H))
<1>. DEFINE e == [d EXCEPT ![w] = Head(q)]
            Old == PlacesOf(q, d, H)
            New == PlacesOf(Tail(q), e, H)
<1>1. /\ Len(q) \in Nat \ {0} /\ Len(Tail(q)) = Len(q) - 1 /\ Head(q) = q[1]
      /\ \A i \in 1 .. Len(q) - 1 : Tail(q)[i] = q[i + 1]
    BY HeadTailProperties, EmptySeq
<1>2. e[w] = q[1] /\ \A v \in Workers \ {w} : e[v] = d[v]
    BY <1>1
<1>. DEFINE Move(x) == IF x[1] = "worker" THEN x
                       ELSE IF x[2] = 1 THEN <<"worker", w>> ELSE <<"queue", x[2] - 1>>
<1>3. ASSUME NEW x \in Old PROVE Move(x) \in New
  <2>1. CASE \E i \in 1 .. Len(q) : x = <<"queue", i>> /\ q[i] \in H
    <3>. PICK i \in 1 .. Len(q) : x = <<"queue", i>> /\ q[i] \in H
        BY <2>1
    <3>1. CASE i = 1
        BY <1>2, <3>1 DEF PlacesOf
    <3>2. CASE i # 1
      <4>1. i - 1 \in 1 .. Len(Tail(q)) /\ Tail(q)[i - 1] \in H
        BY <1>1, <3>2
      <4>2. <<"queue", i - 1>> \in New
        BY <4>1 DEF PlacesOf
      <4>3. Move(x) = <<"queue", i - 1>>
        BY <3>2
      <4>. QED
        BY <4>2, <4>3
    <3>. QED
        BY <3>1, <3>2
  <2>2. CASE \E v \in Workers : x = <<"worker", v>> /\ d[v] \in H
    BY <1>2, <2>2 DEF PlacesOf
  <2>. QED
    BY <2>1, <2>2 DEF PlacesOf
<1>4. ASSUME NEW y \in New PROVE \E x \in Old : y = Move(x)
  <2>1. CASE \E i \in 1 .. Len(Tail(q)) : y = <<"queue", i>> /\ Tail(q)[i] \in H
    <3>. PICK i \in 1 .. Len(Tail(q)) : y = <<"queue", i>> /\ Tail(q)[i] \in H
        BY <2>1
    <3>1. i + 1 \in 1 .. Len(q) /\ q[i + 1] \in H
        BY <1>1
    <3>2. <<"queue", i + 1>> \in Old
        BY <3>1 DEF PlacesOf
    <3>3. Move(<<"queue", i + 1>>) = y
        BY <1>1
    <3>. QED
        BY <3>2, <3>3
  <2>2. CASE \E v \in Workers : y = <<"worker", v>> /\ e[v] \in H
    <3>. PICK v \in Workers : y = <<"worker", v>> /\ e[v] \in H
        BY <2>2
    <3>1. CASE v = w
      <4>1. 1 \in 1 .. Len(q) /\ q[1] \in H
        BY <1>1, <1>2, <3>1
      <4>2. <<"queue", 1>> \in Old
        BY <4>1 DEF PlacesOf
      <4>. QED
        BY <3>1, <4>2
    <3>2. CASE v # w
        BY <1>2, <3>2 DEF PlacesOf
    <3>. QED
        BY <3>1, <3>2
  <2>. QED
    BY <2>1, <2>2 DEF PlacesOf
<1>5. New = {Move(x) : x \in Old}
    BY <1>3, <1>4
<1>. HIDE DEF Old, New, Move, e
<1>6. Old = {} => New = {}
    BY <1>5
<1>7. IsOne(Old) => IsOne(New)
    BY <1>5 DEF IsOne
<1>. QED
    BY <1>6, <1>7 DEF Old, New, e

AcceptHandlers == [do : {"accept", "started", "refuse"}, client : Clients]

HandlersOf(c) == [do : {"accept", "receive", "serve"}, client : {c}]

AcceptPlaces == PlacesOf(ready, doing, AcceptHandlers)

PlacesFor(c) == PlacesOf(ready, doing, HandlersOf(c))

LEMMA AsPlaces ==
    HandlerTypes => Places(OfAccept) = AcceptPlaces
<1> SUFFICES ASSUME HandlerTypes PROVE Places(OfAccept) = AcceptPlaces
    OBVIOUS
<1>1. \A i \in 1 .. Len(ready) : OfAccept(ready[i]) <=> ready[i] \in AcceptHandlers
  <2>1. \A i \in 1 .. Len(ready) : ready[i] \in [do : Tasks, client : Clients]
    BY ElementOfSeq DEF HandlerTypes
  <2>. QED
    BY <2>1 DEF OfAccept, AcceptHandlers, Tasks
<1>2. ASSUME NEW w \in Workers PROVE OfAccept(doing[w]) <=> doing[w] \in AcceptHandlers
  <2>1. CASE doing[w] \in [do : Tasks, client : Clients]
    BY <2>1 DEF OfAccept, AcceptHandlers, Tasks
  <2>2. CASE doing[w] \in {Waiting, Exited}
    <3>1. doing[w].do \notin Tasks
        BY <2>2 DEF Waiting, Exited, Handler, Tasks
    <3>2. \A h \in AcceptHandlers : h.do \in Tasks
        BY DEF AcceptHandlers, Tasks
    <3>. QED
        BY <3>1, <3>2 DEF OfAccept, Tasks
  <2>. QED
    BY <2>1, <2>2 DEF HandlerTypes
<1>. QED
    BY <1>1, <1>2 DEF Places, Queued, Running, AcceptPlaces, PlacesOf

LEMMA AsPlacesFor ==
    HandlerTypes => \A c \in Clients : LET Of(h) == OfSession(h, c) IN Places(Of) = PlacesFor(c)
<1> SUFFICES ASSUME HandlerTypes, NEW c \in Clients
             PROVE LET Of(h) == OfSession(h, c) IN Places(Of) = PlacesFor(c)
    OBVIOUS
<1>1. \A i \in 1 .. Len(ready) : OfSession(ready[i], c) <=> ready[i] \in HandlersOf(c)
  <2>1. \A i \in 1 .. Len(ready) : ready[i] \in [do : Tasks, client : Clients]
    BY ElementOfSeq DEF HandlerTypes
  <2>. QED
    BY <2>1 DEF OfSession, HandlersOf, Tasks
<1>2. ASSUME NEW w \in Workers PROVE OfSession(doing[w], c) <=> doing[w] \in HandlersOf(c)
  <2>1. CASE doing[w] \in [do : Tasks, client : Clients]
    BY <2>1 DEF OfSession, HandlersOf, Tasks
  <2>2. CASE doing[w] \in {Waiting, Exited}
    <3>1. doing[w].do \notin Tasks
        BY <2>2 DEF Waiting, Exited, Handler, Tasks
    <3>2. \A h \in HandlersOf(c) : h.do \in Tasks
        BY DEF HandlersOf, Tasks
    <3>. QED
        BY <3>1, <3>2 DEF OfSession, Tasks
  <2>. QED
    BY <2>1, <2>2 DEF HandlerTypes
<1>. QED
    BY <1>1, <1>2 DEF Places, Queued, Running, PlacesFor, PlacesOf

(* The invariant in terms of places. *)
AcceptPlaced ==
    phase = "running" => IF accept = "none" THEN IsOne(AcceptPlaces) ELSE AcceptPlaces = {}

ClientsPlaced ==
    \A c \in Clients : IF client[c] \in Unattended THEN PlacesFor(c) = {} ELSE IsOne(PlacesFor(c))

LEMMA InvAsPlaces ==
    HandlerTypes => (AcceptIsDue <=> AcceptPlaced) /\ (HandlerIsDue <=> ClientsPlaced)
BY AsPlaces, AsPlacesFor DEF AcceptIsDue, HandlerIsDue, AcceptPlaced, ClientsPlaced

LEMMA InvAsPlacesNext ==
    HandlerTypes' => (AcceptIsDue' <=> AcceptPlaced') /\ (HandlerIsDue' <=> ClientsPlaced')
BY InvAsPlaces, PTL

LEMMA InitInv == Init => IInv
<1> SUFFICES ASSUME Init PROVE IInv
    OBVIOUS
<1>1. TypeOK
    BY EmptySeq DEF Init, TypeOK, Phases, Stages
<1>2. HandlerTypes
    BY EmptySeq DEF Init, HandlerTypes
<1>3. \A H : Waiting \notin H => PlacesOf(ready, doing, H) = {}
    BY EmptySeq DEF Init, PlacesOf
<1>4. AcceptPlaced
    BY DEF Init, AcceptPlaced
<1>5. ClientsPlaced
    BY <1>3 DEF Init, ClientsPlaced, PlacesFor, HandlersOf, Tasks, Waiting, Handler, Unattended
<1>6. EndsOutOfWork
    BY DEF Init, EndsOutOfWork
<1>. QED
    BY <1>1, <1>2, <1>4, <1>5, <1>6, InvAsPlaces DEF IInv

(* The queue keeps to its values, as Append and Tail do. *)
LEMMA QueueTypes ==
    ASSUME HandlerTypes
    PROVE /\ \A h \in Tasks, c \in Clients :
                Queue(h, c) => /\ ready' \in Seq([do : Tasks, client : Clients])
                               /\ Len(ready) \in Nat /\ Len(ready') = Len(ready) + 1
                               /\ \A j \in 1 .. Len(ready) : ready'[j] = ready[j]
                               /\ ready'[Len(ready) + 1] = Handler(h, c)
          /\ ready # <<>> => /\ Tail(ready) \in Seq([do : Tasks, client : Clients])
                             /\ Head(ready) \in [do : Tasks, client : Clients]
<1>1. ready \in Seq([do : Tasks, client : Clients])
    BY DEF HandlerTypes
<1>2. ASSUME NEW h \in Tasks, NEW c \in Clients, Queue(h, c)
      PROVE /\ ready' \in Seq([do : Tasks, client : Clients])
            /\ Len(ready) \in Nat /\ Len(ready') = Len(ready) + 1
            /\ \A j \in 1 .. Len(ready) : ready'[j] = ready[j]
            /\ ready'[Len(ready) + 1] = Handler(h, c)
  <2>1. Handler(h, c) \in [do : Tasks, client : Clients]
    BY DEF Handler
  <2>. QED
    BY <1>1, <1>2, <2>1, AppendProperties, LenProperties DEF Queue
<1>. QED
    BY <1>1, <1>2, HeadTailProperties

LEMMA HandlerTypesStay ==
    ASSUME IInv, Next
    PROVE HandlerTypes'
<1>. USE DEF HandlerTypes
<1>1. HandlerTypes /\ TypeOK
    BY DEF IInv
<1>2. ASSUME NEW w \in Workers, doing[w].do \in Tasks PROVE doing[w].client \in Clients
    BY <1>1, <1>2 DEF TypeOK, Waiting, Exited, Handler, Tasks
<1>3. Waiting \in [do : Tasks, client : Clients] \cup {Waiting, Exited}
    OBVIOUS
<1>4. ASSUME NEW threads \in SUBSET Workers, Start(threads) PROVE HandlerTypes'
    BY <1>1, <1>4 DEF Start
<1>5. CASE Stop \/ Joined
    BY <1>1, <1>5 DEF Stop, Joined
<1>6. ASSUME NEW w \in Workers, Exit(w) PROVE HandlerTypes'
    BY <1>1, <1>6 DEF Exit
<1>7. ASSUME NEW w \in Workers, Take(w) PROVE HandlerTypes'
    BY <1>1, <1>7, QueueTypes DEF Take
<1>8. ASSUME NEW w \in Workers, Handlers(w) PROVE HandlerTypes'
  <2>. USE DEF Runs, Returns, Alive, Throws
  <2>1. CASE AcceptConnection(w)
    <3>1. doing[w].client \in Clients /\ phase # "created"
        BY <1>2, <2>1 DEF AcceptConnection, Tasks
    <3>2. Handler("started", doing[w].client) \in [do : Tasks, client : Clients]
        BY <3>1 DEF Handler, Tasks
    <3>3. \/ UNCHANGED <<ready, doing>> /\ phase' = "terminated"
          \/ /\ UNCHANGED phase /\ Queue("receive", doing[w].client)
             /\ doing' = [doing EXCEPT ![w] = Handler("started", doing[w].client)]
        BY <2>1 DEF AcceptConnection
    <3>4. "receive" \in Tasks
        BY DEF Tasks
    <3>. QED
        BY <1>1, <3>1, <3>2, <3>3, <3>4, QueueTypes
  <2>2. CASE AcceptNext(w) \/ AcceptFails(w) \/ receiveMessage(w)
    BY <1>1, <2>2 DEF AcceptNext, AcceptFails, receiveMessage
  <2>3. CASE Serve(w)
    BY <1>1, <2>3 DEF Serve
  <2>. QED
    BY <1>8, <2>1, <2>2, <2>3 DEF Handlers
<1>9. ASSUME NEW c \in Clients, Connect(c) \/ HeaderSent(c) \/ Leaves(c) PROVE HandlerTypes'
    BY <1>1, <1>9 DEF Connect, HeaderSent, Leaves
<1>10. ASSUME NEW c \in Clients, Accepted(c) \/ LineRead(c) \/ ReadFails(c) PROVE HandlerTypes'
    BY <1>1, <1>10, QueueTypes DEF Accepted, LineRead, ReadFails, Alive, Tasks
<1>. QED
    BY <1>4, <1>5, <1>6, <1>7, <1>8, <1>9, <1>10 DEF Next

LEMMA TypesStay ==
    ASSUME IInv, Next
    PROVE TypeOK'
<1>. USE DEF TypeOK, Phases, Stages
<1>1. HandlerTypes /\ TypeOK /\ HandlerTypes'
    BY HandlerTypesStay DEF IInv
<1>2. \A j \in 1 .. Len(ready') : ready'[j].do \in Tasks /\ ready'[j].client \in Clients
  <2>1. \A j \in 1 .. Len(ready') : ready'[j] \in [do : Tasks, client : Clients]
    BY <1>1, ElementOfSeq DEF HandlerTypes
  <2>. QED
    BY <2>1
<1>3. ASSUME NEW threads \in SUBSET Workers, Start(threads) PROVE TypeOK'
    BY <1>1, <1>2, <1>3 DEF Start, configureAcceptor, HandlerTypes
<1>4. CASE Stop \/ Joined
    BY <1>1, <1>4 DEF Stop, Joined
<1>5. ASSUME NEW w \in Workers, Exit(w) PROVE TypeOK'
    BY <1>1, <1>5 DEF Exit, HandlerTypes
<1>6. ASSUME NEW w \in Workers, Take(w) PROVE TypeOK'
    BY <1>1, <1>2, <1>6, QueueTypes DEF Take, HandlerTypes
<1>7. ASSUME NEW w \in Workers, Handlers(w) PROVE TypeOK'
  <2>. USE DEF Runs, Returns, Alive, Throws
  <2>1. CASE AcceptConnection(w)
    <3>1. doing[w].client \in Clients /\ w \in workers_
        BY <1>1, <2>1 DEF AcceptConnection, Waiting, Exited, Handler
    <3>2. /\ Handler("started", doing[w].client).do \in Tasks
          /\ Handler("started", doing[w].client).client \in Clients
        BY <3>1 DEF Handler, Tasks
    <3>. QED
        BY <1>1, <1>2, <2>1, <3>1, <3>2 DEF AcceptConnection, HandlerTypes
  <2>2. CASE AcceptNext(w) \/ AcceptFails(w)
    BY <1>1, <2>2 DEF AcceptNext, AcceptFails, HandlerTypes
  <2>3. CASE Serve(w)
    BY <1>1, <2>3 DEF Serve, HandlerTypes
  <2>4. CASE receiveMessage(w)
    BY <1>1, <2>4 DEF receiveMessage, HandlerTypes
  <2>. QED
    BY <1>7, <2>1, <2>2, <2>3, <2>4 DEF Handlers
<1>8. ASSUME NEW c \in Clients, Connect(c) \/ HeaderSent(c) \/ Leaves(c) PROVE TypeOK'
    BY <1>1, <1>8 DEF Connect, HeaderSent, Leaves
<1>9. ASSUME NEW c \in Clients, Accepted(c) \/ LineRead(c) \/ ReadFails(c) PROVE TypeOK'
    BY <1>1, <1>2, <1>9 DEF Accepted, LineRead, ReadFails, Alive
<1>. QED
    BY <1>3, <1>4, <1>5, <1>6, <1>7, <1>8, <1>9 DEF Next

-------------------------------------------------------------------------------
Waits(H) == H \cap {Waiting, Exited} = {}

Now(H) == PlacesOf(ready, doing, H)
Then(H) == PlacesOf(ready', doing', H)

LEMMA WorkerPlace ==
    \A H : \A w \in Workers : <<"worker", w>> \in Now(H) <=> doing[w] \in H
BY DEF Now, PlacesOf

LEMMA OneLess == \A S : \A x \in S : IsOne(S) => S \ {x} = {}
BY DEF IsOne

(* A handler comes, and the workers keep to those of H they have. *)
LEMMA PlaceComes ==
    ASSUME HandlerTypes, NEW H, NEW h \in Tasks, NEW c \in Clients, Queue(h, c),
           \A w \in Workers : doing'[w] \in H <=> doing[w] \in H
    PROVE /\ Handler(h, c) \notin H => Then(H) = Now(H)
          /\ Handler(h, c) \in H /\ Now(H) = {} => IsOne(Then(H))
<1>1. Handler(h, c) \in [do : Tasks, client : Clients]
    BY DEF Handler
<1>. DEFINE S == [do : Tasks, client : Clients]
            x == Handler(h, c)
<1>2. ready \in Seq(S) /\ x \in S /\ ready' = Append(ready, x)
    BY <1>1 DEF HandlerTypes, Queue
<1>. HIDE DEF S, x
<1>4. PlacesOf(ready, doing', H) = Now(H)
    BY DEF Now, PlacesOf
<1>3. /\ x \in H => Then(H) = Now(H) \cup {<<"queue", Len(ready) + 1>>}
      /\ x \notin H => Then(H) = Now(H)
    BY <1>2, <1>4, PlacesAppend DEF Then
<1>. QED
    BY <1>3 DEF IsOne, x

(* A worker takes one. *)
LEMMA PlaceTaken ==
    ASSUME HandlerTypes, NEW H, Waits(H), NEW w \in Workers, Take(w)
    PROVE /\ Now(H) = {} => Then(H) = {}
          /\ IsOne(Now(H)) => IsOne(Then(H))
<1>1. doing[w] \notin H
    BY DEF Waits, Take
<1>2. doing' = [doing EXCEPT ![w] = Head(ready)] /\ ready' = Tail(ready) /\ ready # <<>>
    BY DEF Take
<1>. QED
    BY <1>1, <1>2, PlacesTake DEF HandlerTypes, Then, Now

(* A worker returns. *)
LEMMA PlaceGoes ==
    ASSUME HandlerTypes, NEW H, Waits(H), NEW w \in Workers, Returns(w), UNCHANGED ready
    PROVE /\ doing[w] \notin H => Then(H) = Now(H)
          /\ doing[w] \in H => Now(H) # {} /\ (IsOne(Now(H)) => Then(H) = {})
<1>1. Waiting \notin H
    BY DEF Waits
<1>2. Then(H) = Now(H) \ {<<"worker", w>>}
    BY <1>1, PlacesReturn DEF Then, Now, Returns, TurnsTo
<1>3. <<"worker", w>> \in Now(H) <=> doing[w] \in H
    BY WorkerPlace
<1>. QED
    BY <1>2, <1>3, OneLess

(* A worker ends. *)
LEMMA PlaceLeft ==
    ASSUME HandlerTypes, NEW H, Waits(H), NEW w \in Workers, Exit(w)
    PROVE Then(H) = Now(H)
<1>1. Waiting \notin H /\ Exited \notin H
    BY DEF Waits
<1>2. \A v \in Workers : doing'[v] \in H <=> doing[v] \in H
    BY <1>1 DEF Exit, HandlerTypes
<1>. QED
    BY <1>2 DEF Exit, Now, Then, PlacesOf

(* A worker turns to something else, and a handler comes. *)
LEMMA PlaceFollows ==
    ASSUME HandlerTypes, NEW H, NEW w \in Workers, NEW y, TurnsTo(w, y), y \notin H,
           NEW h \in Tasks, NEW c \in Clients, Queue(h, c)
    PROVE /\ doing[w] \notin H /\ Handler(h, c) \notin H => Then(H) = Now(H)
          /\ doing[w] \in H /\ Handler(h, c) \notin H => Now(H) # {} /\ (IsOne(Now(H)) => Then(H) = {})
          /\ doing[w] \in H /\ Handler(h, c) \in H => Now(H) # {} /\ (IsOne(Now(H)) => IsOne(Then(H)))
<1>1. Handler(h, c) \in [do : Tasks, client : Clients]
    BY DEF Handler
<1>. DEFINE S == [do : Tasks, client : Clients]
            x == Handler(h, c)
<1>2. ready \in Seq(S) /\ x \in S /\ ready' = Append(ready, x)
    BY <1>1 DEF HandlerTypes, Queue
<1>. HIDE DEF S, x
<1>3. PlacesOf(ready, doing', H) = Now(H) \ {<<"worker", w>>}
    BY <1>2, PlacesReturn DEF Now
<1>4. /\ x \in H => Then(H) = PlacesOf(ready, doing', H) \cup {<<"queue", Len(ready) + 1>>}
      /\ x \notin H => Then(H) = PlacesOf(ready, doing', H)
    BY <1>2, PlacesAppend DEF Then
<1>5. <<"worker", w>> \in Now(H) <=> doing[w] \in H
    BY WorkerPlace
<1>6. IsOne(Now(H)) /\ doing[w] \in H => PlacesOf(ready, doing', H) = {}
    BY <1>3, <1>5, OneLess
<1>7. doing[w] \notin H => PlacesOf(ready, doing', H) = Now(H)
    BY <1>3, <1>5
<1>8. \A z : IsOne({} \cup {z})
    BY DEF IsOne
<1>. QED
    BY <1>4, <1>5, <1>6, <1>7, <1>8 DEF x

(* Which handlers are which. *)
LEMMA Kinds ==
    /\ Waits(AcceptHandlers) /\ \A c \in Clients : Waits(HandlersOf(c))
    /\ \A h \in Tasks, c \in Clients :
          /\ Handler(h, c) \in AcceptHandlers <=> h \in {"accept", "started", "refuse"}
          /\ \A b \in Clients :
                Handler(h, c) \in HandlersOf(b) <=> b = c /\ h \notin {"started", "refuse"}
BY DEF Waits, AcceptHandlers, HandlersOf, Handler, Tasks, Waiting, Exited

LEMMA RunningKinds ==
    ASSUME HandlerTypes, NEW w \in Workers, doing[w].do \in Tasks
    PROVE doing[w].client \in Clients /\ doing[w] = Handler(doing[w].do, doing[w].client)
BY DEF HandlerTypes, Waiting, Exited, Handler, Tasks

LEMMA PlacedAs ==
    /\ AcceptPlaces = Now(AcceptHandlers) /\ AcceptPlaces' = Then(AcceptHandlers)
    /\ \A c \in Clients : PlacesFor(c) = Now(HandlersOf(c)) /\ PlacesFor(c)' = Then(HandlersOf(c))
BY DEF AcceptPlaces, PlacesFor, Now, Then

(* One async_accept, whatever is done. *)
LEMMA AcceptStays ==
    ASSUME IInv, Next
    PROVE AcceptPlaced'
<1>. DEFINE A == Now(AcceptHandlers)
            B == Then(AcceptHandlers)
<1>1. HandlerTypes /\ TypeOK /\ Waits(AcceptHandlers)
    BY Kinds DEF IInv
<1>2. phase = "running" => IF accept = "none" THEN IsOne(A) ELSE A = {}
    BY <1>1, InvAsPlaces, PlacedAs DEF IInv, AcceptPlaced
<1>3. SUFFICES phase' = "running" => IF accept' = "none" THEN IsOne(B) ELSE B = {}
    BY PlacedAs DEF AcceptPlaced
<1>. HIDE DEF A, B
<1>4. UNCHANGED <<ready, doing>> => B = A
    BY DEF A, B, Now, Then
<1>5. ASSUME NEW threads \in SUBSET Workers, Start(threads)
      PROVE phase' = "running" => IF accept' = "none" THEN IsOne(B) ELSE B = {}
  <2>1. phase' = "running" => accept' = "pending"
    BY <1>5 DEF Start, configureAcceptor
  <2>2. A = {}
    <3>1. ready = <<>> /\ \A w \in Workers : doing[w] = Waiting
        BY <1>1, <1>5 DEF Start, HandlerTypes
    <3>. QED
        BY <1>1, <3>1, EmptySeq DEF A, Now, PlacesOf, Waits
  <2>. QED
    BY <1>4, <1>5, <2>1, <2>2 DEF Start
<1>6. CASE Stop \/ Joined
    BY <1>6 DEF Stop, Joined
<1>7. ASSUME NEW w \in Workers, Exit(w)
      PROVE phase' = "running" => IF accept' = "none" THEN IsOne(B) ELSE B = {}
  <2>1. B = A
    BY <1>1, <1>7, PlaceLeft DEF A, B
  <2>. QED
    BY <1>2, <1>7, <2>1 DEF Exit
<1>8. ASSUME NEW w \in Workers, Take(w)
      PROVE phase' = "running" => IF accept' = "none" THEN IsOne(B) ELSE B = {}
    BY <1>1, <1>2, <1>8, PlaceTaken DEF Take, A, B
<1>9. ASSUME NEW w \in Workers, Handlers(w)
      PROVE phase' = "running" => IF accept' = "none" THEN IsOne(B) ELSE B = {}
  <2>1. /\ doing[w].client \in Clients
        /\ doing[w] \in AcceptHandlers <=> doing[w].do \in {"accept", "started", "refuse"}
    <3>1. doing[w].do \in Tasks
        BY <1>9 DEF Handlers, AcceptConnection, AcceptNext, AcceptFails, receiveMessage, Serve, Runs, Tasks
    <3>. QED
        BY <1>1, <3>1, RunningKinds, Kinds
  <2>2. Returns(w) /\ UNCHANGED ready =>
            /\ doing[w] \notin AcceptHandlers => B = A
            /\ doing[w] \in AcceptHandlers => A # {} /\ (IsOne(A) => B = {})
    BY <1>1, PlaceGoes DEF A, B
  <2>3. CASE Throws
    BY <2>3 DEF Throws
  <2>4. CASE AcceptConnection(w) /\ ~ Throws
    <3>. DEFINE x == Handler("started", doing[w].client)
    <3>1. TurnsTo(w, x) /\ Queue("receive", doing[w].client) /\ UNCHANGED <<phase, accept>>
        BY <2>4 DEF AcceptConnection, TurnsTo
    <3>2. /\ x \in AcceptHandlers /\ doing[w] \in AcceptHandlers
          /\ "receive" \in Tasks /\ Handler("receive", doing[w].client) \notin AcceptHandlers
        BY <2>1, <2>4, Kinds DEF AcceptConnection, Runs, Tasks
    <3>3. \A v \in Workers : doing'[v] \in AcceptHandlers <=> doing[v] \in AcceptHandlers
        BY <1>1, <3>1, <3>2 DEF TurnsTo, HandlerTypes
    <3>4. B = A
        BY <1>1, <2>1, <3>1, <3>2, <3>3, PlaceComes DEF A, B
    <3>. QED
        BY <1>2, <3>1, <3>4
  <2>5. CASE (AcceptNext(w) \/ AcceptFails(w)) /\ ~ Throws
    BY <1>2, <2>1, <2>2, <2>5 DEF AcceptNext, AcceptFails, Runs
  <2>6. CASE (receiveMessage(w) \/ Serve(w)) /\ ~ Throws
    BY <1>2, <2>1, <2>2, <2>6 DEF receiveMessage, Serve, Runs
  <2>. QED
    BY <1>9, <2>3, <2>4, <2>5, <2>6 DEF Handlers
<1>10. ASSUME NEW c \in Clients, Accepted(c)
       PROVE phase' = "running" => IF accept' = "none" THEN IsOne(B) ELSE B = {}
  <2>1. PICK h \in {"accept", "refuse"} : Queue(h, c)
    BY <1>10 DEF Accepted
  <2>2. h \in Tasks /\ Handler(h, c) \in AcceptHandlers
    BY Kinds DEF Tasks
  <2>3. A = {} => IsOne(B)
    BY <1>1, <1>10, <2>1, <2>2, PlaceComes DEF Accepted, A, B
  <2>. QED
    BY <1>2, <1>10, <2>3 DEF Accepted
<1>11. ASSUME NEW c \in Clients, LineRead(c) \/ ReadFails(c)
       PROVE phase' = "running" => IF accept' = "none" THEN IsOne(B) ELSE B = {}
  <2>1. ASSUME NEW h \in {"serve", "receive"}, Queue(h, c) PROVE B = A
    <3>1. h \in Tasks /\ Handler(h, c) \notin AcceptHandlers
        BY Kinds DEF Tasks
    <3>2. UNCHANGED doing
        BY <1>11 DEF LineRead, ReadFails
    <3>. QED
        BY <1>1, <2>1, <3>1, <3>2, PlaceComes DEF A, B
  <2>2. B = A
    BY <1>11, <2>1 DEF LineRead, ReadFails
  <2>. QED
    BY <1>2, <1>11, <2>2 DEF LineRead, ReadFails
<1>12. ASSUME NEW c \in Clients, Connect(c) \/ HeaderSent(c) \/ Leaves(c)
       PROVE phase' = "running" => IF accept' = "none" THEN IsOne(B) ELSE B = {}
    BY <1>2, <1>4, <1>12 DEF Connect, HeaderSent, Leaves
<1>. QED
    BY <1>5, <1>6, <1>7, <1>8, <1>9, <1>10, <1>11, <1>12 DEF Next

(* One handler for each client that is attended to, whatever is done. *)
LEMMA ClientsStay ==
    ASSUME IInv, Next
    PROVE ClientsPlaced'
<1>1. HandlerTypes /\ TypeOK
    BY DEF IInv
<1>. SUFFICES ASSUME NEW c \in Clients
              PROVE IF client'[c] \in Unattended THEN Then(HandlersOf(c)) = {}
                                                ELSE IsOne(Then(HandlersOf(c)))
    BY PlacedAs DEF ClientsPlaced, Unattended
<1>. DEFINE H == HandlersOf(c)
            A == Now(H)
            B == Then(H)
            Placed == IF client'[c] \in Unattended THEN B = {} ELSE IsOne(B)
<1>2. Waits(H)
    BY Kinds
<1>3. IF client[c] \in Unattended THEN A = {} ELSE IsOne(A)
    BY <1>1, InvAsPlaces, PlacedAs DEF IInv, ClientsPlaced
<1>4. ~ IsOne({})
    BY DEF IsOne
<1>5. UNCHANGED <<ready, doing>> => B = A
    BY DEF Now, Then
<1>6. \A h \in Tasks, b \in Clients : Handler(h, b) \in H <=> b = c /\ h \notin {"started", "refuse"}
    BY Kinds
<1>7. client \in [Clients -> Stages]
    BY <1>1 DEF TypeOK
<1>8. \A w \in Workers : doing[w] \in H => <<"worker", w>> \in A
    BY WorkerPlace
<1>. HIDE DEF H, A, B
<1>9. ASSUME NEW threads \in SUBSET Workers, Start(threads) PROVE Placed
    BY <1>3, <1>5, <1>9 DEF Start
<1>10. ASSUME Stop \/ Joined PROVE Placed
    BY <1>3, <1>5, <1>10 DEF Stop, Joined
<1>11. ASSUME NEW w \in Workers, Exit(w) PROVE Placed
  <2>1. B = A
    BY <1>1, <1>2, <1>11, PlaceLeft DEF A, B
  <2>. QED
    BY <1>3, <1>11, <2>1 DEF Exit
<1>12. ASSUME NEW w \in Workers, Take(w) PROVE Placed
    BY <1>1, <1>2, <1>3, <1>12, PlaceTaken DEF Take, A, B
<1>13. ASSUME NEW w \in Workers, Handlers(w) PROVE Placed
  <2>1. /\ doing[w].client \in Clients
        /\ doing[w] \in H <=> doing[w].client = c /\ doing[w].do \notin {"started", "refuse"}
    <3>1. doing[w].do \in Tasks
        BY <1>13 DEF Handlers, AcceptConnection, AcceptNext, AcceptFails, receiveMessage, Serve, Runs, Tasks
    <3>. QED
        BY <1>1, <1>6, <3>1, RunningKinds
  <2>2. Returns(w) /\ UNCHANGED ready =>
            /\ doing[w] \notin H => B = A
            /\ doing[w] \in H => A # {} /\ (IsOne(A) => B = {})
    BY <1>1, <1>2, PlaceGoes DEF A, B
  <2>3. CASE Throws
    BY <1>3, <1>5, <2>3 DEF Throws
  <2>4. CASE AcceptConnection(w) /\ ~ Throws
    <3>. DEFINE d == doing[w].client
                x == Handler("started", d)
    <3>1. /\ TurnsTo(w, x) /\ Queue("receive", d)
          /\ client' = [client EXCEPT ![d] = "posted"] /\ doing[w].do = "accept"
        BY <2>4 DEF AcceptConnection, TurnsTo, Runs
    <3>2. /\ x \notin H /\ "receive" \in Tasks
          /\ doing[w] \in H <=> d = c
          /\ Handler("receive", d) \in H <=> d = c
        BY <1>6, <2>1, <3>1 DEF Tasks
    <3>3. /\ d # c => B = A
          /\ d = c => A # {} /\ (IsOne(A) => IsOne(B))
        BY <1>1, <2>1, <3>1, <3>2, PlaceFollows DEF A, B
    <3>. QED
        BY <1>3, <1>7, <2>1, <3>1, <3>3 DEF Unattended
  <2>5. CASE (AcceptNext(w) \/ AcceptFails(w)) /\ ~ Throws
    BY <1>3, <2>1, <2>2, <2>5 DEF AcceptNext, AcceptFails, Runs
  <2>6. CASE (receiveMessage(w) \/ Serve(w)) /\ ~ Throws
    BY <1>3, <1>7, <2>1, <2>2, <2>6 DEF receiveMessage, Serve, Runs, Unattended
  <2>. QED
    BY <1>13, <2>3, <2>4, <2>5, <2>6 DEF Handlers
<1>14. ASSUME NEW b \in Clients, Accepted(b) PROVE Placed
  <2>1. CASE Queue("accept", b) /\ client' = [client EXCEPT ![b] = "accepted"]
    <3>1. /\ b # c => B = A
          /\ b = c /\ A = {} => IsOne(B)
        BY <1>1, <1>6, <1>14, <2>1, PlaceComes DEF Accepted, Tasks, A, B
    <3>. QED
        BY <1>3, <1>7, <1>14, <2>1, <3>1 DEF Accepted, Unattended
  <2>2. CASE Queue("refuse", b) /\ UNCHANGED client
    <3>1. B = A
        BY <1>1, <1>6, <1>14, <2>2, PlaceComes DEF Accepted, Tasks, A, B
    <3>. QED
        BY <1>3, <2>2, <3>1
  <2>. QED
    BY <1>14, <2>1, <2>2 DEF Accepted
<1>15. ASSUME NEW b \in Clients, NEW h \in {"serve", "receive"}, Queue(h, b), UNCHANGED doing
       PROVE /\ b # c => B = A
             /\ b = c /\ A = {} => IsOne(B)
    BY <1>1, <1>6, <1>15, PlaceComes DEF Tasks, A, B
<1>16. ASSUME NEW b \in Clients, LineRead(b) PROVE Placed
    BY <1>3, <1>7, <1>15, <1>16 DEF LineRead, Unattended
<1>17. ASSUME NEW b \in Clients, ReadFails(b) PROVE Placed
    BY <1>3, <1>7, <1>15, <1>17 DEF ReadFails, Unattended
<1>18. ASSUME NEW b \in Clients, Connect(b) \/ HeaderSent(b) \/ Leaves(b) PROVE Placed
    BY <1>3, <1>5, <1>7, <1>18 DEF Connect, HeaderSent, Leaves, Unattended
<1>. QED
    BY <1>9, <1>10, <1>11, <1>12, <1>13, <1>14, <1>16, <1>17, <1>18 DEF Next, H, B

(* A server that is out of work stays so: a worker that has ended has left *)
(* nothing undone, and nothing comes after it.                             *)
LEMMA EndsStay ==
    ASSUME IInv, Next
    PROVE EndsOutOfWork'
<1>1. TypeOK /\ HandlerTypes /\ EndsOutOfWork
    BY DEF IInv
<1>. DEFINE Ended == phase = "running" /\ \E w \in workers_ : doing[w] = Exited
<1>2. Ended => OutOfWork
    BY <1>1 DEF EndsOutOfWork
<1>3. Exited.do \notin Tasks
    BY DEF Exited, Handler, Tasks
<1>4. ASSUME NEW threads \in SUBSET Workers, Start(threads) PROVE EndsOutOfWork'
  <2>1. \A w \in Workers : doing'[w] # Exited
    BY <1>1, <1>4 DEF Start, HandlerTypes, Waiting, Exited, Handler
  <2>. QED
    BY <1>1, <1>4, <2>1 DEF EndsOutOfWork, Start
<1>5. CASE Stop \/ Joined
    BY <1>5 DEF Stop, Joined, EndsOutOfWork
<1>6. ASSUME NEW w \in Workers, Exit(w) PROVE EndsOutOfWork'
    BY <1>1, <1>3, <1>6 DEF Exit, EndsOutOfWork, OutOfWork, HandlerTypes
<1>7. ASSUME NEW w \in Workers, Take(w) PROVE EndsOutOfWork'
  <2>1. phase = "running" /\ ~ OutOfWork /\ UNCHANGED <<phase, workers_>>
    BY <1>7 DEF Take, OutOfWork
  <2>2. doing' = [doing EXCEPT ![w] = Head(ready)] /\ Head(ready) \in [do : Tasks, client : Clients]
    BY <1>1, <1>7, QueueTypes DEF Take
  <2>3. Head(ready) # Exited
    BY <1>3, <2>2
  <2>. QED
    BY <1>1, <1>2, <2>1, <2>2, <2>3 DEF EndsOutOfWork, HandlerTypes, TypeOK
<1>8. ASSUME NEW w \in Workers, Handlers(w) PROVE EndsOutOfWork'
  <2>1. ~ OutOfWork
    BY <1>8 DEF Handlers, AcceptConnection, AcceptNext, AcceptFails, receiveMessage, Serve,
                Runs, OutOfWork, Tasks
  <2>2. /\ UNCHANGED workers_ /\ (phase' = phase \/ phase' = "terminated")
        /\ \/ UNCHANGED doing \/ Returns(w) \/ TurnsTo(w, Handler("started", doing[w].client))
    BY <1>8 DEF Handlers, AcceptConnection, AcceptNext, AcceptFails, receiveMessage, Serve,
                Throws, TurnsTo
  <2>3. Waiting # Exited /\ Handler("started", doing[w].client) # Exited
    BY DEF Waiting, Exited, Handler
  <2>. QED
    BY <1>1, <1>2, <2>1, <2>2, <2>3 DEF EndsOutOfWork, Returns, TurnsTo, HandlerTypes, TypeOK
<1>9. ASSUME NEW c \in Clients, Accepted(c) \/ LineRead(c) \/ ReadFails(c) PROVE EndsOutOfWork'
    BY <1>2, <1>9 DEF Accepted, LineRead, ReadFails, EndsOutOfWork, OutOfWork
<1>10. ASSUME NEW c \in Clients, Connect(c) \/ HeaderSent(c) \/ Leaves(c) PROVE EndsOutOfWork'
    BY <1>1, <1>2, <1>10 DEF Connect, HeaderSent, Leaves, EndsOutOfWork, OutOfWork, TypeOK
<1>. QED
    BY <1>4, <1>5, <1>6, <1>7, <1>8, <1>9, <1>10 DEF Next

LEMMA Inductive == IInv /\ [Next]_vars => IInv'
<1>1. ASSUME IInv, Next PROVE IInv'
    BY <1>1, TypesStay, HandlerTypesStay, AcceptStays, ClientsStay, EndsStay, InvAsPlacesNext DEF IInv
<1>2. ASSUME IInv, UNCHANGED vars PROVE IInv'
  <2>1. UNCHANGED <<TypeOK, HandlerTypes, EndsOutOfWork>>
    BY <1>2 DEF vars, TypeOK, HandlerTypes, EndsOutOfWork, OutOfWork
  <2>2. UNCHANGED <<AcceptPlaced, ClientsPlaced>>
    BY <1>2 DEF vars, AcceptPlaced, ClientsPlaced, AcceptPlaces, PlacesFor
  <2>. QED
    BY <1>2, <2>1, <2>2, InvAsPlaces, InvAsPlacesNext DEF IInv
<1>. QED
    BY <1>1, <1>2

(* The invariant holds: which handlers are due, and why a worker has ended. *)
THEOREM Invariance == Spec => []IInv
BY InitInv, Inductive, PTL DEF Spec

(* Every variable keeps to its values, and only threads that start() has   *)
(* created run handlers.                                                   *)
THEOREM Types == Spec => []TypeOK
BY Invariance, PTL DEF IInv

LEMMA CountedPlaces ==
    \A S : (S = {} => Cardinality(S) = 0) /\ (IsOne(S) => Cardinality(S) = 1)
BY FS_EmptySet, FS_Singleton DEF IsOne

(* Until an accept fails there is one async_accept, or one handler that    *)
(* has yet to begin the next, whatever the workers and the clients do; once *)
(* one has failed there is neither: acceptConnection does not fork its     *)
(* loop, and leaves it for that error only.                                *)
THEOREM AcceptLoop == Spec => []OneAccept
<1>1. IInv => OneAccept
  <2>. SUFFICES ASSUME IInv, phase = "running"
                PROVE LET async_accepts == IF accept = "pending" THEN 1 ELSE 0 IN
                      async_accepts + Cardinality(Places(OfAccept)) = IF accept = "failed" THEN 0 ELSE 1
    BY DEF OneAccept
  <2>. DEFINE P == Places(OfAccept)
  <2>1. IF accept = "none" THEN IsOne(P) ELSE P = {}
    BY DEF IInv, AcceptIsDue
  <2>2. accept \in {"none", "pending", "failed"}
    BY DEF IInv, TypeOK
  <2>. HIDE DEF P
  <2>3. Cardinality(P) = IF accept = "none" THEN 1 ELSE 0
    BY <2>1, CountedPlaces
  <2>. QED
    BY <2>2, <2>3 DEF P
<1>. QED
    BY <1>1, Invariance, PTL

(* A session is not guarded by a lock: from its acceptance until it        *)
(* receives it has one handler, queued or running, that reads from its     *)
(* socket or acts on what was read, although receiveMessage may run while  *)
(* start() has not returned; so no two workers ever serve one connection.  *)
THEOREM HandlersApart == Spec => []OneHandlerEach
<1>1. IInv => OneHandlerEach
  <2>. SUFFICES ASSUME IInv, NEW c \in Clients
                PROVE LET Of(h) == OfSession(h, c)
                      IN Cardinality(Places(Of)) = IF client[c] \in Unattended THEN 0 ELSE 1
    BY DEF OneHandlerEach
  <2>. DEFINE Of(h) == OfSession(h, c)
              P == Places(Of)
  <2>1. IF client[c] \in Unattended THEN P = {} ELSE IsOne(P)
    BY DEF IInv, HandlerIsDue
  <2>. HIDE DEF P
  <2>2. Cardinality(P) = IF client[c] \in Unattended THEN 0 ELSE 1
    BY <2>1, CountedPlaces
  <2>. QED
    BY <2>2 DEF P
<1>. QED
    BY <1>1, Invariance, PTL

(* A worker of a running server ends only when an accept has failed and no *)
(* session is left to be served: what run() takes for the end of its work  *)
(* is never a moment between two handlers.                                 *)
THEOREM NoneIsAbandoned == Spec => []WorkersStay
<1>1. IInv => WorkersStay
  <2>. SUFFICES ASSUME IInv, phase = "running", \E w \in workers_ : doing[w] = Exited
                PROVE accept = "failed" /\ \A c \in Clients : client[c] \in {"away", "backlog", "closed"}
    BY DEF WorkersStay
  <2>1. OutOfWork /\ HandlerTypes /\ AcceptPlaced /\ ClientsPlaced
    BY InvAsPlaces DEF IInv, EndsOutOfWork
  <2>2. \A H : H \subseteq [do : Tasks, client : Clients] => PlacesOf(ready, doing, H) = {}
    <3>1. ready = <<>> /\ \A w \in Workers : doing[w].do \notin Tasks
        BY <2>1 DEF OutOfWork
    <3>. QED
        BY <3>1, EmptySeq DEF PlacesOf
  <2>3. ~ IsOne({})
    BY DEF IsOne
  <2>4. accept = "failed"
    <3>1. AcceptPlaces = {}
        BY <2>2 DEF AcceptPlaces, AcceptHandlers, Tasks
    <3>2. accept \in {"none", "pending", "failed"} /\ accept # "pending"
        BY <2>1 DEF IInv, TypeOK, OutOfWork
    <3>. QED
        BY <2>1, <2>3, <3>1, <3>2 DEF AcceptPlaced
  <2>5. ASSUME NEW c \in Clients PROVE client[c] \in {"away", "backlog", "closed"}
    <3>1. PlacesFor(c) = {}
        BY <2>2 DEF PlacesFor, HandlersOf, Tasks
    <3>2. client[c] \in Unattended /\ client[c] # "open"
        BY <2>1, <2>3, <3>1 DEF ClientsPlaced, OutOfWork
    <3>. QED
        BY <3>2 DEF Unattended
  <2>. QED
    BY <2>4, <2>5
<1>. QED
    BY <1>1, Invariance, PTL
=============================================================================
