--------------------------- MODULE HttpSessionProofs ---------------------------
(* One HTTP connection, for any requests and any number of them.            *)
EXTENDS HttpSession, SequenceTheorems, TLAPS

(* What is in both parts, one after the other. *)
LEMMA Joined ==
    ASSUME NEW q \in Seq(Pieces), NEW r \in Seq(Pieces)
    PROVE /\ q \o r \in Seq(Pieces) /\ Len(q \o r) = Len(q) + Len(r)
          /\ Len(q) \in Nat /\ Len(r) \in Nat
          /\ \A j \in 1 .. Len(q) : (q \o r)[j] = q[j]
          /\ \A j \in 1 .. Len(r) : (q \o r)[Len(q) + j] = r[j]
BY ConcatProperties, LenProperties

LEMMA PiecesTyped ==
    \A kind \in {"line", "fields", "unit"}, k, n \in Nat : Piece(kind, k, n) \in Pieces
BY DEF Piece, Pieces

(* What messages are. *)
LEMMA MessagesAre ==
    requests \in Seq(Requests) =>
        \A k \in 1 .. Latest :
          /\ requests[k] \in Requests /\ requests[k].size \in Nat
          /\ requests[k].method # "PUT" => requests[k].size = 0
          /\ Body(k) \in Seq(Pieces) /\ Len(Body(k)) = requests[k].size
          /\ Message(k) \in Seq(Pieces) /\ Len(Message(k)) = 2 + requests[k].size
          /\ Message(k)[1] = Piece("line", k, 0) /\ Message(k)[2] = Piece("fields", k, 0)
          /\ \A n \in 1 .. requests[k].size : Message(k)[2 + n] = Piece("unit", k, n)
<1>. SUFFICES ASSUME requests \in Seq(Requests), NEW k \in 1 .. Latest
     PROVE /\ requests[k] \in Requests /\ requests[k].size \in Nat
           /\ requests[k].method # "PUT" => requests[k].size = 0
           /\ Body(k) \in Seq(Pieces) /\ Len(Body(k)) = requests[k].size
           /\ Message(k) \in Seq(Pieces) /\ Len(Message(k)) = 2 + requests[k].size
           /\ Message(k)[1] = Piece("line", k, 0) /\ Message(k)[2] = Piece("fields", k, 0)
           /\ \A n \in 1 .. requests[k].size : Message(k)[2 + n] = Piece("unit", k, n)
    OBVIOUS
<1>1. requests[k] \in Requests /\ k \in Nat
    BY ElementOfSeq, LenProperties DEF Latest
<1>2. requests[k].size \in Nat /\ (requests[k].method # "PUT" => requests[k].size = 0)
    BY <1>1, RequestsAssumption DEF Request
<1>3. \A n \in 1 .. requests[k].size : Piece("unit", k, n) \in Pieces
    BY <1>1, <1>2, PiecesTyped
<1>4. Body(k) \in [1 .. requests[k].size -> Pieces]
    BY <1>3 DEF Body
<1>5. Body(k) \in Seq(Pieces)
    BY <1>2, <1>4, SeqDef
<1>6. Len(Body(k)) = requests[k].size
    BY <1>2, <1>4, <1>5, LenProperties
<1>. DEFINE head == <<Piece("line", k, 0), Piece("fields", k, 0)>>
<1>7. head \in Seq(Pieces) /\ Len(head) = 2
    BY <1>1, PiecesTyped
<1>8. Message(k) = head \o Body(k)
    BY DEF Message
<1>9. head[1] = Piece("line", k, 0) /\ head[2] = Piece("fields", k, 0)
    OBVIOUS
<1>. HIDE DEF head
<1>10. /\ Message(k) \in Seq(Pieces) /\ Len(Message(k)) = 2 + requests[k].size
       /\ Message(k)[1] = head[1] /\ Message(k)[2] = head[2]
       /\ \A n \in 1 .. requests[k].size : Message(k)[2 + n] = Body(k)[n]
  <2>1. head \in Seq(Pieces) /\ Body(k) \in Seq(Pieces)
    BY <1>5, <1>7
  <2>2. /\ head \o Body(k) \in Seq(Pieces) /\ Len(head \o Body(k)) = Len(head) + Len(Body(k))
        /\ \A n \in 1 .. Len(head) : (head \o Body(k))[n] = head[n]
        /\ \A n \in 1 .. Len(Body(k)) : (head \o Body(k))[Len(head) + n] = Body(k)[n]
    BY <2>1, Joined
  <2>3. Len(head) = 2 /\ Len(Body(k)) = requests[k].size
    BY <1>6, <1>7
  <2>4. Message(k) \in Seq(Pieces) /\ Len(Message(k)) = 2 + requests[k].size
    BY <1>8, <2>2, <2>3
  <2>5. Message(k)[1] = head[1] /\ Message(k)[2] = head[2]
    BY <1>8, <2>2, <2>3
  <2>6. \A n \in 1 .. requests[k].size : Message(k)[2 + n] = Body(k)[n]
    BY <1>8, <2>2, <2>3
  <2>. QED
    BY <2>4, <2>5, <2>6
<1>11. \A n \in 1 .. requests[k].size : Message(k)[2 + n] = Piece("unit", k, n)
    BY <1>10 DEF Body
<1>. QED
    BY <1>1, <1>2, <1>5, <1>6, <1>9, <1>10, <1>11

LEMMA MessageIs ==
    ASSUME TypeOK, NEW k \in 1 .. Latest
    PROVE /\ requests[k] \in Requests /\ requests[k].size \in Nat
          /\ requests[k].method # "PUT" => requests[k].size = 0
          /\ Body(k) \in Seq(Pieces) /\ Len(Body(k)) = requests[k].size
          /\ Message(k) \in Seq(Pieces) /\ Len(Message(k)) = 2 + requests[k].size
          /\ Message(k)[1] = Piece("line", k, 0) /\ Message(k)[2] = Piece("fields", k, 0)
          /\ \A n \in 1 .. requests[k].size : Message(k)[2 + n] = Piece("unit", k, n)
BY MessagesAre DEF TypeOK

(* No message is without a line. *)
RequestsTyped == requests \in Seq(Requests)

MessagesBegin ==
    \A k \in 1 .. Latest : 1 \in 1 .. Len(Message(k)) /\ Message(k)[1] = Piece("line", k, 0)

LEMMA MessagesBeginNext == RequestsTyped' => MessagesBegin'
<1>1. RequestsTyped => MessagesBegin
    BY MessagesAre DEF MessagesBegin, RequestsTyped
<1>. QED
    BY <1>1, PTL

LEMMA Places ==
    \A k, n : /\ PlaceIn(Piece("line", k, n)) = 1
              /\ PlaceIn(Piece("fields", k, n)) = 2
              /\ PlaceIn(Piece("unit", k, n)) = n + 2
BY DEF PlaceIn, Piece

LEMMA PlaceTyped == \A p \in Pieces : PlaceIn(p) \in Nat \ {0}
BY DEF PlaceIn, Pieces

(* The stream is what is in input_stream_, then what is on the wire. *)
LEMMA StreamIs ==
    ASSUME TypeOK
    PROVE /\ Stream \in Seq(Pieces) /\ input_stream_ \in Seq(Pieces) /\ wire \in Seq(Pieces)
          /\ Len(input_stream_) \in Nat /\ Len(wire) \in Nat /\ Len(Stream) \in Nat
          /\ Len(Stream) = Len(input_stream_) + Len(wire)
          /\ \A j \in 1 .. Len(input_stream_) : Stream[j] = input_stream_[j]
          /\ \A j \in 1 .. Len(wire) : Stream[Len(input_stream_) + j] = wire[j]
<1>1. input_stream_ \in Seq(Pieces) /\ wire \in Seq(Pieces)
    BY DEF TypeOK
<1>. QED
    BY <1>1, Joined DEF Stream

(* The client appends to it. *)
LEMMA Sending ==
    ASSUME TypeOK, NEW p \in Pieces, wire' = Append(wire, p), input_stream_' = input_stream_
    PROVE /\ wire' \in Seq(Pieces) /\ Stream' \in Seq(Pieces)
          /\ Len(Stream') = Len(Stream) + 1
          /\ \A j \in 1 .. Len(Stream) : Stream'[j] = Stream[j]
          /\ Stream'[Len(Stream) + 1] = p
<1>1. wire \in Seq(Pieces) /\ input_stream_ \in Seq(Pieces) /\ Stream \in Seq(Pieces)
    BY StreamIs
<1>2. wire' \in Seq(Pieces)
    BY <1>1, AppendProperties
<1>3. input_stream_ \o Append(wire, p) = Append(input_stream_ \o wire, p)
    BY <1>1, Joined, AppendIsConcat, ConcatAssociative
<1>4. Stream' = Append(Stream, p)
    BY <1>3 DEF Stream
<1>. QED
    BY <1>1, <1>2, <1>4, AppendProperties

(* The first n pieces, and the rest. *)
LEMMA Cut ==
    ASSUME NEW q \in Seq(Pieces), NEW n \in 0 .. Len(q)
    PROVE /\ SubSeq(q, 1, n) \in Seq(Pieces) /\ Len(SubSeq(q, 1, n)) = n
          /\ \A j \in 1 .. n : SubSeq(q, 1, n)[j] = q[j]
          /\ SubSeq(q, n + 1, Len(q)) \in Seq(Pieces)
          /\ Len(SubSeq(q, n + 1, Len(q))) = Len(q) - n
          /\ \A j \in 1 .. Len(q) - n : SubSeq(q, n + 1, Len(q))[j] = q[n + j]
<1>1. Len(q) \in Nat /\ \A i \in 1 .. Len(q) : q[i] \in Pieces
    BY LenProperties, ElementOfSeq
<1>2. /\ SubSeq(q, 1, n) \in Seq(Pieces) /\ Len(SubSeq(q, 1, n)) = n
      /\ \A j \in 1 .. n : SubSeq(q, 1, n)[j] = q[j]
    BY <1>1, SubSeqProperties
<1>3. /\ SubSeq(q, n + 1, Len(q)) \in Seq(Pieces)
      /\ Len(SubSeq(q, n + 1, Len(q))) = Len(q) - n
      /\ \A j \in 1 .. Len(q) - n : SubSeq(q, n + 1, Len(q))[j] = q[n + j]
    BY <1>1, SubSeqProperties
<1>. QED
    BY <1>2, <1>3

(* What is received moves within the stream. *)
LEMMA Receiving ==
    ASSUME TypeOK, Receive
    PROVE /\ input_stream_' \in Seq(Pieces) /\ wire' \in Seq(Pieces)
          /\ Stream' = Stream
<1>1. PICK n \in 1 .. Len(wire) : /\ input_stream_' = input_stream_ \o SubSeq(wire, 1, n)
                                  /\ wire' = SubSeq(wire, n + 1, Len(wire))
    BY DEF Receive
<1>2. wire \in Seq(Pieces) /\ input_stream_ \in Seq(Pieces) /\ Len(wire) \in Nat
    BY LenProperties DEF TypeOK
<1>3. SubSeq(wire, 1, n) \in Seq(Pieces) /\ wire' \in Seq(Pieces)
    BY <1>1, <1>2, Cut
<1>4. SubSeq(wire, 1, n) \o wire' = wire
    BY <1>1, <1>2, ConcatAdjacentSubSeq, SubSeqFull
<1>. DEFINE part == SubSeq(wire, 1, n)
<1>. HIDE DEF part
<1>5. (input_stream_ \o part) \o wire' = input_stream_ \o (part \o wire')
    BY <1>2, <1>3, ConcatAssociative DEF part
<1>6. Stream' = Stream
    BY <1>1, <1>4, <1>5 DEF Stream, part
<1>. QED
    BY <1>1, <1>2, <1>3, <1>6, ConcatProperties

(* A handler takes the first e pieces. *)
LEMMA Taking ==
    ASSUME TypeOK, NEW e \in 1 .. Len(input_stream_), Take(e), wire' = wire
    PROVE /\ input_stream_' \in Seq(Pieces) /\ Stream' \in Seq(Pieces)
          /\ Len(Stream') \in Nat /\ Len(Stream) = e + Len(Stream')
          /\ \A j \in 1 .. Len(Stream') : Stream'[j] = Stream[e + j]
<1>. DEFINE part == SubSeq(input_stream_, 1, e)
<1>1. wire \in Seq(Pieces) /\ input_stream_ \in Seq(Pieces) /\ Len(input_stream_) \in Nat
    BY StreamIs
<1>2. part \in Seq(Pieces) /\ Len(part) = e /\ input_stream_' \in Seq(Pieces)
    BY <1>1, Cut DEF Take
<1>3. part \o input_stream_' = input_stream_
    BY <1>1, ConcatAdjacentSubSeq, SubSeqFull DEF Take
<1>. HIDE DEF part
<1>4. (part \o input_stream_') \o wire = part \o (input_stream_' \o wire)
  <2>1. part \in Seq(Pieces) /\ input_stream_' \in Seq(Pieces) /\ wire \in Seq(Pieces)
    BY <1>1, <1>2
  <2>. QED
    BY <2>1, ConcatAssociative
<1>5. Stream = part \o Stream'
    BY <1>3, <1>4 DEF Stream
<1>6. Stream' \in Seq(Pieces)
    BY <1>1, <1>2, Joined DEF Stream
<1>. QED
    BY <1>2, <1>5, <1>6, Joined

(* The read of a body takes pieces behind those in input_stream_. *)
LEMMA Reading ==
    ASSUME TypeOK, NEW n \in 1 .. Len(wire), wire' = SubSeq(wire, n + 1, Len(wire)),
           input_stream_' = input_stream_
    PROVE /\ wire' \in Seq(Pieces) /\ Stream' \in Seq(Pieces)
          /\ Len(wire') \in Nat /\ Len(Stream') = Len(input_stream_) + Len(wire')
          /\ Len(Stream) = Len(Stream') + n
          /\ \A j \in 1 .. Len(input_stream_) : Stream'[j] = Stream[j]
          /\ \A j \in 1 .. Len(wire') :
                Stream'[Len(input_stream_) + j] = Stream[Len(input_stream_) + (n + j)]
<1>1. wire \in Seq(Pieces) /\ input_stream_ \in Seq(Pieces)
      /\ Len(wire) \in Nat /\ Len(input_stream_) \in Nat
    BY StreamIs
<1>2. /\ wire' \in Seq(Pieces) /\ Len(wire') = Len(wire) - n
      /\ \A j \in 1 .. Len(wire) - n : wire'[j] = wire[n + j]
    BY <1>1, Cut
<1>. DEFINE now == Stream'
<1>3. now = input_stream_ \o wire'
    BY DEF Stream
<1>. HIDE DEF now
<1>4. /\ now \in Seq(Pieces) /\ Len(now) = Len(input_stream_) + Len(wire')
      /\ \A j \in 1 .. Len(input_stream_) : now[j] = input_stream_[j]
      /\ \A j \in 1 .. Len(wire') : now[Len(input_stream_) + j] = wire'[j]
    BY <1>1, <1>2, <1>3, Joined
<1>5. \A j \in 1 .. Len(wire') : n + j \in 1 .. Len(wire)
    BY <1>1, <1>2
<1>. QED
  <2>1. \A j \in 1 .. Len(input_stream_) : now[j] = Stream[j]
    BY <1>4, StreamIs
  <2>2. \A j \in 1 .. Len(wire') : now[Len(input_stream_) + j] = Stream[Len(input_stream_) + (n + j)]
    BY <1>2, <1>4, <1>5, StreamIs
  <2>3. Len(Stream) = Len(now) + n
    BY <1>1, <1>2, <1>4, StreamIs
  <2>4. now = Stream'
    BY DEF now
  <2>5. Len(wire') \in Nat
    BY <1>1, <1>2
  <2>. QED
    BY <1>2, <1>4, <2>1, <2>2, <2>3, <2>4, <2>5

-------------------------------------------------------------------------------
(* Any client: the parts of AnyClient, and what keeps them.                *)
VarsTyped ==
    /\ requests \in Seq(Requests) /\ pieces \in Nat
    /\ requests # <<>> => pieces \in 1 .. Len(Message(Latest))
    /\ gone \in BOOLEAN /\ pc \in States
    /\ input_stream_ \in Seq(Pieces) /\ wire \in Seq(Pieces)
    /\ request \in Seq(Pieces) /\ file \in Seq(Pieces)
    /\ replies \in Seq([id : Nat, code : Nat])
    /\ \A j \in 1 .. Len(replies) : replies[j].id \in 1 .. Latest

Sorted == \A i, j \in 1 .. Len(Stream) : i < j => Before(Stream[i], Stream[j])

Arrived == \A j \in 1 .. Len(Stream) : WasSent(Stream[j])

Handled ==
    /\ pc \in {"header", "body"} => request # <<>> /\ Current \in 1 .. Latest
    /\ pc = "body" => This.method = "PUT" /\ (Authenticate => Verified)

FilesTyped == fs \in [DOMAIN fs -> Seq(Pieces)]

LEMMA TypeOKIs == TypeOK <=> VarsTyped /\ FilesTyped /\ Sorted
BY DEF TypeOK, VarsTyped, FilesTyped, Sorted

ButFiles == VarsTyped /\ Sorted /\ Arrived /\ Handled

LEMMA AnyClientIs == AnyClient <=> ButFiles /\ FilesTyped
BY TypeOKIs DEF AnyClient, ButFiles, Arrived, Handled

LEMMA AnyClientNext == AnyClient' <=> ButFiles' /\ FilesTyped'
BY AnyClientIs, PTL

LEMMA LatestIs ==
    TypeOK => Latest \in Nat /\ (requests = <<>> <=> Latest = 0)
BY LenProperties, EmptySeq DEF TypeOK, Latest

(* The piece that was sent last. *)
LEMMA LastSent ==
    ASSUME TypeOK, Latest # 0
    PROVE LET last == Message(Latest)[pieces]
              size == requests[Latest].size
          IN /\ Latest \in 1 .. Latest /\ size \in Nat /\ Len(Message(Latest)) = 2 + size
             /\ \/ pieces = 1 /\ last = Piece("line", Latest, 0)
                \/ pieces = 2 /\ last = Piece("fields", Latest, 0)
                \/ pieces > 2 /\ pieces - 2 \in 1 .. size /\ last = Piece("unit", Latest, pieces - 2)
<1>. DEFINE size == requests[Latest].size
<1>1. Latest \in 1 .. Latest /\ pieces \in 1 .. Len(Message(Latest))
    BY LatestIs DEF TypeOK
<1>2. /\ Message(Latest)[1] = Piece("line", Latest, 0) /\ Message(Latest)[2] = Piece("fields", Latest, 0)
      /\ Len(Message(Latest)) = 2 + size /\ size \in Nat
      /\ \A n \in 1 .. size : Message(Latest)[2 + n] = Piece("unit", Latest, n)
    BY <1>1, MessageIs
<1>. HIDE DEF size
<1>3. pieces \in 1 .. 2 + size /\ size \in Nat
    BY <1>1, <1>2
<1>4. ASSUME pieces > 2
      PROVE pieces - 2 \in 1 .. size /\ 2 + (pieces - 2) = pieces
    BY <1>3, <1>4
<1>5. pieces \in {1, 2} \/ pieces > 2
    BY <1>3
<1>. QED
    BY <1>1, <1>2, <1>4, <1>5 DEF size

(* A reply to a request. *)
LEMMA Replying ==
    ASSUME TypeOK, NEW k \in 1 .. Latest, NEW code \in Nat, Reply(k, code)
    PROVE /\ replies' \in Seq([id : Nat, code : Nat])
          /\ Len(replies) \in Nat /\ Len(replies') = Len(replies) + 1
          /\ \A j \in 1 .. Len(replies) : replies'[j] = replies[j]
          /\ replies'[Len(replies) + 1] = [id |-> k, code |-> code]
          /\ \A j \in 1 .. Len(replies') : replies'[j].id \in 1 .. Latest
<1>1. [id |-> k, code |-> code] \in [id : Nat, code : Nat]
    BY LatestIs
<1>. DEFINE reply == [id |-> k, code |-> code]
            S == [id : Nat, code : Nat]
<1>2. reply \in S /\ replies \in Seq(S) /\ replies' = Append(replies, reply) /\ reply.id = k
    BY <1>1 DEF TypeOK, Reply
<1>3. \A j \in 1 .. Len(replies) : replies[j].id \in 1 .. Latest
    BY DEF TypeOK
<1>. HIDE DEF reply, S
<1>4. /\ replies' \in Seq(S) /\ Len(replies) \in Nat /\ Len(replies') = Len(replies) + 1
      /\ \A j \in 1 .. Len(replies) : replies'[j] = replies[j]
      /\ replies'[Len(replies) + 1] = reply
    BY <1>2, AppendProperties, LenProperties
<1>5. \A j \in 1 .. Len(replies') : replies'[j].id \in 1 .. Latest
    BY <1>2, <1>3, <1>4
<1>. QED
    BY <1>4, <1>5 DEF reply, S

(* What has come stays in order when the session takes the first of it, or *)
(* some of it.                                                             *)
LEMMA OrderStays ==
    ASSUME TypeOK, Arrived, UNCHANGED <<requests, pieces>>,
           \/ UNCHANGED <<input_stream_, wire>>
           \/ Receive
           \/ wire' = wire /\ \E e \in 1 .. Len(input_stream_) : Take(e)
           \/ /\ input_stream_' = input_stream_
              /\ \E n \in 1 .. Len(wire) : wire' = SubSeq(wire, n + 1, Len(wire))
    PROVE input_stream_' \in Seq(Pieces) /\ wire' \in Seq(Pieces) /\ Sorted' /\ Arrived'
<1>1. /\ Sorted /\ input_stream_ \in Seq(Pieces) /\ wire \in Seq(Pieces)
      /\ Len(input_stream_) \in Nat /\ Len(wire) \in Nat /\ Len(Stream) \in Nat
    BY TypeOKIs, StreamIs
<1>2. ASSUME Stream' = Stream PROVE Sorted' /\ Arrived'
    BY <1>1, <1>2 DEF Sorted, Arrived, WasSent, Latest
<1>3. CASE UNCHANGED <<input_stream_, wire>>
    BY <1>1, <1>2, <1>3 DEF Stream
<1>4. CASE Receive
    BY <1>2, <1>4, Receiving
<1>5. CASE wire' = wire /\ \E e \in 1 .. Len(input_stream_) : Take(e)
  <2>. PICK e \in 1 .. Len(input_stream_) : Take(e)
    BY <1>5
  <2>1. /\ input_stream_' \in Seq(Pieces) /\ Len(Stream') \in Nat /\ Len(Stream) = e + Len(Stream')
        /\ \A j \in 1 .. Len(Stream') : Stream'[j] = Stream[e + j]
    BY <1>5, Taking
  <2>2. \A j \in 1 .. Len(Stream') : e + j \in 1 .. Len(Stream)
    BY <1>1, <2>1
  <2>3. Sorted'
    <3>. SUFFICES ASSUME NEW i \in 1 .. Len(Stream'), NEW j \in 1 .. Len(Stream'), i < j
                  PROVE Before(Stream'[i], Stream'[j])
        BY DEF Sorted
    <3>1. e + i < e + j /\ Stream'[i] = Stream[e + i] /\ Stream'[j] = Stream[e + j]
        BY <2>1
    <3>. QED
        BY <1>1, <2>2, <3>1 DEF Sorted
  <2>4. Arrived'
    BY <1>1, <2>1, <2>2 DEF Arrived, WasSent, Latest
  <2>. QED
    BY <1>1, <1>5, <2>1, <2>3, <2>4
<1>6. CASE /\ input_stream_' = input_stream_
           /\ \E n \in 1 .. Len(wire) : wire' = SubSeq(wire, n + 1, Len(wire))
  <2>. PICK n \in 1 .. Len(wire) : wire' = SubSeq(wire, n + 1, Len(wire))
    BY <1>6
  <2>. DEFINE m == Len(input_stream_)
              From(j) == IF j <= m THEN j ELSE n + j
  <2>1. /\ wire' \in Seq(Pieces) /\ Len(wire') \in Nat /\ Len(Stream') = m + Len(wire')
        /\ Len(Stream) = Len(Stream') + n
        /\ \A j \in 1 .. m : Stream'[j] = Stream[j]
        /\ \A j \in 1 .. Len(wire') : Stream'[m + j] = Stream[m + (n + j)]
    BY <1>6, Reading
  <2>2. ASSUME NEW j \in 1 .. Len(Stream')
        PROVE From(j) \in 1 .. Len(Stream) /\ Stream'[j] = Stream[From(j)]
    <3>1. CASE j <= m
        BY <1>1, <2>1, <3>1
    <3>2. CASE ~(j <= m)
      <4>1. j - m \in 1 .. Len(wire') /\ m + (j - m) = j /\ m + (n + (j - m)) = n + j
        BY <1>1, <2>1, <3>2
      <4>2. Stream'[m + (j - m)] = Stream[m + (n + (j - m))]
        BY <2>1, <4>1
      <4>3. From(j) = n + j /\ n + j \in 1 .. Len(Stream)
        BY <1>1, <2>1, <3>2
      <4>. QED
        BY <4>1, <4>2, <4>3
    <3>. QED
        BY <3>1, <3>2
  <2>3. \A i, j \in 1 .. Len(Stream') : i < j => From(i) < From(j)
    BY <1>1, <2>1
  <2>. HIDE DEF From
  <2>4. Sorted'
    BY <1>1, <2>2, <2>3 DEF Sorted
  <2>5. Arrived'
    BY <2>2 DEF Arrived, WasSent, Latest
  <2>. QED
    BY <1>1, <1>6, <2>1, <2>4, <2>5
<1>. QED
    BY <1>3, <1>4, <1>5, <1>6

(* The client's next piece. *)
LEMMA OrderGrows ==
    ASSUME TypeOK, Arrived, NEW p \in Pieces, input_stream_' = input_stream_, wire' = Append(wire, p),
           Latest' \in Nat \ {0}, Latest <= Latest', p.id = Latest', pieces' = PlaceIn(p),
           Latest' = Latest => pieces < pieces'
    PROVE Sorted' /\ Arrived'
<1>1. /\ Sorted /\ Latest \in Nat /\ pieces \in Nat
      /\ Stream \in Seq(Pieces) /\ Len(Stream) \in Nat
    BY TypeOKIs, StreamIs, LatestIs DEF TypeOK
<1>2. /\ Len(Stream') = Len(Stream) + 1
      /\ \A j \in 1 .. Len(Stream) : Stream'[j] = Stream[j]
      /\ Stream'[Len(Stream) + 1] = p
    BY Sending
<1>3. ASSUME NEW j \in 1 .. Len(Stream)
      PROVE /\ Before(Stream[j], p) /\ Stream[j].id \in 1 .. Latest'
            /\ Stream[j].id = Latest' => PlaceIn(Stream[j]) <= pieces'
  <2>1. Stream[j] \in Pieces /\ WasSent(Stream[j])
    BY <1>1, ElementOfSeq DEF Arrived
  <2>2. PlaceIn(Stream[j]) \in Nat /\ PlaceIn(p) \in Nat /\ Stream[j].id \in Nat /\ p.id \in Nat
    BY <2>1, PlaceTyped DEF Pieces
  <2>. QED
    BY <1>1, <2>1, <2>2 DEF WasSent, Before
<1>4. PlaceIn(p) \in Nat
    BY PlaceTyped
<1>5. Sorted'
  <2>. SUFFICES ASSUME NEW i \in 1 .. Len(Stream'), NEW j \in 1 .. Len(Stream'), i < j
                PROVE Before(Stream'[i], Stream'[j])
    BY DEF Sorted
  <2>1. CASE j = Len(Stream) + 1
    BY <1>1, <1>2, <1>3, <2>1
  <2>2. CASE j # Len(Stream) + 1
    BY <1>1, <1>2, <2>2 DEF Sorted
  <2>. QED
    BY <2>1, <2>2
<1>6. Arrived'
    BY <1>1, <1>2, <1>3, <1>4 DEF Arrived, WasSent
<1>. QED
    BY <1>5, <1>6

(* What a handler of the session may do, whichever it is. *)
Replied == replies' = replies \/ \E k \in 1 .. Latest, code \in Nat : Reply(k, code)

Took == input_stream_' = input_stream_ \/ \E e \in 1 .. Len(input_stream_) : Take(e)

LEMMA TakingOne ==
    ASSUME TypeOK, Arrived, NEW e \in 1 .. Len(input_stream_)
    PROVE /\ input_stream_[e] = Stream[e] /\ e \in 1 .. Len(Stream)
          /\ input_stream_[e] \in Pieces /\ input_stream_[e].id \in 1 .. Latest
<1>1. e \in 1 .. Len(Stream) /\ Stream[e] = input_stream_[e] /\ input_stream_ \in Seq(Pieces)
    BY StreamIs
<1>2. WasSent(Stream[e])
    BY <1>1 DEF Arrived
<1>. QED
    BY <1>1, <1>2, ElementOfSeq DEF WasSent

LEMMA SessionDoes ==
    ASSUME AnyClient, Session
    PROVE /\ UNCHANGED <<requests, pieces, gone, wire>>
          /\ Took /\ Replied
          /\ pc' \in States /\ request' \in Seq(Pieces) /\ file' \in Seq(Pieces)
          /\ Handled'
<1>. DEFINE Result == /\ UNCHANGED <<requests, pieces, gone, wire>>
                      /\ Took /\ Replied
                      /\ pc' \in States /\ request' \in Seq(Pieces) /\ file' \in Seq(Pieces)
                      /\ Handled'
<1>1. TypeOK /\ VarsTyped /\ Arrived /\ Handled
    BY AnyClientIs, TypeOKIs DEF ButFiles
<1>2. /\ pc \in States /\ request \in Seq(Pieces) /\ file \in Seq(Pieces)
    BY <1>1 DEF VarsTyped
<1>3. pc \in {"header", "body"} => Current \in 1 .. Latest
    BY <1>1 DEF Handled
<1>4. ASSUME ReceiveMessage PROVE Result
  <2>. PICK e \in 1 .. Len(input_stream_) :
          /\ Take(e)
          /\ \/ request' = SubSeq(input_stream_, 1, e) /\ pc' = "header" /\ UNCHANGED replies
             \/ Reply(input_stream_[e].id, 500) /\ pc' = "terminated" /\ UNCHANGED request
    BY <1>4 DEF ReceiveMessage
  <2>1. input_stream_[e].id \in 1 .. Latest /\ input_stream_ \in Seq(Pieces) /\ Len(input_stream_) \in Nat
    BY <1>1, TakingOne, StreamIs
  <2>2. UNCHANGED <<requests, pieces, gone, wire, file>>
    BY <1>4 DEF ReceiveMessage, client
  <2>3. CASE request' = SubSeq(input_stream_, 1, e) /\ pc' = "header" /\ UNCHANGED replies
    <3>1. request' \in Seq(Pieces) /\ Len(request') = e /\ request'[e] = input_stream_[e]
        BY <2>1, <2>3, Cut
    <3>2. request' # <<>>
        BY <3>1, EmptySeq
    <3>3. Handled'
        BY <2>1, <2>2, <2>3, <3>1, <3>2 DEF Handled, Current, Latest
    <3>. QED
        BY <1>2, <2>2, <2>3, <3>1, <3>3 DEF Took, Replied, States
  <2>4. CASE Reply(input_stream_[e].id, 500) /\ pc' = "terminated" /\ UNCHANGED request
    BY <1>2, <2>1, <2>2, <2>4 DEF Took, Replied, States, Handled
  <2>. QED
    BY <2>3, <2>4
<1>5. ASSUME HeaderFails PROVE Result
    BY <1>2, <1>5 DEF HeaderFails, client, Took, Replied, States, Handled
<1>6. ASSUME NEW valid \in BOOLEAN, handleHttp(valid)
      PROVE pc = "header" /\ UNCHANGED <<requests, pieces, gone, wire, request>> /\ Took
    BY <1>6 DEF handleHttp, client, Took
<1>7. \A code \in Nat : Current \in 1 .. Latest /\ Reply(Current, code) => Replied
    BY DEF Replied
<1>8. ASSUME BadRequest \/ FieldFaults \/ Unauthorized \/ AuthFaults \/ Get \/ Delete \/ PutFaults PROVE Result
  <2>1. \E valid \in BOOLEAN : handleHttp(valid)
    BY <1>8 DEF BadRequest, FieldFaults, Unauthorized, AuthFaults, Get, Delete, PutFaults, Admitted
  <2>2. pc = "header" /\ UNCHANGED <<requests, pieces, gone, wire, request>> /\ Took
    BY <1>6, <2>1
  <2>3. pc' \in {"line", "ended", "terminated"} /\ file' = file
    BY <1>8 DEF BadRequest, FieldFaults, Unauthorized, AuthFaults, Get, Delete, PutFaults
  <2>4. replies' = replies \/ \E code \in Nat : Reply(Current, code)
    <3>1. CASE BadRequest \/ FieldFaults \/ Unauthorized \/ AuthFaults \/ PutFaults
      <4>1. 100 \in Nat /\ 400 \in Nat /\ 401 \in Nat
        OBVIOUS
      <4>2. replies' = replies \/ Reply(Current, 100) \/ Reply(Current, 400) \/ Reply(Current, 401)
        BY <3>1 DEF BadRequest, FieldFaults, Unauthorized, AuthFaults, PutFaults
      <4>. QED
        BY <4>1, <4>2
    <3>2. CASE Get
      <4>. DEFINE code == IF This.uri = "/" \/ This.uri \in DOMAIN fs THEN 200 ELSE 404
      <4>1. code \in Nat /\ Reply(Current, code)
        BY <3>2 DEF Get
      <4>. QED
        BY <4>1
    <3>3. CASE Delete
      <4>. DEFINE code == IF This.uri \in DOMAIN fs THEN 200 ELSE 404
      <4>1. code \in Nat /\ Reply(Current, code)
        BY <3>3 DEF Delete
      <4>. QED
        BY <4>1
    <3>. QED
        BY <1>8, <3>1, <3>2, <3>3
  <2>5. Replied
    BY <1>3, <1>7, <2>2, <2>4 DEF Replied
  <2>. QED
    BY <1>2, <2>2, <2>3, <2>5 DEF States, Handled
<1>9. ASSUME Put PROVE Result
  <2>1. /\ pc = "header" /\ UNCHANGED <<requests, pieces, gone, wire, request>> /\ Took
        /\ This.method = "PUT" /\ (Authenticate => Verified) /\ pc' = "body" /\ file' = <<>>
        /\ Replied
    BY <1>3, <1>6, <1>9 DEF Put, Admitted, Replied
  <2>2. Handled'
    BY <1>1, <2>1 DEF Handled, Current, This, Verified, Latest
  <2>. QED
    BY <1>2, <2>1, <2>2, EmptySeq DEF States
<1>10. ASSUME PutDone \/ PutFails PROVE Result
    BY <1>2, <1>3, <1>10 DEF PutDone, PutFails, client, Took, Replied, States, Handled
<1>. QED
    BY <1>4, <1>5, <1>8, <1>9, <1>10 DEF Session

LEMMA SessionKeeps ==
    ASSUME AnyClient, Session
    PROVE ButFiles'
<1>1. TypeOK /\ VarsTyped /\ Arrived
    BY AnyClientIs, TypeOKIs DEF ButFiles
<1>2. /\ UNCHANGED <<requests, pieces, gone, wire>>
      /\ Took /\ Replied
      /\ pc' \in States /\ request' \in Seq(Pieces) /\ file' \in Seq(Pieces)
      /\ Handled'
    BY SessionDoes
<1>3. input_stream_' \in Seq(Pieces) /\ Sorted' /\ Arrived'
    BY <1>1, <1>2, OrderStays DEF Took
<1>4. /\ replies' \in Seq([id : Nat, code : Nat])
      /\ \A j \in 1 .. Len(replies') : replies'[j].id \in 1 .. Latest
    BY <1>1, <1>2, Replying DEF Replied, VarsTyped
<1>5. VarsTyped'
    BY <1>1, <1>2, <1>3, <1>4 DEF VarsTyped, Latest, Message, Body
<1>. QED
    BY <1>2, <1>3, <1>5 DEF ButFiles

LEMMA ReadingKeeps ==
    ASSUME AnyClient, Receive \/ ReadBody
    PROVE ButFiles'
<1>1. TypeOK /\ VarsTyped /\ Arrived /\ Handled
    BY AnyClientIs, TypeOKIs DEF ButFiles
<1>2. /\ UNCHANGED <<requests, pieces, gone, pc, request, replies>>
    BY DEF Receive, ReadBody, client
<1>3. input_stream_' \in Seq(Pieces) /\ wire' \in Seq(Pieces) /\ Sorted' /\ Arrived'
  <2>1. CASE Receive
    BY <1>1, <1>2, <2>1, OrderStays
  <2>2. CASE ReadBody
    <3>1. /\ input_stream_' = input_stream_
          /\ \E n \in 1 .. Len(wire) : wire' = SubSeq(wire, n + 1, Len(wire))
        BY <2>2 DEF ReadBody
    <3>. QED
        BY <1>1, <1>2, <3>1, OrderStays
  <2>. QED
    BY <2>1, <2>2
<1>4. file' \in Seq(Pieces)
  <2>1. CASE Receive
    BY <1>1, <2>1 DEF Receive, VarsTyped
  <2>2. CASE ReadBody
    <3>1. PICK n \in 1 .. Len(wire) : file' = file \o SubSeq(wire, 1, n)
        BY <2>2 DEF ReadBody
    <3>2. wire \in Seq(Pieces) /\ Len(wire) \in Nat /\ file \in Seq(Pieces)
        BY <1>1, StreamIs DEF VarsTyped
    <3>3. SubSeq(wire, 1, n) \in Seq(Pieces)
        BY <3>2, Cut
    <3>. QED
        BY <3>1, <3>2, <3>3, Joined
  <2>. QED
    BY <2>1, <2>2
<1>5. VarsTyped'
    BY <1>1, <1>2, <1>3, <1>4 DEF VarsTyped, Latest, Message, Body
<1>6. Handled'
    BY <1>1, <1>2 DEF Handled, Current, This, Verified, Latest
<1>. QED
    BY <1>3, <1>5, <1>6 DEF ButFiles

LEMMA SentIs ==
    ASSUME TypeOK, Latest # 0
    PROVE Sent <=> pieces = Len(Message(Latest))
BY LatestIs DEF Sent

LEMMA ClientKeeps ==
    ASSUME AnyClient, ClientSends \/ ClientLeaves \/ \E r \in Requests : ClientRequests(r)
    PROVE ButFiles'
<1>1. TypeOK /\ VarsTyped /\ Sorted /\ Arrived /\ Handled /\ Latest \in Nat
    BY AnyClientIs, TypeOKIs, LatestIs DEF ButFiles
<1>2. CASE ClientLeaves
  <2>1. UNCHANGED <<requests, pieces, wire, input_stream_, pc, request, file, replies>> /\ gone' = TRUE
    BY <1>2 DEF ClientLeaves
  <2>2. VarsTyped' /\ Handled'
    BY <1>1, <2>1 DEF VarsTyped, Latest, Message, Body, Handled, Current, This, Verified
  <2>3. Sorted' /\ Arrived'
    BY <1>1, <2>1, OrderStays
  <2>. QED
    BY <2>2, <2>3 DEF ButFiles
<1>3. CASE ClientSends
  <2>1. /\ UNCHANGED <<requests, gone, input_stream_, pc, request, file, replies>>
        /\ pieces' = pieces + 1 /\ wire' = Append(wire, Message(Latest)[pieces + 1]) /\ ~Sent
    BY <1>3 DEF ClientSends
  <2>. DEFINE p == Message(Latest)[pieces + 1]
  <2>2. requests # <<>> /\ Latest \in 1 .. Latest /\ pieces \in 1 .. Len(Message(Latest)) - 1
    BY <1>1, <2>1, LatestIs DEF Sent, VarsTyped
  <2>3. p \in Pieces /\ p.id = Latest /\ PlaceIn(p) = pieces + 1
    <3>1. /\ requests[Latest].size \in Nat /\ Len(Message(Latest)) = 2 + requests[Latest].size
          /\ Message(Latest)[2] = Piece("fields", Latest, 0)
          /\ \A n \in 1 .. requests[Latest].size : Message(Latest)[2 + n] = Piece("unit", Latest, n)
        BY <1>1, <2>2, MessageIs
    <3>2. CASE pieces = 1
      <4>1. p = Piece("fields", Latest, 0)
        BY <3>1, <3>2
      <4>. QED
        BY <1>1, <3>2, <4>1, PiecesTyped, Places DEF Piece
    <3>3. CASE pieces # 1
      <4>1. pieces - 1 \in 1 .. requests[Latest].size /\ 2 + (pieces - 1) = pieces + 1
        BY <2>2, <3>1, <3>3
      <4>2. p = Piece("unit", Latest, pieces - 1)
        BY <3>1, <4>1
      <4>3. pieces - 1 \in Nat /\ (pieces - 1) + 2 = pieces + 1
        BY <4>1
      <4>. QED
        BY <1>1, <4>2, <4>3, PiecesTyped, Places DEF Piece
    <3>. QED
        BY <3>2, <3>3
  <2>4. Latest' = Latest
    BY <2>1 DEF Latest
  <2>. HIDE DEF p
  <2>5. Sorted' /\ Arrived' /\ wire' \in Seq(Pieces)
    <3>1. wire' = Append(wire, p)
        BY <2>1 DEF p
    <3>2. pieces \in Nat /\ pieces < pieces + 1
        BY <1>1 DEF VarsTyped
    <3>. QED
        BY <1>1, <2>1, <2>2, <2>3, <2>4, <3>1, <3>2, OrderGrows, Sending
  <2>6. requests' # <<>> => pieces' \in 1 .. Len(Message(Latest)')
    <3>1. Message(Latest)' = Message(Latest)
        BY <2>1 DEF Message, Body, Latest
    <3>2. Len(Message(Latest)) \in Nat
        BY <1>1, <2>2, MessageIs, LenProperties
    <3>. QED
        BY <2>1, <2>2, <3>1, <3>2
  <2>7. VarsTyped'
    BY <1>1, <2>1, <2>2, <2>4, <2>5, <2>6 DEF VarsTyped
  <2>8. Handled'
    BY <1>1, <2>1 DEF Handled, Current, This, Verified, Latest
  <2>. QED
    BY <2>5, <2>7, <2>8 DEF ButFiles
<1>4. ASSUME NEW r \in Requests, ClientRequests(r) PROVE ButFiles'
  <2>1. /\ UNCHANGED <<gone, input_stream_, pc, request, file, replies>>
        /\ requests' = Append(requests, r) /\ pieces' = 1
        /\ wire' = Append(wire, Piece("line", Latest + 1, 0))
    BY <1>4 DEF ClientRequests
  <2>2. /\ requests' \in Seq(Requests) /\ requests' # <<>> /\ Latest' = Latest + 1
        /\ \A k \in 1 .. Latest : requests'[k] = requests[k]
    BY <1>1, <2>1, AppendProperties DEF VarsTyped, Latest
  <2>. DEFINE p == Piece("line", Latest + 1, 0)
  <2>3. p \in Pieces /\ p.id = Latest + 1 /\ PlaceIn(p) = 1
    BY <1>1, PiecesTyped, Places DEF Piece
  <2>. HIDE DEF p
  <2>4. wire' = Append(wire, p)
    BY <2>1 DEF p
  <2>5. Sorted' /\ Arrived' /\ wire' \in Seq(Pieces)
    BY <1>1, <2>1, <2>2, <2>3, <2>4, OrderGrows, Sending
  <2>6. pieces' \in 1 .. Len(Message(Latest)')
    <3>1. Latest' \in 1 .. Latest'
        BY <1>1, <2>2
    <3>2. MessagesBegin'
        BY <2>2, MessagesBeginNext DEF RequestsTyped
    <3>. QED
        BY <2>1, <3>1, <3>2 DEF MessagesBegin
  <2>7. VarsTyped'
    <3>1. \A j \in 1 .. Len(replies) : replies[j].id \in 1 .. Latest'
      <4>1. \A k \in 1 .. Latest : k \in 1 .. Latest'
        BY <1>1, <2>2
      <4>. QED
        BY <1>1, <4>1 DEF VarsTyped
    <3>2. pieces' \in Nat
        BY <2>1
    <3>. QED
        BY <1>1, <2>1, <2>2, <2>5, <2>6, <3>1, <3>2 DEF VarsTyped
  <2>8. Handled'
    <3>1. Current' = Current
        BY <2>1 DEF Current
    <3>2. Current \in 1 .. Latest => Current' \in 1 .. Latest' /\ This' = This
        BY <1>1, <2>2, <3>1 DEF This
    <3>. QED
        BY <1>1, <2>1, <3>2 DEF Handled, Verified
  <2>. QED
    BY <2>5, <2>7, <2>8 DEF ButFiles
<1>. QED
    BY <1>2, <1>3, <1>4

LEMMA InitAnyClient == Init => AnyClient
<1>. SUFFICES ASSUME Init PROVE AnyClient
    OBVIOUS
<1>1. Stream = <<>> /\ Len(Stream) = 0
    BY EmptySeq, ConcatEmptySeq DEF Init, Stream
<1>2. VarsTyped
  <2>1. /\ <<>> \in Seq(Requests) /\ <<>> \in Seq(Pieces) /\ <<>> \in Seq([id : Nat, code : Nat])
        /\ Len(replies) = 0
    BY EmptySeq DEF Init
  <2>2. \A j \in 1 .. Len(replies) : replies[j].id \in 1 .. Latest
    BY <2>1
  <2>. QED
    BY <2>1, <2>2 DEF Init, VarsTyped, States
<1>3. Sorted /\ Arrived /\ Handled /\ FilesTyped
    BY <1>1 DEF Init, Sorted, Arrived, Handled, FilesTyped
<1>. QED
    BY <1>2, <1>3, AnyClientIs DEF ButFiles

LEMMA FilesKeep ==
    ASSUME AnyClient, Next
    PROVE FilesTyped'
<1>1. FilesTyped /\ file \in Seq(Pieces)
    BY AnyClientIs DEF ButFiles, VarsTyped
<1>2. CASE UNCHANGED fs
    BY <1>1, <1>2 DEF FilesTyped
<1>3. CASE Delete
    BY <1>1, <1>3 DEF Delete, FilesTyped
<1>4. CASE PutDone
    BY <1>1, <1>4 DEF PutDone, FilesTyped
<1>. QED
    BY <1>2, <1>3, <1>4 DEF Next, Session, ClientRequests, ClientSends, ClientLeaves, Receive, ReadBody,
           ReceiveMessage, HeaderFails, BadRequest, FieldFaults, Unauthorized, AuthFaults,
           Get, PutFaults, Put, PutFails

LEMMA AnyClientInductive == AnyClient /\ [Next]_vars => AnyClient'
<1>1. ASSUME AnyClient, UNCHANGED vars PROVE AnyClient'
  <2>1. UNCHANGED <<VarsTyped, Sorted, Arrived, Handled, FilesTyped>>
    BY <1>1 DEF vars, client, VarsTyped, Sorted, Arrived, Handled, Stream, WasSent, Latest, Message,
                Body, Current, This, Verified, FilesTyped
  <2>. QED
    BY <1>1, <2>1, AnyClientIs, AnyClientNext DEF ButFiles
<1>2. ASSUME AnyClient, Next PROVE AnyClient'
  <2>1. ButFiles'
    BY <1>2, SessionKeeps, ReadingKeeps, ClientKeeps DEF Next
  <2>. QED
    BY <1>2, <2>1, FilesKeep, AnyClientNext
<1>. QED
    BY <1>1, <1>2

(* Whatever the client sends, and whenever: nothing is read twice or out   *)
(* of order, though lines, headers and bodies come out of one stream by    *)
(* different reads, and every reply is to a request of the client.         *)
THEOREM AnyClientInvariance == Spec => []AnyClient
BY InitAnyClient, AnyClientInductive, PTL DEF Spec

THEOREM StreamInOrder == Spec => []TypeOK
BY AnyClientInvariance, PTL DEF AnyClient

(* The files change only with the success of a request that was allowed to *)
(* change them, whatever the client does between its header and its body.  *)
THEOREM AdmittedChanges == Spec => ChangesAreAdmitted
<1>. DEFINE Change == fs' # fs =>
         LET answer == replies'[Len(replies')]
             r == requests[answer.id] IN
         /\ Len(replies') = Len(replies) + 1
         /\ <<r.method, answer.code>> \in {<<"PUT", 201>>, <<"DELETE", 200>>}
         /\ Authenticate => r.auth \in Known
<1>1. AnyClient /\ Next => Change
  <2>. SUFFICES ASSUME AnyClient, Next, fs' # fs
                PROVE /\ Len(replies') = Len(replies) + 1
                      /\ <<requests[replies'[Len(replies')].id].method, replies'[Len(replies')].code>>
                            \in {<<"PUT", 201>>, <<"DELETE", 200>>}
                      /\ Authenticate => requests[replies'[Len(replies')].id].auth \in Known
    OBVIOUS
  <2>1. TypeOK /\ Handled
    BY AnyClientIs, TypeOKIs DEF ButFiles
  <2>2. ASSUME NEW code \in Nat, Current \in 1 .. Latest, Reply(Current, code)
        PROVE /\ Len(replies') = Len(replies) + 1
              /\ replies'[Len(replies')] = [id |-> Current, code |-> code]
    BY <2>1, <2>2, Replying
  <2>3. Delete \/ PutDone
    BY DEF Next, Session, ClientRequests, ClientSends, ClientLeaves, Receive, ReadBody, ReceiveMessage,
           HeaderFails, BadRequest, FieldFaults, Unauthorized, AuthFaults, Get, PutFaults, Put, PutFails
  <2>4. CASE Delete
    <3>1. fs \in [DOMAIN fs -> Seq(Pieces)]
        BY AnyClientIs DEF FilesTyped
    <3>2. ASSUME ~(This.uri \in DOMAIN fs) PROVE fs' = fs
      <4>1. DOMAIN fs \ {This.uri} = DOMAIN fs
        BY <3>2
      <4>. QED
        BY <2>4, <3>1, <4>1 DEF Delete
    <3>3. This.uri \in DOMAIN fs
        BY <3>2
    <3>. QED
      <4>1. Current \in 1 .. Latest /\ Reply(Current, 200)
        BY <2>1, <2>4, <3>3 DEF Delete, Admitted, handleHttp, Handled
      <4>2. This.method = "DELETE" /\ (Authenticate => Verified)
        BY <2>4 DEF Delete, Admitted
      <4>3. Len(replies') = Len(replies) + 1 /\ replies'[Len(replies')] = [id |-> Current, code |-> 200]
        BY <2>2, <4>1
      <4>4. replies'[Len(replies')].id = Current /\ replies'[Len(replies')].code = 200
        BY <4>3
      <4>. QED
        BY <4>2, <4>3, <4>4 DEF This, Verified
  <2>5. CASE PutDone
    <3>1. ~(This.uri \in DOMAIN fs) /\ Reply(Current, 201)
        BY <2>5 DEF PutDone
    <3>. QED
      <4>1. Current \in 1 .. Latest /\ This.method = "PUT" /\ (Authenticate => Verified)
        BY <2>1, <2>5 DEF PutDone, Handled
      <4>3. Len(replies') = Len(replies) + 1 /\ replies'[Len(replies')] = [id |-> Current, code |-> 201]
        BY <2>2, <3>1, <4>1
      <4>4. replies'[Len(replies')].id = Current /\ replies'[Len(replies')].code = 201
        BY <4>3
      <4>. QED
        BY <4>1, <4>3, <4>4 DEF This, Verified
  <2>. QED
    BY <2>3, <2>4, <2>5
<1>2. AnyClient /\ [Next]_vars => [Change]_vars
    BY <1>1
<1>. HIDE DEF Change
<1>3. Spec => [][Change]_vars
    BY <1>2, AnyClientInvariance, PTL DEF Spec
<1>. QED
    BY <1>3 DEF ChangesAreAdmitted, Change

-------------------------------------------------------------------------------
(* A client that waits with a body until it is asked for it: the parts of  *)
(* IInv.                                                                   *)
Chained ==
    \A j \in 1 .. Len(Stream) - 1 :
        LET k == Stream[j].id IN
        /\ Stream[j].kind = "line" => Stream[j + 1] = Piece("fields", k, 0)
        /\ Stream[j].kind = "fields" =>
              Stream[j + 1] = IF requests[k].size = 0 THEN Piece("line", k + 1, 0) ELSE Piece("unit", k, 1)

Complete == Stream # <<>> => Stream[Len(Stream)] = Message(Latest)[pieces]

Awaited == \A j \in 1 .. Len(Stream) : Stream[j].kind = "unit" => pc = "body" /\ Stream[j].id = Current

Continued ==
    \A j \in 1 .. Len(replies) :
        replies[j] = [id |-> Latest, code |-> 100] => Latest \in Answers \/ (pc = "body" /\ Current = Latest)

Serving == pc \in {"line", "header", "body"}

Position ==
    /\ Serving => Chained /\ Complete /\ Awaited /\ Continued
    /\ pc = "line" => AtLine
    /\ pc = "header" => AtHeader
    /\ pc = "body" => AtBody

LEMMA IInvIs == IInv <=> AnyClient /\ AnsweredInOrder /\ OnlyKnownFaults /\ Position
BY DEF IInv, Position, Serving, StreamIsWhole, UnitsAreAwaited, Chained, Complete, Awaited, Continued

LEMMA IInvNext == IInv' <=> AnyClient' /\ AnsweredInOrder' /\ OnlyKnownFaults' /\ Position'
BY IInvIs, PTL

LEMMA EmptyIs == \A s \in Seq(Pieces) : s = <<>> <=> Len(s) = 0
BY EmptySeq

(* A reply is an answer unless it is an interim one. *)
LEMMA Answering ==
    ASSUME TypeOK, AnsweredInOrder, NEW k \in 1 .. Latest, NEW code \in Nat, Reply(k, code)
    PROVE /\ code = 100 => Answers' = Answers /\ AnsweredInOrder'
          /\ code # 100 /\ AnsweredBefore(k) => Answers' = 1 .. k /\ AnsweredInOrder'
<1>. DEFINE n == Len(replies)
<1>1. /\ n \in Nat /\ Len(replies') = n + 1
      /\ \A j \in 1 .. n : replies'[j] = replies[j]
      /\ replies'[n + 1] = [id |-> k, code |-> code]
    BY Replying
<1>2. \A j \in 1 .. n : replies[j].id \in 1 .. Latest
    BY DEF TypeOK
<1>3. Latest \in Nat
    BY LatestIs
<1>4. CASE code = 100
  <2>1. Finals' = Finals
    BY <1>1, <1>4 DEF Finals
  <2>2. \A j \in Finals : replies'[j] = replies[j]
    BY <1>1 DEF Finals
  <2>3. Answers' = Answers
    BY <2>1, <2>2 DEF Answers
  <2>. QED
    BY <1>4, <2>1, <2>2, <2>3 DEF AnsweredInOrder
<1>5. CASE code # 100 /\ AnsweredBefore(k)
  <2>1. Finals' = Finals \cup {n + 1} /\ Finals \subseteq 1 .. n
    BY <1>1, <1>5 DEF Finals
  <2>2. \A j \in Finals : replies'[j] = replies[j]
    BY <1>1 DEF Finals
  <2>3. replies'[n + 1].id = k
    BY <1>1
  <2>4. Answers' = Answers \cup {k}
    BY <2>1, <2>2, <2>3 DEF Answers
  <2>5. Answers = 1 .. k - 1 /\ k \in Nat \ {0}
    BY <1>3, <1>5 DEF AnsweredBefore
  <2>6. Answers' = 1 .. k
    BY <2>4, <2>5
  <2>7. \A j \in Finals : replies[j].id \in 1 .. k - 1
    BY <2>5 DEF Answers
  <2>. HIDE DEF n
  <2>8. AnsweredInOrder'
    <3>. SUFFICES ASSUME NEW j \in Finals \cup {n + 1}
                  PROVE /\ \A i \in Finals \cup {n + 1} : i < j => replies'[i].id < replies'[j].id
                        /\ \A m \in 1 .. replies'[j].id : m \in Answers'
        BY <2>1 DEF AnsweredInOrder
    <3>1. CASE j = n + 1
        BY <1>1, <2>1, <2>2, <2>3, <2>5, <2>6, <2>7, <3>1
    <3>2. CASE j \in Finals
      <4>1. replies'[j].id = replies[j].id /\ replies[j].id \in 1 .. k - 1 /\ j < n + 1 /\ j \in Nat
        BY <1>1, <2>1, <2>2, <2>7, <3>2
      <4>2. \A i \in Finals : i < j => replies'[i].id < replies'[j].id
        BY <2>2, <3>2 DEF AnsweredInOrder
      <4>3. ~(n + 1 < j)
        BY <1>1, <4>1
      <4>4. \A m \in 1 .. replies'[j].id : m \in Answers'
        BY <2>5, <2>6, <4>1
      <4>. QED
        BY <4>2, <4>3, <4>4
    <3>. QED
        BY <3>1, <3>2
  <2>. QED
    BY <1>5, <2>6, <2>8
<1>. QED
    BY <1>4, <1>5

(* What is left of the stream is whole when its beginning is taken. *)
LEMMA WholeStays ==
    ASSUME TypeOK, Chained, Complete, UNCHANGED <<requests, pieces>>,
           NEW e \in Nat, Stream' \in Seq(Pieces), Len(Stream) = e + Len(Stream'),
           \A j \in 1 .. Len(Stream') : Stream'[j] = Stream[e + j]
    PROVE Chained' /\ Complete'
<1>1. Len(Stream') \in Nat /\ Len(Stream) \in Nat
    BY StreamIs, LenProperties
<1>2. Chained'
  <2>. SUFFICES ASSUME NEW j \in 1 .. Len(Stream') - 1
       PROVE /\ Stream'[j].kind = "line" => Stream'[j + 1] = Piece("fields", Stream'[j].id, 0)
             /\ Stream'[j].kind = "fields" =>
                   Stream'[j + 1] = IF requests[Stream'[j].id].size = 0
                                    THEN Piece("line", Stream'[j].id + 1, 0) ELSE Piece("unit", Stream'[j].id, 1)
    BY DEF Chained
  <2>1. /\ e + j \in 1 .. Len(Stream) - 1 /\ e + (j + 1) = (e + j) + 1
        /\ j \in 1 .. Len(Stream') /\ j + 1 \in 1 .. Len(Stream')
    BY <1>1
  <2>2. Stream'[j] = Stream[e + j] /\ Stream'[j + 1] = Stream[(e + j) + 1]
    BY <2>1
  <2>. QED
    BY <2>1, <2>2 DEF Chained
<1>3. Complete'
  <2>. SUFFICES ASSUME Stream' # <<>> PROVE Stream'[Len(Stream')] = Message(Latest)[pieces]
    BY DEF Complete, Message, Body, Latest
  <2>1. Len(Stream') \in 1 .. Len(Stream') /\ Len(Stream) # 0
    BY <1>1, EmptyIs
  <2>2. Stream # <<>>
    BY <2>1, EmptyIs, StreamIs
  <2>. QED
    BY <2>1, <2>2 DEF Complete
<1>. QED
    BY <1>2, <1>3

LEMMA WholeUnmoved ==
    ASSUME Chained, Complete, UNCHANGED <<requests, pieces>>, Stream' = Stream
    PROVE Chained' /\ Complete'
<1>1. Message(Latest)' = Message(Latest)
    BY DEF Message, Body, Latest
<1>2. Chained'
    BY DEF Chained
<1>3. Complete'
    BY <1>1 DEF Complete
<1>. QED
    BY <1>2, <1>3

(* It is whole with the piece that is sent next. *)
LEMMA WholeGrows ==
    ASSUME TypeOK, Arrived, Chained, NEW p \in Pieces, wire' = Append(wire, p), input_stream_' = input_stream_,
           \A k \in 1 .. Latest : requests'[k] = requests[k],
           p = Message(Latest)'[pieces'],
           Stream # <<>> =>
             LET last == Stream[Len(Stream)] IN
             /\ last.kind = "line" => p = Piece("fields", last.id, 0)
             /\ last.kind = "fields" => p = IF requests[last.id].size = 0 THEN Piece("line", last.id + 1, 0)
                                                                         ELSE Piece("unit", last.id, 1)
    PROVE Chained' /\ Complete'
<1>. DEFINE n == Len(Stream)
<1>1. n \in Nat /\ Stream \in Seq(Pieces) /\ \A j \in 1 .. n : Stream[j].id \in 1 .. Latest
    BY StreamIs DEF Arrived, WasSent
<1>2. /\ Len(Stream') = n + 1
      /\ \A j \in 1 .. n : Stream'[j] = Stream[j]
      /\ Stream'[n + 1] = p
    BY Sending
<1>3. Complete'
    BY <1>2 DEF Complete
<1>4. Chained'
  <2>. SUFFICES ASSUME NEW j \in 1 .. n
       PROVE /\ Stream[j].kind = "line" => Stream'[j + 1] = Piece("fields", Stream[j].id, 0)
             /\ Stream[j].kind = "fields" =>
                   Stream'[j + 1] = IF requests[Stream[j].id].size = 0
                                    THEN Piece("line", Stream[j].id + 1, 0) ELSE Piece("unit", Stream[j].id, 1)
    BY <1>1, <1>2 DEF Chained
  <2>1. CASE j = n
    <3>1. Stream # <<>>
        BY <1>1, <2>1, EmptyIs
    <3>. QED
        BY <1>2, <2>1, <3>1
  <2>2. CASE j # n
    <3>1. j \in 1 .. n - 1 /\ j + 1 \in 1 .. n
        BY <1>1, <2>2
    <3>2. Stream'[j + 1] = Stream[j + 1]
        BY <1>2, <3>1
    <3>. QED
        BY <3>1, <3>2 DEF Chained
  <2>. QED
    BY <2>1, <2>2
<1>. QED
    BY <1>3, <1>4

(* The first piece is the end of a line, or of a header, that is received. *)
LEMMA FirstEnds ==
    ASSUME TypeOK, NEW kinds, NEW e \in 1 .. Len(input_stream_), EndsAt(e, kinds), Stream[1].kind \in kinds
    PROVE e = 1 /\ input_stream_[1] = Stream[1] /\ Stream # <<>>
<1>1. /\ Len(input_stream_) \in Nat /\ Len(Stream) = Len(input_stream_) + Len(wire) /\ Len(wire) \in Nat
      /\ Stream \in Seq(Pieces)
      /\ \A j \in 1 .. Len(input_stream_) : Stream[j] = input_stream_[j]
    BY StreamIs
<1>2. 1 \in 1 .. Len(input_stream_) /\ Len(Stream) # 0
    BY <1>1
<1>3. input_stream_[1] = Stream[1]
    BY <1>1, <1>2
<1>4. e = 1
  <2>. SUFFICES ASSUME e # 1 PROVE FALSE
    OBVIOUS
  <2>1. 1 \in 1 .. e - 1
    OBVIOUS
  <2>. QED
    BY <1>3, <2>1 DEF EndsAt
<1>. QED
    BY <1>1, <1>2, <1>3, <1>4, EmptyIs

(* The session receives the line that is next to be answered. *)
LEMMA LineTaken ==
    ASSUME IInv, ReceiveMessage
    PROVE /\ 1 \in 1 .. Len(input_stream_) /\ Take(1) /\ pc' = "header"
          /\ UNCHANGED <<requests, pieces, gone, wire, file, replies, fs>>
          /\ \E k \in 1 .. Latest : AnsweredBefore(k) /\ Stream[1] = Piece("line", k, 0)
                                       /\ request' = <<Piece("line", k, 0)>>
<1>1. TypeOK /\ Arrived /\ pc = "line" /\ AtLine
    BY IInvIs, AnyClientIs, TypeOKIs DEF ButFiles, ReceiveMessage, Position
<1>2. PICK e \in 1 .. Len(input_stream_) :
          /\ EndsAt(e, Line) /\ Take(e)
          /\ \/ /\ input_stream_[e].kind = "line"
                /\ request' = SubSeq(input_stream_, 1, e) /\ pc' = "header" /\ UNCHANGED replies
             \/ input_stream_[e].kind = "fields"
    BY DEF ReceiveMessage
<1>3. /\ input_stream_ \in Seq(Pieces) /\ Len(input_stream_) \in Nat /\ Len(wire) \in Nat
      /\ Len(Stream) = Len(input_stream_) + Len(wire) /\ Stream \in Seq(Pieces)
    BY <1>1, StreamIs
<1>4. Stream # <<>> /\ 1 \in 1 .. Len(Stream)
    BY <1>3, EmptyIs
<1>5. PICK k \in 1 .. Latest + 1 : AnsweredBefore(k) /\ Stream[1] = Piece("line", k, 0)
    BY <1>1, <1>4 DEF AtLine
<1>6. k \in 1 .. Latest
    BY <1>1, <1>4, <1>5 DEF Arrived, WasSent, Piece
<1>7. Stream[1].kind = "line" /\ Stream[1].kind \in Line
    BY <1>5 DEF Piece, Line
<1>8. e = 1 /\ input_stream_[1] = Stream[1]
    BY <1>1, <1>2, <1>7, FirstEnds
<1>9. request' = SubSeq(input_stream_, 1, 1) /\ pc' = "header" /\ UNCHANGED replies /\ Take(1)
      /\ 1 \in 1 .. Len(input_stream_)
    BY <1>2, <1>7, <1>8
<1>10. request' = <<Piece("line", k, 0)>>
  <2>1. request' \in Seq(Pieces) /\ Len(request') = 1 /\ request'[1] = Piece("line", k, 0)
    BY <1>3, <1>5, <1>8, <1>9, Cut
  <2>. QED
    BY <2>1
<1>. QED
    BY <1>5, <1>6, <1>9, <1>10 DEF ReceiveMessage, client

(* handleHttp takes the fields of the request whose line it has, and what  *)
(* is left begins with the next request.                                   *)
LEMMA HeaderTaken ==
    ASSUME IInv, NEW valid, handleHttp(valid)
    PROVE /\ 1 \in 1 .. Len(input_stream_) /\ Take(1) /\ pc = "header"
          /\ UNCHANGED <<requests, pieces, gone, wire, request>>
          /\ Stream[1] = Piece("fields", Current, 0)
<1>1. TypeOK /\ Arrived /\ pc = "header" /\ AtHeader
    BY IInvIs, AnyClientIs, TypeOKIs DEF ButFiles, handleHttp, Position
<1>2. PICK e \in 1 .. Len(input_stream_) : EndsAt(e, Header) /\ Take(e)
    BY DEF handleHttp
<1>3. /\ input_stream_ \in Seq(Pieces) /\ Len(input_stream_) \in Nat /\ Len(wire) \in Nat
      /\ Len(Stream) = Len(input_stream_) + Len(wire) /\ Stream \in Seq(Pieces)
    BY <1>1, StreamIs
<1>4. Stream # <<>>
    BY <1>3, EmptyIs
<1>5. Stream[1] = Piece("fields", Current, 0)
    BY <1>1, <1>4 DEF AtHeader
<1>6. Stream[1].kind \in Header
    BY <1>5 DEF Piece, Header
<1>7. e = 1
    BY <1>1, <1>2, <1>6, FirstEnds
<1>. QED
    BY <1>1, <1>2, <1>5, <1>7 DEF handleHttp, client

LEMMA AfterHeader ==
    ASSUME IInv, NEW valid, handleHttp(valid)
    PROVE /\ Stream' \in Seq(Pieces) /\ Chained' /\ Complete'
          /\ \A j \in 1 .. Len(Stream') : Stream'[j].kind # "unit"
          /\ Stream' = <<>> => Latest = Current /\ pieces = 2
          /\ Stream' # <<>> => This.size = 0 /\ Stream'[1] = Piece("line", Current + 1, 0)
<1>1. /\ 1 \in 1 .. Len(input_stream_) /\ Take(1) /\ pc = "header"
      /\ UNCHANGED <<requests, pieces, wire>>
      /\ Stream[1] = Piece("fields", Current, 0)
    BY HeaderTaken
<1>2. TypeOK /\ Arrived /\ Chained /\ Complete /\ Awaited /\ Current \in 1 .. Latest
    BY <1>1, IInvIs, AnyClientIs, TypeOKIs DEF ButFiles, Handled, Position, Serving
<1>3. /\ Stream' \in Seq(Pieces) /\ Len(Stream') \in Nat /\ Len(Stream) = 1 + Len(Stream')
      /\ \A j \in 1 .. Len(Stream') : Stream'[j] = Stream[1 + j]
    BY <1>1, <1>2, Taking
<1>4. Chained' /\ Complete'
    BY <1>1, <1>2, <1>3, WholeStays
<1>5. \A j \in 1 .. Len(Stream) : Stream[j].kind # "unit"
    BY <1>1, <1>2 DEF Awaited
<1>6. \A j \in 1 .. Len(Stream') : 1 + j \in 1 .. Len(Stream)
    BY <1>3
<1>7. \A j \in 1 .. Len(Stream') : Stream'[j].kind # "unit"
    BY <1>3, <1>5, <1>6
<1>8. Stream # <<>> /\ Stream[1].kind = "fields" /\ Stream[1].id = Current
    BY <1>1, <1>2, <1>3, EmptyIs, StreamIs DEF Piece
<1>9. ASSUME Stream' = <<>> PROVE Latest = Current /\ pieces = 2
  <2>1. Len(Stream) = 1
    BY <1>3, <1>9, EmptyIs
  <2>2. Message(Latest)[pieces] = Piece("fields", Current, 0)
    BY <1>1, <1>2, <1>8, <2>1 DEF Complete
  <2>3. Latest # 0
    BY <1>2, LatestIs
  <2>. QED
    BY <1>2, <2>2, <2>3, LastSent DEF Piece
<1>10. ASSUME Stream' # <<>> PROVE This.size = 0 /\ Stream'[1] = Piece("line", Current + 1, 0)
  <2>1. 1 \in 1 .. Len(Stream') /\ 1 \in 1 .. Len(Stream) - 1 /\ 1 + 1 \in 1 .. Len(Stream)
    BY <1>3, <1>10, EmptyIs
  <2>2. Stream'[1] = Stream[1 + 1]
    BY <1>3, <2>1
  <2>3. Stream[1 + 1] = IF requests[Current].size = 0 THEN Piece("line", Current + 1, 0)
                        ELSE Piece("unit", Current, 1)
    BY <1>2, <1>8, <2>1 DEF Chained
  <2>4. Stream[1 + 1].kind # "unit"
    BY <1>5, <2>1
  <2>. QED
    BY <2>2, <2>3, <2>4 DEF Piece, This
<1>. QED
    BY <1>3, <1>4, <1>7, <1>9, <1>10

LEMMA Facts ==
    IInv => /\ TypeOK /\ Arrived /\ Handled /\ AnsweredInOrder /\ OnlyKnownFaults /\ Position
            /\ Latest \in Nat /\ Stream \in Seq(Pieces) /\ Len(Stream) \in Nat
BY IInvIs, AnyClientIs, TypeOKIs, LatestIs, StreamIs DEF ButFiles

(* The request that is served is answered. *)
LEMMA Answered ==
    ASSUME IInv, pc \in {"header", "body"}, UNCHANGED requests,
           NEW code \in Nat \ {100}, Reply(Current, code)
    PROVE /\ AnsweredInOrder' /\ Answers' = 1 .. Current /\ Current \in 1 .. Latest /\ Latest' = Latest
          /\ Continued'
<1>1. /\ TypeOK /\ Handled /\ AnsweredInOrder /\ Position /\ Latest \in Nat
    BY Facts
<1>2. Current \in 1 .. Latest /\ AnsweredBefore(Current)
    BY <1>1 DEF Handled, Position, AtHeader, AtBody
<1>3. AnsweredInOrder' /\ Answers' = 1 .. Current
    BY <1>1, <1>2, Answering
<1>4. Latest' = Latest
    BY DEF Latest
<1>5. Continued /\ Answers \subseteq Answers'
    BY <1>1, <1>2, <1>3 DEF Position, Serving, AnsweredBefore
<1>6. /\ Len(replies) \in Nat /\ Len(replies') = Len(replies) + 1
      /\ \A j \in 1 .. Len(replies) : replies'[j] = replies[j]
      /\ replies'[Len(replies) + 1] = [id |-> Current, code |-> code]
    BY <1>1, <1>2, Replying
<1>7. Continued'
  <2>. SUFFICES ASSUME NEW j \in 1 .. Len(replies'), replies'[j] = [id |-> Latest, code |-> 100]
                PROVE Latest \in Answers'
    BY <1>4 DEF Continued
  <2>1. j # Len(replies) + 1
    BY <1>6
  <2>2. j \in 1 .. Len(replies) /\ replies[j] = [id |-> Latest, code |-> 100]
    BY <1>6, <2>1
  <2>3. Latest \in Answers \/ Current = Latest
    BY <1>5, <2>2 DEF Continued
  <2>. QED
    BY <1>2, <1>3, <1>5, <2>3
<1>. QED
    BY <1>2, <1>3, <1>4, <1>7

LEMMA LineKeeps ==
    ASSUME IInv, ReceiveMessage
    PROVE AnsweredInOrder' /\ OnlyKnownFaults' /\ Position'
<1>1. /\ 1 \in 1 .. Len(input_stream_) /\ Take(1) /\ pc' = "header"
      /\ UNCHANGED <<requests, pieces, gone, wire, file, replies, fs>>
    BY LineTaken
<1>2. PICK k \in 1 .. Latest : /\ AnsweredBefore(k) /\ Stream[1] = Piece("line", k, 0)
                               /\ request' = <<Piece("line", k, 0)>>
    BY LineTaken
<1>3. /\ TypeOK /\ Arrived /\ AnsweredInOrder /\ Latest \in Nat /\ Stream \in Seq(Pieces)
      /\ Chained /\ Complete /\ Awaited /\ Continued /\ pc = "line"
    BY Facts DEF Position, Serving, ReceiveMessage
<1>4. Latest' = Latest /\ Answers' = Answers /\ Current' = k
  <2>1. request'[Len(request')] = Piece("line", k, 0)
    BY <1>2
  <2>. QED
    BY <1>1, <2>1 DEF Latest, Answers, Finals, Current, Piece
<1>5. /\ Stream' \in Seq(Pieces) /\ Len(Stream') \in Nat /\ Len(Stream) = 1 + Len(Stream')
      /\ \A j \in 1 .. Len(Stream') : Stream'[j] = Stream[1 + j]
    BY <1>1, <1>3, Taking
<1>6. Chained' /\ Complete'
    BY <1>1, <1>3, <1>5, WholeStays
<1>7. Awaited'
  <2>1. \A j \in 1 .. Len(Stream) : Stream[j].kind # "unit"
    BY <1>3 DEF Awaited
  <2>2. \A j \in 1 .. Len(Stream') : 1 + j \in 1 .. Len(Stream)
    BY <1>5
  <2>. QED
    BY <1>5, <2>1, <2>2 DEF Awaited
<1>8. Continued'
    BY <1>1, <1>3, <1>4 DEF Continued
<1>9. Stream # <<>> /\ Stream[1].kind = "line" /\ Stream[1].id = k
    BY <1>2, <1>3, <1>5, EmptyIs DEF Piece
<1>10. ASSUME Stream' = <<>> PROVE Latest = k /\ pieces = 1
  <2>1. Len(Stream) = 1
    BY <1>5, <1>10, EmptyIs
  <2>2. Message(Latest)[pieces] = Piece("line", k, 0)
    BY <1>2, <1>3, <1>9, <2>1 DEF Complete
  <2>3. Latest # 0
    BY <1>2, <1>3
  <2>. QED
    BY <1>3, <2>2, <2>3, LastSent DEF Piece
<1>11. ASSUME Stream' # <<>> PROVE Stream'[1] = Piece("fields", k, 0)
  <2>1. 1 \in 1 .. Len(Stream') /\ 1 \in 1 .. Len(Stream) - 1
    BY <1>5, <1>11, EmptyIs
  <2>2. Stream'[1] = Stream[1 + 1]
    BY <1>5, <2>1
  <2>. QED
    BY <1>3, <1>9, <2>1, <2>2 DEF Chained
<1>12. AtHeader'
    BY <1>1, <1>2, <1>4, <1>10, <1>11 DEF AtHeader, AnsweredBefore
<1>13. AnsweredInOrder' /\ OnlyKnownFaults'
    BY <1>1, <1>3 DEF AnsweredInOrder, Finals, Answers, OnlyKnownFaults
<1>. QED
    BY <1>1, <1>6, <1>7, <1>8, <1>12, <1>13 DEF Position

(* A request that is refused. *)
LEMMA RefusalKeeps ==
    ASSUME IInv, BadRequest \/ Unauthorized
    PROVE AnsweredInOrder' /\ OnlyKnownFaults' /\ Position'
<1>1. PICK valid \in BOOLEAN : handleHttp(valid)
    BY DEF BadRequest, Unauthorized
<1>2. pc = "header" /\ UNCHANGED requests
    BY <1>1, HeaderTaken
<1>3. pc' = "ended"
    BY DEF BadRequest, Unauthorized
<1>4. PICK code \in {400, 401} : Reply(Current, code)
    BY DEF BadRequest, Unauthorized
<1>5. AnsweredInOrder'
    BY <1>2, <1>4, Answered
<1>. QED
    BY <1>3, <1>5 DEF OnlyKnownFaults, Position, Serving

(* A request that ends the process. *)
LEMMA FaultKeeps ==
    ASSUME IInv, FieldFaults \/ AuthFaults \/ PutFaults
    PROVE AnsweredInOrder' /\ OnlyKnownFaults' /\ Position'
<1>1. handleHttp(TRUE) /\ pc' = "terminated" /\ (UNCHANGED replies \/ Reply(Current, 100))
    BY DEF FieldFaults, AuthFaults, PutFaults, Admitted
<1>2. pc = "header" /\ UNCHANGED <<requests, request>>
    BY <1>1, HeaderTaken
<1>3. /\ TypeOK /\ AnsweredInOrder /\ Latest \in Nat /\ Current \in 1 .. Latest
      /\ AnsweredBefore(Current)
    BY <1>2, Facts DEF Handled, Position, AtHeader
<1>4. Position'
    BY <1>1 DEF Position, Serving
<1>5. AnsweredInOrder'
  <2>1. CASE Reply(Current, 100)
    BY <1>3, <2>1, Answering
  <2>2. CASE UNCHANGED replies
    BY <1>3, <2>2 DEF AnsweredInOrder, Finals, Answers
  <2>. QED
    BY <1>1, <2>1, <2>2
<1>6. MayFault(This)
  <2>1. This.method \in {"GET", "PUT", "DELETE"}
    BY <1>1 DEF handleHttp, Valid
  <2>. QED
    BY <2>1 DEF FieldFaults, AuthFaults, PutFaults, Admitted, Verified, MayFault
<1>7. Current' = Current /\ Latest' = Latest /\ MayFault(requests'[Current])
    BY <1>2, <1>6 DEF Current, Latest, This
<1>. QED
    BY <1>3, <1>4, <1>5, <1>7 DEF OnlyKnownFaults

(* A request without a body is answered, and the next line received. *)
LEMMA ServedKeeps ==
    ASSUME IInv, Get \/ Delete
    PROVE AnsweredInOrder' /\ OnlyKnownFaults' /\ Position'
<1>1. handleHttp(TRUE) /\ pc' = "line" /\ This.method # "PUT"
    BY DEF Get, Delete, Admitted
<1>2. pc = "header" /\ UNCHANGED <<requests, pieces, gone, wire, request>>
    BY <1>1, HeaderTaken
<1>3. PICK code \in {200, 404} : Reply(Current, code)
  <2>1. CASE Get
    BY <2>1 DEF Get
  <2>2. CASE Delete
    BY <2>2 DEF Delete
  <2>. QED
    BY <2>1, <2>2
<1>4. /\ AnsweredInOrder' /\ Answers' = 1 .. Current /\ Current \in 1 .. Latest /\ Latest' = Latest
      /\ Continued'
    BY <1>2, <1>3, Answered
<1>5. /\ Stream' \in Seq(Pieces) /\ Chained' /\ Complete'
      /\ \A j \in 1 .. Len(Stream') : Stream'[j].kind # "unit"
      /\ Stream' = <<>> => Latest = Current /\ pieces = 2
      /\ Stream' # <<>> => This.size = 0 /\ Stream'[1] = Piece("line", Current + 1, 0)
    BY <1>1, AfterHeader
<1>6. TypeOK /\ Latest \in Nat
    BY Facts
<1>7. Awaited'
    BY <1>5 DEF Awaited
<1>8. Stream' = <<>> => Sent'
  <2>. SUFFICES ASSUME Latest = Current, pieces = 2 PROVE Sent'
    BY <1>5
  <2>1. Len(Message(Latest)) = 2
    <3>1. requests[Latest].method # "PUT" /\ Latest \in 1 .. Latest
        BY <1>1, <1>4 DEF This
    <3>2. requests[Latest].size = 0 /\ Len(Message(Latest)) = 2 + requests[Latest].size
        BY <1>6, <3>1, MessageIs
    <3>. QED
        BY <3>2
  <2>2. Message(Latest)' = Message(Latest)
    BY <1>2 DEF Message, Body, Latest
  <2>. QED
    BY <1>2, <2>1, <2>2 DEF Sent
<1>9. AtLine'
  <2>. DEFINE k == Current + 1
  <2>1. k \in 1 .. Latest' + 1 /\ Answers' = 1 .. k - 1
    BY <1>4, <1>6
  <2>2. Stream' = <<>> => k = Latest' + 1 /\ Sent'
    BY <1>4, <1>5, <1>8
  <2>3. Stream' # <<>> => Stream'[1] = Piece("line", k, 0)
    BY <1>5
  <2>. HIDE DEF k
  <2>. QED
    BY <2>1, <2>2, <2>3 DEF AtLine, AnsweredBefore
<1>. QED
    BY <1>1, <1>4, <1>5, <1>7, <1>9 DEF Position, OnlyKnownFaults

(* A body is asked for. *)
LEMMA PutKeeps ==
    ASSUME IInv, Put
    PROVE AnsweredInOrder' /\ OnlyKnownFaults' /\ Position'
<1>1. handleHttp(TRUE) /\ pc' = "body" /\ file' = <<>>
    BY DEF Put, Admitted
<1>2. /\ pc = "header" /\ UNCHANGED <<requests, pieces, gone, wire, request>>
      /\ 1 \in 1 .. Len(input_stream_) /\ Take(1)
    BY <1>1, HeaderTaken
<1>3. /\ TypeOK /\ AnsweredInOrder /\ Latest \in Nat /\ Current \in 1 .. Latest
      /\ AnsweredBefore(Current) /\ Continued
    BY <1>2, Facts DEF Handled, Position, AtHeader, Serving
<1>4. Latest' = Latest /\ Current' = Current /\ This' = This
    BY <1>2 DEF Latest, Current, This
<1>5. Answers' = Answers /\ AnsweredInOrder' /\ Continued'
  <2>1. CASE Reply(Current, 100)
    <3>1. Answers' = Answers /\ AnsweredInOrder'
        BY <1>3, <2>1, Answering
    <3>2. /\ Len(replies) \in Nat /\ Len(replies') = Len(replies) + 1
          /\ \A j \in 1 .. Len(replies) : replies'[j] = replies[j]
          /\ replies'[Len(replies) + 1] = [id |-> Current, code |-> 100]
        BY <1>3, <2>1, Replying
    <3>3. Continued'
      <4>. SUFFICES ASSUME NEW j \in 1 .. Len(replies'), replies'[j] = [id |-> Latest, code |-> 100]
                    PROVE Latest \in Answers \/ Current = Latest
        BY <1>1, <1>4, <3>1 DEF Continued
      <4>1. CASE j = Len(replies) + 1
        BY <3>2, <4>1
      <4>2. CASE j \in 1 .. Len(replies)
        BY <1>3, <3>2, <4>2 DEF Continued
      <4>. QED
        BY <3>2, <4>1, <4>2
    <3>. QED
        BY <3>1, <3>3
  <2>2. CASE UNCHANGED replies
    <3>1. Answers' = Answers /\ AnsweredInOrder'
        BY <1>3, <2>2 DEF Answers, Finals, AnsweredInOrder
    <3>. QED
        BY <1>1, <1>2, <1>3, <1>4, <2>2, <3>1 DEF Continued
  <2>. QED
    BY <2>1, <2>2 DEF Put
<1>6. /\ Stream' \in Seq(Pieces) /\ Chained' /\ Complete'
      /\ \A j \in 1 .. Len(Stream') : Stream'[j].kind # "unit"
      /\ Stream' = <<>> => Latest = Current /\ pieces = 2
      /\ Stream' # <<>> => This.size = 0 /\ Stream'[1] = Piece("line", Current + 1, 0)
    BY <1>1, AfterHeader
<1>7. Awaited'
    BY <1>6 DEF Awaited
<1>8. This.size \in Nat
    BY <1>3, MessageIs DEF This
<1>9. AtBody'
  <2>. DEFINE size == This.size
  <2>1. Len(file') = 0
    BY <1>1, EmptySeq
  <2>2. ASSUME Stream' # <<>>
        PROVE /\ size = 0 /\ Stream'[1] = Piece("line", Current + 1, 0) /\ Len(Stream') > 0
              /\ Latest > Current
    <3>1. Len(Stream') \in Nat \ {0} /\ 1 \in 1 .. Len(Stream')
        BY <1>6, <2>2, EmptySeq
    <3>2. Arrived'
        BY <1>2, <1>3, Facts, OrderStays
    <3>3. Stream'[1].id \in 1 .. Latest
        BY <1>4, <3>1, <3>2 DEF Arrived, WasSent
    <3>. QED
        BY <1>3, <1>6, <2>2, <3>1, <3>3 DEF Piece
  <2>3. ASSUME Stream' = <<>>
        PROVE Latest = Current /\ pieces = 2 /\ Len(Stream') = 0
    BY <1>6, <2>3, EmptySeq
  <2>4. input_stream_' \in Seq(Pieces) /\ (size > 0 => input_stream_' = <<>>)
    <3>1. input_stream_' \in Seq(Pieces) /\ wire' \in Seq(Pieces)
        BY <1>2, <1>3, Facts, OrderStays
    <3>2. size > 0 => Stream' = <<>>
        BY <2>2
    <3>3. Stream' = <<>> => input_stream_' = <<>>
        BY <3>1, ConcatEqualIffEmpty DEF Stream
    <3>. QED
        BY <3>1, <3>2, <3>3
  <2>5. AnsweredBefore(Current)'
    BY <1>3, <1>4, <1>5 DEF AnsweredBefore
  <2>6. /\ \A j \in 1 .. Len(Stream') : j <= size => Stream'[j] = Piece("unit", Current, 0 + j)
        /\ Latest = Current => pieces = 2 + 0 + Len(Stream')
        /\ Latest > Current => Len(Stream') > size /\ Stream'[size + 1] = Piece("line", Current + 1, 0)
    <3>1. CASE Stream' = <<>>
        BY <1>3, <2>3, <3>1
    <3>2. CASE Stream' # <<>>
        BY <1>3, <2>2, <3>2
    <3>. QED
        BY <3>1, <3>2
  <2>7. size - 0 = size /\ size >= 0
    BY <1>8
  <2>. HIDE DEF size
  <2>8. size = This.size
    BY DEF size
  <2>. QED
    BY <1>2, <1>4, <2>1, <2>4, <2>5, <2>6, <2>7, <2>8 DEF AtBody
<1>. QED
    BY <1>1, <1>5, <1>6, <1>7, <1>9 DEF Position, OnlyKnownFaults

(* The body has come, or will not come. *)
LEMMA BodyEnds ==
    ASSUME IInv, PutDone \/ PutFails
    PROVE AnsweredInOrder' /\ OnlyKnownFaults' /\ Position'
<1>1. /\ pc = "body" /\ pc' = "line"
      /\ UNCHANGED <<requests, pieces, gone, wire, input_stream_, request, file>>
    BY DEF PutDone, PutFails, client
<1>2. PICK code \in {201, 404, 500} : Reply(Current, code)
  <2>1. CASE PutDone
    BY <2>1 DEF PutDone
  <2>2. CASE PutFails
    BY <2>2 DEF PutFails
  <2>. QED
    BY <2>1, <2>2
<1>3. /\ AnsweredInOrder' /\ Answers' = 1 .. Current /\ Current \in 1 .. Latest /\ Latest' = Latest
      /\ Continued'
    BY <1>1, <1>2, Answered
<1>4. /\ TypeOK /\ AtBody /\ Chained /\ Complete /\ Awaited /\ Latest \in Nat
      /\ Stream \in Seq(Pieces) /\ Len(Stream) \in Nat
    BY <1>1, Facts DEF Position, Serving
<1>5. Stream' = Stream
    BY <1>1 DEF Stream
<1>6. Chained' /\ Complete'
    BY <1>1, <1>4, <1>5, WholeUnmoved
<1>. DEFINE size == This.size
            k == Current + 1
<1>7. size \in Nat /\ Len(Message(Current)) = 2 + size
    BY <1>3, <1>4, MessageIs DEF This
<1>8. Len(file) \in Nat
    BY <1>4, LenProperties DEF TypeOK
<1>9. /\ Len(file) <= size
      /\ Len(file) < size => input_stream_ = <<>>
      /\ Latest = Current => pieces = 2 + Len(file) + Len(Stream)
      /\ Latest > Current => Len(Stream) > size - Len(file)
                                /\ Stream[(size - Len(file)) + 1] = Piece("line", k, 0)
    BY <1>4, <1>7, <1>8 DEF AtBody
<1>. HIDE DEF size
<1>10. CASE PutFails
  <2>1. Len(file) < size /\ gone /\ wire = <<>>
    BY <1>10 DEF PutFails, size
  <2>2. Stream = <<>>
    BY <1>4, <1>9, <2>1, ConcatEmptySeq DEF Stream, TypeOK
  <2>3. Len(Stream) = 0
    BY <2>2, EmptySeq
  <2>4. Latest = Current
    BY <1>3, <1>4, <1>7, <1>8, <1>9, <2>1, <2>3
  <2>5. AtLine'
    <3>1. k \in 1 .. Latest' + 1 /\ Answers' = 1 .. k - 1 /\ k = Latest' + 1
        BY <1>3, <1>4, <2>4
    <3>. HIDE DEF k
    <3>. QED
        BY <1>1, <1>5, <2>1, <2>2, <3>1 DEF AtLine, AnsweredBefore
  <2>6. Awaited'
    BY <1>5, <2>3 DEF Awaited
  <2>. QED
    BY <1>1, <1>3, <1>6, <2>5, <2>6 DEF Position, OnlyKnownFaults
<1>11. CASE PutDone
  <2>1. Len(file) = size
    BY <1>11 DEF PutDone, size
  <2>2. CASE Latest = Current
    <3>1. pieces \in 1 .. 2 + size
        BY <1>3, <1>4, <1>7, <2>2, LatestIs DEF TypeOK
    <3>2. Len(Stream) = 0 /\ pieces = 2 + size
        BY <1>4, <1>7, <1>9, <2>1, <2>2, <3>1
    <3>3. Stream = <<>>
        BY <1>4, <3>2, EmptyIs
    <3>4. Sent'
      <4>1. Message(Latest)' = Message(Latest)
        BY <1>1 DEF Message, Body, Latest
      <4>. QED
        BY <1>1, <1>7, <2>2, <3>2, <4>1 DEF Sent
    <3>5. AtLine'
      <4>1. k \in 1 .. Latest' + 1 /\ Answers' = 1 .. k - 1 /\ k = Latest' + 1
        BY <1>3, <1>4, <2>2
      <4>. HIDE DEF k
      <4>. QED
        BY <1>5, <3>3, <3>4, <4>1 DEF AtLine, AnsweredBefore
    <3>6. Awaited'
        BY <1>5, <3>2 DEF Awaited
    <3>. QED
        BY <1>1, <1>3, <1>6, <3>5, <3>6 DEF Position, OnlyKnownFaults
  <2>3. CASE Latest > Current
    <3>1. 1 \in 1 .. Len(Stream) /\ Stream[1] = Piece("line", k, 0)
        BY <1>4, <1>7, <1>9, <2>1, <2>3
    <3>2. Stream # <<>>
        BY <1>4, <3>1, EmptyIs
    <3>3. AtLine'
      <4>1. k \in 1 .. Latest' + 1 /\ Answers' = 1 .. k - 1
        BY <1>3, <1>4
      <4>. HIDE DEF k
      <4>. QED
        BY <1>5, <3>1, <3>2, <4>1 DEF AtLine, AnsweredBefore
    <3>4. ASSUME NEW j \in 1 .. Len(Stream) PROVE Stream[j].kind # "unit"
      <4>1. CASE j = 1
        BY <3>1, <4>1 DEF Piece
      <4>2. CASE 1 < j
        <5>1. Stream[1].id = Current + 1 /\ Stream[j].id >= Stream[1].id
          <6>1. Before(Stream[1], Stream[j])
            BY <1>4, <3>1, <4>2, TypeOKIs DEF Sorted
          <6>2. Stream[1].id = Current + 1 /\ Stream[j] \in Pieces
            BY <1>4, <3>1, ElementOfSeq DEF Piece
          <6>3. Stream[j].id \in Nat /\ Stream[1].id \in Nat
            BY <1>3, <6>2 DEF Pieces
          <6>. QED
            BY <6>1, <6>2, <6>3 DEF Before
        <5>. QED
            BY <1>3, <1>4, <5>1 DEF Awaited
      <4>. QED
        BY <1>4, <4>1, <4>2
    <3>5. Awaited'
        BY <1>5, <3>4 DEF Awaited
    <3>. QED
        BY <1>1, <1>3, <1>6, <3>3, <3>5 DEF Position, OnlyKnownFaults
  <2>. QED
    BY <1>3, <1>4, <2>2, <2>3
<1>. QED
    BY <1>10, <1>11

(* The process ends when the client has left within a header. *)
LEMMA HeaderFailsKeeps ==
    ASSUME IInv, HeaderFails
    PROVE AnsweredInOrder' /\ OnlyKnownFaults' /\ Position'
<1>1. /\ pc = "header" /\ ~Holds(Header) /\ gone /\ wire = <<>> /\ pc' = "terminated"
      /\ UNCHANGED <<requests, pieces, gone, replies>>
    BY DEF HeaderFails, client
<1>2. TypeOK /\ AnsweredInOrder /\ AtHeader /\ Current \in 1 .. Latest /\ Latest \in Nat
    BY <1>1, Facts DEF Position, Handled
<1>3. Stream = <<>>
  <2>. SUFFICES ASSUME Stream # <<>> PROVE FALSE
    OBVIOUS
  <2>1. Stream[1] = Piece("fields", Current, 0)
    BY <1>2 DEF AtHeader
  <2>2. Stream = input_stream_ /\ input_stream_ \in Seq(Pieces)
    BY <1>1, <1>2, ConcatEmptySeq DEF Stream, TypeOK
  <2>3. 1 \in 1 .. Len(input_stream_)
    BY <2>2, EmptySeq
  <2>4. EndsAt(1, Header)
    BY <2>1, <2>2 DEF EndsAt, Header, Piece
  <2>. QED
    BY <1>1, <2>3, <2>4 DEF Holds
<1>4. Current = Latest /\ pieces = 1
    BY <1>2, <1>3 DEF AtHeader
<1>5. Len(Message(Latest)) # 1 /\ requests # <<>>
  <2>1. Latest # 0 /\ Latest \in 1 .. Latest
    BY <1>2, <1>4
  <2>2. /\ Len(Message(Latest)) = 2 + requests[Latest].size /\ requests[Latest].size \in Nat
    BY <1>2, <2>1, MessageIs
  <2>. QED
    BY <1>2, <2>1, <2>2, LatestIs
<1>6. Message(Latest)' = Message(Latest)
    BY <1>1 DEF Message, Body, Latest
<1>7. Stage' = "header"
    BY <1>1, <1>4, <1>5, <1>6 DEF Stage, Sent
<1>8. AnsweredInOrder'
    BY <1>1, <1>2 DEF AnsweredInOrder, Finals, Answers
<1>. QED
    BY <1>1, <1>7, <1>8 DEF OnlyKnownFaults, Position, Serving

(* What is received stays where it is in the stream. *)
LEMMA ReceiveKeeps ==
    ASSUME IInv, Receive
    PROVE AnsweredInOrder' /\ OnlyKnownFaults' /\ Position'
<1>1. /\ pc \in {"line", "header"}
      /\ UNCHANGED <<requests, pieces, gone, pc, request, file, replies, fs>>
    BY DEF Receive, client
<1>2. /\ TypeOK /\ AnsweredInOrder /\ Chained /\ Complete /\ Awaited /\ Continued
      /\ pc = "line" => AtLine
      /\ pc = "header" => AtHeader
    BY <1>1, Facts DEF Position, Serving
<1>3. Stream' = Stream
    BY <1>2, Receiving
<1>4. Latest' = Latest /\ Current' = Current /\ Finals' = Finals /\ Answers' = Answers
    BY <1>1 DEF Latest, Current, Answers, Finals
<1>5. Message(Latest)' = Message(Latest)
    BY <1>1 DEF Message, Body, Latest
<1>6. Chained' /\ Complete'
    BY <1>1, <1>2, <1>3, WholeUnmoved
<1>7. Awaited' /\ Continued'
    BY <1>1, <1>2, <1>3, <1>4 DEF Awaited, Continued
<1>8. Sent' <=> Sent
    BY <1>1, <1>5 DEF Sent
<1>9. AtLine => AtLine'
    BY <1>1, <1>3, <1>4, <1>8 DEF AtLine, AnsweredBefore
<1>10. AtHeader => AtHeader'
    BY <1>1, <1>3, <1>4 DEF AtHeader, AnsweredBefore
<1>11. AnsweredInOrder'
    BY <1>1, <1>2, <1>4 DEF AnsweredInOrder
<1>. QED
    BY <1>1, <1>2, <1>6, <1>7, <1>9, <1>10, <1>11 DEF Position, OnlyKnownFaults

(* What is read of a body is the next of its units. *)
LEMMA ReadBodyKeeps ==
    ASSUME IInv, ReadBody
    PROVE AnsweredInOrder' /\ OnlyKnownFaults' /\ Position'
<1>. DEFINE size == This.size
            m == Len(file)
<1>1. /\ pc = "body" /\ pc' = "body" /\ m < size
      /\ UNCHANGED <<requests, pieces, gone, input_stream_, request, replies, fs>>
    BY DEF ReadBody, client
<1>2. PICK n \in 1 .. Len(wire) :
          /\ m + n <= size
          /\ file' = file \o SubSeq(wire, 1, n)
          /\ wire' = SubSeq(wire, n + 1, Len(wire))
    BY DEF ReadBody
<1>3. /\ TypeOK /\ AnsweredInOrder /\ Chained /\ Complete /\ Awaited /\ Continued
      /\ AtBody /\ Latest \in Nat /\ Current \in 1 .. Latest
      /\ Stream \in Seq(Pieces) /\ Len(Stream) \in Nat
    BY <1>1, Facts DEF Position, Serving, Handled
<1>4. /\ input_stream_ \in Seq(Pieces) /\ wire \in Seq(Pieces) /\ Len(wire) \in Nat
      /\ file \in Seq(Pieces) /\ m \in Nat
    BY <1>3, StreamIs, LenProperties DEF TypeOK
<1>5. size \in Nat
    BY <1>3, MessageIs DEF This
<1>6. /\ AnsweredBefore(Current)
      /\ \A i \in 1 .. m : file[i] = Piece("unit", Current, i)
      /\ input_stream_ = <<>>
      /\ \A j \in 1 .. Len(Stream) : j <= size - m => Stream[j] = Piece("unit", Current, m + j)
      /\ Latest = Current => pieces = 2 + m + Len(Stream)
      /\ Latest > Current => Len(Stream) > size - m /\ Stream[(size - m) + 1] = Piece("line", Current + 1, 0)
    BY <1>1, <1>3, <1>4, <1>5 DEF AtBody
<1>7. Latest' = Latest /\ Current' = Current /\ This' = This /\ Finals' = Finals /\ Answers' = Answers
    BY <1>1 DEF Latest, Current, This, Answers, Finals
<1>. HIDE DEF size
<1>8. Stream = wire /\ Stream' = wire'
    BY <1>1, <1>4, <1>6, ConcatEmptySeq, Cut, <1>2 DEF Stream
<1>9. /\ Stream' \in Seq(Pieces) /\ Len(Stream') \in Nat /\ Len(Stream) = n + Len(Stream')
      /\ \A j \in 1 .. Len(Stream') : Stream'[j] = Stream[n + j]
  <2>1. /\ wire' \in Seq(Pieces) /\ Len(wire') = Len(wire) - n
        /\ \A j \in 1 .. Len(wire) - n : wire'[j] = wire[n + j]
    BY <1>2, <1>4, Cut
  <2>2. Len(wire) - n \in Nat /\ Len(wire) = n + (Len(wire) - n)
    BY <1>4
  <2>. QED
    BY <1>8, <2>1, <2>2
<1>10. Chained' /\ Complete'
    BY <1>1, <1>3, <1>9, WholeStays
<1>11. \A j \in 1 .. Len(Stream') : n + j \in 1 .. Len(Stream)
    BY <1>9
<1>12. Awaited' /\ Continued'
    BY <1>1, <1>3, <1>7, <1>9, <1>11 DEF Awaited, Continued
<1>. DEFINE part == SubSeq(wire, 1, n)
<1>13. part \in Seq(Pieces) /\ Len(part) = n /\ \A j \in 1 .. n : part[j] = wire[j]
    BY <1>4, Cut
<1>14. file' = file \o part
    BY <1>2
<1>. HIDE DEF part
<1>15. /\ Len(file') = m + n
       /\ \A j \in 1 .. m : file'[j] = file[j]
       /\ \A j \in 1 .. n : file'[m + j] = part[j]
    BY <1>4, <1>13, <1>14, Joined
<1>16. \A i \in 1 .. m + n : file'[i] = Piece("unit", Current, i)
  <2>. SUFFICES ASSUME NEW i \in 1 .. m + n PROVE file'[i] = Piece("unit", Current, i)
    OBVIOUS
  <2>1. CASE i <= m
    BY <1>4, <1>6, <1>15, <2>1
  <2>2. CASE ~(i <= m)
    <3>1. i - m \in 1 .. n /\ m + (i - m) = i /\ i - m \in 1 .. Len(Stream) /\ i - m <= size - m
        BY <1>2, <1>4, <1>5, <1>8, <2>2
    <3>2. file'[m + (i - m)] = Stream[i - m]
        BY <1>8, <1>13, <1>15, <3>1
    <3>3. Stream[i - m] = Piece("unit", Current, m + (i - m))
        BY <1>6, <3>1
    <3>. QED
        BY <3>1, <3>2, <3>3
  <2>. QED
    BY <2>1, <2>2
<1>17. \A j \in 1 .. Len(Stream') : j <= size - (m + n) => Stream'[j] = Piece("unit", Current, (m + n) + j)
  <2>. SUFFICES ASSUME NEW j \in 1 .. Len(Stream'), j <= size - (m + n)
                PROVE Stream'[j] = Piece("unit", Current, (m + n) + j)
    OBVIOUS
  <2>1. n + j <= size - m /\ m + (n + j) = (m + n) + j
    BY <1>4, <1>5
  <2>. QED
    BY <1>6, <1>9, <1>11, <2>1
<1>18. Latest > Current => Len(Stream') > size - (m + n)
                              /\ Stream'[(size - (m + n)) + 1] = Piece("line", Current + 1, 0)
  <2>. SUFFICES ASSUME Latest > Current
                PROVE Len(Stream') > size - (m + n)
                      /\ Stream'[(size - (m + n)) + 1] = Piece("line", Current + 1, 0)
    OBVIOUS
  <2>1. Len(Stream') > size - (m + n)
    BY <1>4, <1>5, <1>6, <1>9
  <2>2. (size - (m + n)) + 1 \in 1 .. Len(Stream') /\ n + ((size - (m + n)) + 1) = (size - m) + 1
    BY <1>2, <1>4, <1>5, <1>9, <2>1
  <2>. QED
    BY <1>6, <1>9, <2>1, <2>2
<1>19. Latest = Current => pieces = 2 + (m + n) + Len(Stream')
    BY <1>4, <1>6, <1>9
<1>20. AtBody'
  <2>1. m + n \in Nat /\ size - (m + n) >= 0
    BY <1>2, <1>4, <1>5
  <2>2. size' = size
    BY <1>7 DEF size
  <2>. DEFINE k == m + n
  <2>3. /\ Len(file') = k /\ k \in Nat /\ size - k >= 0
        /\ \A i \in 1 .. k : file'[i] = Piece("unit", Current, i)
        /\ \A j \in 1 .. Len(Stream') : j <= size - k => Stream'[j] = Piece("unit", Current, k + j)
        /\ Latest > Current => Len(Stream') > size - k /\ Stream'[(size - k) + 1] = Piece("line", Current + 1, 0)
        /\ Latest = Current => pieces = 2 + k + Len(Stream')
    BY <1>15, <1>16, <1>17, <1>18, <1>19, <2>1
  <2>. HIDE DEF k, m
  <2>4. AnsweredBefore(Current)' /\ input_stream_' = <<>>
    BY <1>1, <1>6, <1>7 DEF AnsweredBefore
  <2>. QED
    BY <1>1, <1>7, <2>3, <2>4 DEF AtBody, size
<1>21. AnsweredInOrder'
    BY <1>1, <1>3, <1>7 DEF AnsweredInOrder
<1>. QED
    BY <1>1, <1>10, <1>12, <1>20, <1>21 DEF Position, OnlyKnownFaults

(* The client leaves. *)
LEMMA LeavingKeeps ==
    ASSUME IInv, ClientLeaves
    PROVE AnsweredInOrder' /\ OnlyKnownFaults' /\ Position'
<1>1. /\ ~gone /\ gone' = TRUE
      /\ UNCHANGED <<requests, pieces, wire, input_stream_, pc, request, file, replies>>
    BY DEF ClientLeaves
<1>2. AnsweredInOrder /\ OnlyKnownFaults /\ Position
    BY Facts
<1>3. /\ Latest' = Latest /\ Current' = Current /\ This' = This /\ Finals' = Finals /\ Answers' = Answers
      /\ Stream' = Stream
    BY <1>1 DEF Latest, Current, This, Answers, Finals, Stream
<1>4. AnsweredInOrder'
    BY <1>1, <1>2, <1>3 DEF AnsweredInOrder
<1>5. OnlyKnownFaults'
    BY <1>1, <1>2, <1>3 DEF OnlyKnownFaults
<1>6. Serving => Chained' /\ Complete'
    BY <1>1, <1>2, <1>3, WholeUnmoved DEF Position
<1>7. Serving => Awaited' /\ Continued'
    BY <1>1, <1>2, <1>3 DEF Position, Awaited, Continued
<1>8. pc = "line" => AtLine'
    BY <1>1, <1>2, <1>3 DEF Position, AtLine, AnsweredBefore
<1>9. pc = "header" => AtHeader'
    BY <1>1, <1>2, <1>3 DEF Position, AtHeader, AnsweredBefore
<1>10. pc = "body" => AtBody'
    BY <1>1, <1>2, <1>3 DEF Position, AtBody, AnsweredBefore
<1>11. Serving' <=> Serving
    BY <1>1 DEF Serving
<1>. QED
    BY <1>1, <1>4, <1>5, <1>6, <1>7, <1>8, <1>9, <1>10, <1>11 DEF Position

(* A request that has not been sent in full has not been answered. *)
LEMMA UnsentUnanswered ==
    ASSUME IInv, Serving, ~gone, ~Sent
    PROVE Latest \notin Answers
<1>1. TypeOK /\ Arrived /\ Handled /\ Latest \in Nat /\ Position /\ Stream \in Seq(Pieces)
    BY Facts
<1>2. CASE pc = "line"
  <2>1. PICK k \in 1 .. Latest + 1 : /\ AnsweredBefore(k)
                                     /\ IF Stream = <<>> THEN k = Latest + 1 /\ (Sent \/ gone)
                                                         ELSE Stream[1] = Piece("line", k, 0)
    BY <1>1, <1>2 DEF Position, AtLine
  <2>2. Stream # <<>> /\ Stream[1] = Piece("line", k, 0)
    BY <2>1
  <2>3. 1 \in 1 .. Len(Stream)
    BY <1>1, <2>2, EmptySeq
  <2>4. k \in 1 .. Latest
    BY <1>1, <2>2, <2>3 DEF Arrived, WasSent, Piece
  <2>. QED
    BY <1>1, <2>1, <2>4 DEF AnsweredBefore
<1>3. CASE pc \in {"header", "body"}
  <2>1. Current \in 1 .. Latest /\ Answers = 1 .. Current - 1
    BY <1>1, <1>3 DEF Handled, Position, AtHeader, AtBody, AnsweredBefore
  <2>. QED
    BY <1>1, <2>1
<1>. QED
    BY <1>2, <1>3 DEF Serving

(* The next piece of a request: its fields, or a unit of a body that the   *)
(* session is reading.                                                     *)
LEMMA SendingKeeps ==
    ASSUME Announces, IInv, ClientSends
    PROVE AnsweredInOrder' /\ OnlyKnownFaults' /\ Position'
<1>. DEFINE size == requests[Latest].size
            p == Message(Latest)[pieces + 1]
            n == Len(Stream)
<1>1. /\ ~gone /\ ~Sent /\ pieces' = pieces + 1 /\ wire' = Append(wire, p)
      /\ UNCHANGED <<requests, gone, input_stream_, pc, request, file, replies>>
      /\ Patient /\ pieces > 1 => \E j \in 1 .. Len(replies) : replies[j] = [id |-> Latest, code |-> 100]
    BY DEF ClientSends
<1>2. /\ TypeOK /\ Arrived /\ Handled /\ AnsweredInOrder /\ OnlyKnownFaults /\ Position /\ Latest \in Nat
      /\ Stream \in Seq(Pieces) /\ n \in Nat
    BY Facts
<1>3. requests # <<>> /\ Latest # 0 /\ Latest \in 1 .. Latest
    BY <1>1, <1>2, LatestIs DEF Sent
<1>4. /\ size \in Nat /\ Len(Message(Latest)) = 2 + size /\ pieces \in 1 .. 1 + size
      /\ requests[Latest] \in Requests
  <2>1. /\ size \in Nat /\ Len(Message(Latest)) = 2 + size /\ requests[Latest] \in Requests
    BY <1>2, <1>3, MessageIs
  <2>2. pieces \in 1 .. Len(Message(Latest)) /\ pieces # Len(Message(Latest))
    BY <1>1, <1>2, <1>3 DEF TypeOK, Sent
  <2>. QED
    BY <2>1, <2>2
<1>5. /\ pieces = 1 => p = Piece("fields", Latest, 0)
      /\ pieces # 1 => p = Piece("unit", Latest, pieces - 1)
  <2>1. /\ Message(Latest)[2] = Piece("fields", Latest, 0)
        /\ \A i \in 1 .. size : Message(Latest)[2 + i] = Piece("unit", Latest, i)
    BY <1>2, <1>3, MessageIs
  <2>2. CASE pieces = 1
    BY <2>1, <2>2
  <2>3. CASE pieces # 1
    <3>1. pieces - 1 \in 1 .. size /\ 2 + (pieces - 1) = pieces + 1
        BY <1>4, <2>3
    <3>. QED
        BY <2>1, <2>3, <3>1
  <2>. QED
    BY <2>2, <2>3
<1>6. p \in Pieces
  <2>1. CASE pieces = 1
    BY <1>2, <1>5, <2>1, PiecesTyped
  <2>2. CASE pieces # 1
    <3>1. pieces - 1 \in Nat
        BY <1>4
    <3>. QED
        BY <1>2, <1>5, <2>2, <3>1, PiecesTyped
  <2>. QED
    BY <2>1, <2>2
<1>7. /\ Latest' = Latest /\ Current' = Current /\ This' = This /\ Finals' = Finals /\ Answers' = Answers
      /\ Message(Latest)' = Message(Latest)
    BY <1>1 DEF Latest, Current, This, Answers, Finals, Message, Body
<1>8. p = Message(Latest)'[pieces']
    BY <1>1, <1>7
<1>9. AnsweredInOrder'
    BY <1>1, <1>2, <1>7 DEF AnsweredInOrder
<1>10. OnlyKnownFaults'
    BY <1>1, <1>2, <1>7 DEF OnlyKnownFaults
<1>11. Serving' <=> Serving
    BY <1>1 DEF Serving
<1>. HIDE DEF p
<1>12. /\ Len(Stream') = n + 1
       /\ \A j \in 1 .. n : Stream'[j] = Stream[j]
       /\ Stream'[n + 1] = p
    BY <1>1, <1>2, <1>6, Sending
<1>13. Stream' # <<>> /\ (Stream # <<>> => Stream'[1] = Stream[1]) /\ (Stream = <<>> => Stream'[1] = p)
  <2>1. Stream' # <<>>
    BY <1>2, <1>12, EmptySeq
  <2>2. Stream # <<>> => n # 0
    BY <1>2, EmptyIs
  <2>3. Stream = <<>> => n = 0
    BY EmptySeq
  <2>. QED
    BY <1>2, <1>12, <2>1, <2>2, <2>3
<1>14. ASSUME Serving PROVE Chained' /\ Complete' /\ Awaited' /\ Continued'
  <2>1. Chained /\ Complete /\ Awaited /\ Continued
    BY <1>2, <1>14 DEF Position
  <2>2. ASSUME Stream # <<>>
        PROVE LET last == Stream[Len(Stream)] IN
              /\ last.kind = "line" => p = Piece("fields", last.id, 0)
              /\ last.kind = "fields" => p = IF requests[last.id].size = 0 THEN Piece("line", last.id + 1, 0)
                                                                         ELSE Piece("unit", last.id, 1)
    <3>. DEFINE last == Stream[Len(Stream)]
    <3>1. \/ pieces = 1 /\ last = Piece("line", Latest, 0)
          \/ pieces = 2 /\ last = Piece("fields", Latest, 0)
          \/ last = Piece("unit", Latest, pieces - 2)
        BY <1>2, <1>3, <2>1, <2>2, LastSent DEF Complete
    <3>. HIDE DEF last
    <3>2. CASE pieces = 1 /\ last = Piece("line", Latest, 0)
        BY <1>5, <3>2 DEF last, Piece
    <3>3. CASE pieces = 2 /\ last = Piece("fields", Latest, 0)
      <4>1. size # 0 /\ p = Piece("unit", Latest, 1)
        BY <1>4, <1>5, <3>3
      <4>2. last.kind = "fields" /\ last.id = Latest
        BY <3>3 DEF Piece
      <4>. QED
        BY <4>1, <4>2 DEF last
    <3>4. CASE last = Piece("unit", Latest, pieces - 2)
      <4>1. last.kind = "unit"
        BY <3>4 DEF Piece
      <4>. QED
        BY <4>1 DEF last
    <3>. QED
        BY <3>1, <3>2, <3>3, <3>4
  <2>3. Chained' /\ Complete'
    <3>1. \A k \in 1 .. Latest : requests'[k] = requests[k]
        BY <1>1
    <3>. QED
        BY <1>1, <1>2, <1>6, <1>8, <2>1, <2>2, <3>1, WholeGrows
  <2>4. p.kind = "unit" => pc = "body" /\ p.id = Current
    <3>1. CASE pieces = 1
        BY <1>5, <3>1 DEF Piece
    <3>2. CASE pieces # 1
      <4>1. Patient /\ pieces > 1
        BY <1>4, <3>2 DEF Announces
      <4>2. Latest \in Answers \/ (pc = "body" /\ Current = Latest)
        BY <1>1, <2>1, <4>1 DEF Continued
      <4>3. Latest \notin Answers
        BY <1>1, <1>14, UnsentUnanswered
      <4>. QED
        BY <1>5, <3>2, <4>2, <4>3 DEF Piece
    <3>. QED
        BY <3>1, <3>2
  <2>5. Awaited'
    <3>1. pc' = pc /\ Current' = Current
        BY <1>1, <1>7
    <3>2. \A j \in 1 .. n + 1 : Stream'[j].kind = "unit" => pc = "body" /\ Stream'[j].id = Current
      <4>1. \A j \in 1 .. n : Stream[j].kind = "unit" => pc = "body" /\ Stream[j].id = Current
        BY <2>1 DEF Awaited
      <4>2. \A j \in 1 .. n + 1 : j \in 1 .. n \/ j = n + 1
        BY <1>2
      <4>. QED
        BY <1>12, <2>4, <4>1, <4>2
    <3>. QED
        BY <1>12, <3>1, <3>2 DEF Awaited
  <2>6. Continued'
    BY <1>1, <1>7, <2>1 DEF Continued
  <2>. QED
    BY <2>3, <2>5, <2>6
<1>15. ASSUME pc = "line" PROVE AtLine'
    BY <1>1, <1>2, <1>7, <1>13, <1>15 DEF Position, AtLine, AnsweredBefore
<1>16. ASSUME pc = "header" PROVE AtHeader'
    BY <1>1, <1>2, <1>5, <1>7, <1>13, <1>16 DEF Position, AtHeader, AnsweredBefore
<1>17. ASSUME pc = "body" PROVE AtBody'
  <2>. DEFINE m == Len(file)
              rest == This.size - m
  <2>1. AtBody /\ Current \in 1 .. Latest /\ m \in Nat
    BY <1>2, <1>17, LenProperties DEF Position, Handled, TypeOK
  <2>2. This.size \in Nat /\ rest \in Int
    BY <1>2, <2>1, MessageIs DEF This
  <2>3. /\ AnsweredBefore(Current)
        /\ rest >= 0
        /\ \A i \in 1 .. m : file[i] = Piece("unit", Current, i)
        /\ rest > 0 => input_stream_ = <<>>
        /\ \A j \in 1 .. n : j <= rest => Stream[j] = Piece("unit", Current, m + j)
        /\ Latest = Current => pieces = 2 + m + n
        /\ Latest > Current => n > rest /\ Stream[rest + 1] = Piece("line", Current + 1, 0)
    BY <2>1 DEF AtBody
  <2>4. \A j \in 1 .. n + 1 : j <= rest => Stream'[j] = Piece("unit", Current, m + j)
    <3>. SUFFICES ASSUME NEW j \in 1 .. n + 1, j <= rest
                  PROVE Stream'[j] = Piece("unit", Current, m + j)
        OBVIOUS
    <3>1. CASE j \in 1 .. n
        BY <1>12, <2>3, <3>1
    <3>2. CASE j \notin 1 .. n
      <4>1. j = n + 1 /\ ~(n > rest)
        BY <1>2, <2>2, <3>2
      <4>2. Latest = Current /\ pieces = 2 + m + n
        BY <1>2, <2>1, <2>3, <4>1
      <4>3. pieces # 1 /\ pieces - 1 = m + j
        BY <1>2, <2>1, <4>1, <4>2
      <4>. QED
        BY <1>5, <1>12, <4>1, <4>2, <4>3
    <3>. QED
        BY <3>1, <3>2
  <2>5. Latest = Current => pieces + 1 = 2 + m + (n + 1)
    BY <1>2, <2>1, <2>3
  <2>6. Latest > Current => n + 1 > rest /\ Stream'[rest + 1] = Piece("line", Current + 1, 0)
    <3>1. rest < n => n + 1 > rest /\ rest + 1 \in 1 .. n
        BY <1>2, <2>2, <2>3
    <3>. QED
        BY <1>12, <2>3, <3>1
  <2>7. AnsweredBefore(Current)'
    BY <1>7, <2>3 DEF AnsweredBefore
  <2>8. rest' = rest /\ m' = m
    BY <1>1, <1>7
  <2>. HIDE DEF m, rest
  <2>9. /\ rest' >= 0
        /\ \A i \in 1 .. m' : file'[i] = Piece("unit", Current', i)
        /\ rest' > 0 => input_stream_' = <<>>
        /\ \A j \in 1 .. Len(Stream') : j <= rest' => Stream'[j] = Piece("unit", Current', m' + j)
        /\ Latest' = Current' => pieces' = 2 + m' + Len(Stream')
        /\ Latest' > Current' => Len(Stream') > rest' /\ Stream'[rest' + 1] = Piece("line", Current' + 1, 0)
    BY <1>1, <1>7, <1>12, <2>3, <2>4, <2>5, <2>6, <2>8
  <2>. QED
    BY <2>7, <2>9 DEF AtBody, m, rest
<1>. QED
    BY <1>1, <1>9, <1>10, <1>11, <1>14, <1>15, <1>16, <1>17 DEF Position

(* The line of a new request, after all of the one before. *)
LEMMA RequestingKeeps ==
    ASSUME IInv, NEW r \in Requests, ClientRequests(r)
    PROVE AnsweredInOrder' /\ OnlyKnownFaults' /\ Position'
<1>. DEFINE p == Piece("line", Latest + 1, 0)
            n == Len(Stream)
<1>1. /\ ~gone /\ Sent /\ requests' = Append(requests, r) /\ pieces' = 1 /\ wire' = Append(wire, p)
      /\ UNCHANGED <<gone, input_stream_, pc, request, file, replies>>
    BY DEF ClientRequests
<1>2. /\ TypeOK /\ Arrived /\ Handled /\ AnsweredInOrder /\ OnlyKnownFaults /\ Position /\ Latest \in Nat
      /\ Stream \in Seq(Pieces) /\ n \in Nat
    BY Facts
<1>3. /\ requests' \in Seq(Requests) /\ Latest' = Latest + 1
      /\ \A k \in 1 .. Latest : requests'[k] = requests[k]
    BY <1>1, <1>2, AppendProperties DEF TypeOK, Latest
<1>4. Current' = Current /\ Finals' = Finals /\ Answers' = Answers
    BY <1>1 DEF Current, Answers, Finals
<1>5. p \in Pieces /\ p.kind = "line"
    BY <1>2, PiecesTyped DEF Piece
<1>6. p = Message(Latest)'[pieces']
  <2>1. Latest' \in 1 .. Latest'
    BY <1>2, <1>3
  <2>2. MessagesBegin'
    BY <1>3, MessagesBeginNext DEF RequestsTyped
  <2>. QED
    BY <1>1, <1>3, <2>1, <2>2 DEF MessagesBegin
<1>7. AnsweredInOrder'
    BY <1>1, <1>2, <1>4 DEF AnsweredInOrder
<1>8. OnlyKnownFaults'
  <2>1. \A k \in 1 .. Latest : k \in 1 .. Latest'
    BY <1>2, <1>3
  <2>. QED
    BY <1>1, <1>2, <1>3, <1>4, <2>1 DEF OnlyKnownFaults
<1>9. Serving' <=> Serving
    BY <1>1 DEF Serving
<1>10. /\ Len(Stream') = n + 1
       /\ \A j \in 1 .. n : Stream'[j] = Stream[j]
       /\ Stream'[n + 1] = p
    BY <1>1, <1>2, <1>5, Sending
<1>11. Stream' # <<>> /\ (Stream # <<>> => Stream'[1] = Stream[1]) /\ (Stream = <<>> => Stream'[1] = p)
  <2>1. Stream' # <<>>
    BY <1>2, <1>10, EmptySeq
  <2>2. Stream # <<>> => n # 0
    BY <1>2, EmptyIs
  <2>3. Stream = <<>> => n = 0
    BY EmptySeq
  <2>. QED
    BY <1>2, <1>10, <2>1, <2>2, <2>3
(* All of the request before has been sent. *)
<1>12. Latest # 0 => Latest \in 1 .. Latest /\ requests[Latest].size \in Nat
                        /\ pieces = 2 + requests[Latest].size
  <2>. SUFFICES ASSUME Latest # 0
                PROVE Latest \in 1 .. Latest /\ requests[Latest].size \in Nat
                        /\ pieces = 2 + requests[Latest].size
    OBVIOUS
  <2>1. Latest \in 1 .. Latest
    BY <1>2
  <2>2. requests[Latest].size \in Nat /\ Len(Message(Latest)) = 2 + requests[Latest].size
    BY <1>2, <2>1, MessageIs
  <2>. QED
    BY <1>1, <1>2, <2>1, <2>2, SentIs
<1>. HIDE DEF p
<1>13. ASSUME Serving PROVE Chained' /\ Complete' /\ Awaited' /\ Continued'
  <2>1. Chained /\ Complete /\ Awaited /\ Continued
    BY <1>2, <1>13 DEF Position
  <2>2. ASSUME Stream # <<>>
        PROVE LET last == Stream[Len(Stream)] IN
              /\ last.kind = "line" => p = Piece("fields", last.id, 0)
              /\ last.kind = "fields" => p = IF requests[last.id].size = 0 THEN Piece("line", last.id + 1, 0)
                                                                         ELSE Piece("unit", last.id, 1)
    <3>. DEFINE last == Stream[Len(Stream)]
                size == requests[Latest].size
    <3>1. Latest # 0
      <4>1. n \in 1 .. n
        BY <1>2, <2>2, EmptyIs
      <4>. QED
        BY <1>2, <4>1 DEF Arrived, WasSent
    <3>2. \/ pieces = 1 /\ last = Piece("line", Latest, 0)
          \/ pieces = 2 /\ last = Piece("fields", Latest, 0)
          \/ last = Piece("unit", Latest, pieces - 2)
        BY <1>2, <2>1, <2>2, <3>1, LastSent DEF Complete
    <3>3. pieces = 2 + size /\ size \in Nat
        BY <1>12, <3>1
    <3>. HIDE DEF last
    <3>4. CASE pieces = 1
        BY <3>3, <3>4
    <3>5. CASE pieces = 2 /\ last = Piece("fields", Latest, 0)
      <4>1. requests[Latest].size = 0
        BY <3>3, <3>5
      <4>2. last.kind = "fields" /\ last.id = Latest
        BY <3>5 DEF Piece
      <4>. QED
        BY <4>1, <4>2 DEF last, p
    <3>6. CASE last = Piece("unit", Latest, pieces - 2)
      <4>1. last.kind = "unit"
        BY <3>6 DEF Piece
      <4>. QED
        BY <4>1 DEF last
    <3>. QED
        BY <3>2, <3>4, <3>5, <3>6
  <2>3. Chained' /\ Complete'
    BY <1>1, <1>2, <1>3, <1>5, <1>6, <2>1, <2>2, WholeGrows
  <2>4. Awaited'
    BY <1>1, <1>2, <1>4, <1>5, <1>10, <2>1 DEF Awaited
  <2>5. Continued'
    <3>. SUFFICES ASSUME NEW j \in 1 .. Len(replies), replies[j] = [id |-> Latest + 1, code |-> 100]
                  PROVE FALSE
        BY <1>1, <1>3 DEF Continued
    <3>1. replies[j].id = Latest + 1
        OBVIOUS
    <3>2. replies[j].id \in 1 .. Latest
        BY <1>2 DEF TypeOK
    <3>. QED
        BY <1>2, <3>1, <3>2
  <2>. QED
    BY <2>3, <2>4, <2>5
<1>14. ASSUME pc = "line" PROVE AtLine'
  <2>1. PICK k \in 1 .. Latest + 1 : /\ AnsweredBefore(k)
                                     /\ IF Stream = <<>> THEN k = Latest + 1 /\ (Sent \/ gone)
                                                         ELSE Stream[1] = Piece("line", k, 0)
    BY <1>2, <1>14 DEF Position, AtLine
  <2>2. k \in 1 .. Latest' + 1 /\ Answers' = 1 .. k - 1
    BY <1>2, <1>3, <1>4, <2>1 DEF AnsweredBefore
  <2>3. Stream'[1] = Piece("line", k, 0)
    BY <1>11, <2>1 DEF p
  <2>. QED
    BY <1>11, <2>2, <2>3 DEF AtLine, AnsweredBefore
<1>15. ASSUME pc \in {"header", "body"}
       PROVE Current \in 1 .. Latest /\ This' = This /\ Latest # 0
    BY <1>2, <1>3, <1>4, <1>15 DEF Handled, This
<1>16. ASSUME pc = "header" PROVE AtHeader'
  <2>1. AtHeader
    BY <1>2, <1>16 DEF Position
  <2>2. Stream # <<>>
    BY <1>12, <1>15, <1>16, <2>1 DEF AtHeader
  <2>. QED
    BY <1>1, <1>4, <1>11, <2>1, <2>2 DEF AtHeader, AnsweredBefore
<1>17. ASSUME pc = "body" PROVE AtBody'
  <2>. DEFINE m == Len(file)
              size == This.size
  <2>1. AtBody /\ Current \in 1 .. Latest /\ m \in Nat
    BY <1>2, <1>17, LenProperties DEF Position, Handled, TypeOK
  <2>2. size \in Nat
    BY <1>2, <2>1, MessageIs DEF This
  <2>3. /\ AnsweredBefore(Current)
        /\ size - m >= 0
        /\ \A i \in 1 .. m : file[i] = Piece("unit", Current, i)
        /\ size - m > 0 => input_stream_ = <<>>
        /\ \A j \in 1 .. n : j <= size - m => Stream[j] = Piece("unit", Current, m + j)
        /\ Latest = Current => pieces = 2 + m + n
        /\ Latest > Current => n > size - m /\ Stream[(size - m) + 1] = Piece("line", Current + 1, 0)
    BY <2>1 DEF AtBody
  <2>. DEFINE rest == size - m
  <2>4. rest \in Nat /\ rest = size - m
    BY <2>1, <2>2, <2>3
  <2>5. Latest = Current => n = rest
    <3>1. Latest = Current => pieces = 2 + size
        BY <1>12, <1>15, <1>17 DEF This
    <3>. QED
        BY <1>2, <2>1, <2>2, <2>3, <2>4, <3>1
  <2>. HIDE DEF rest
  <2>6. \A j \in 1 .. n + 1 : j <= rest => j \in 1 .. n
    BY <1>2, <2>1, <2>3, <2>4, <2>5
  <2>7. n + 1 > rest
    BY <1>2, <2>1, <2>3, <2>4, <2>5
  <2>8. Stream'[rest + 1] = Piece("line", Current + 1, 0)
    <3>1. CASE Latest = Current
        BY <1>10, <2>5, <3>1 DEF p
    <3>2. CASE Latest > Current
      <4>1. rest + 1 \in 1 .. n
        BY <1>2, <2>3, <2>4, <3>2
      <4>. QED
        BY <1>10, <2>3, <2>4, <3>2, <4>1
    <3>. QED
        BY <1>2, <2>1, <3>1, <3>2
  <2>9. \A j \in 1 .. n + 1 : j <= rest => Stream'[j] = Piece("unit", Current, m + j)
    BY <1>10, <2>3, <2>4, <2>6
  <2>10. Latest' # Current
    BY <1>2, <1>3, <2>1
  <2>11. AnsweredBefore(Current)'
    BY <1>4, <2>3 DEF AnsweredBefore
  <2>12. This'.size - Len(file') = rest /\ m' = m
    BY <1>1, <1>15, <1>17, <2>4
  <2>. HIDE DEF m, size
  <2>13. /\ rest >= 0
         /\ \A i \in 1 .. m' : file'[i] = Piece("unit", Current', i)
         /\ rest > 0 => input_stream_' = <<>>
         /\ \A j \in 1 .. Len(Stream') : j <= rest => Stream'[j] = Piece("unit", Current', m' + j)
         /\ Latest' = Current' => pieces' = 2 + m' + Len(Stream')
         /\ Latest' > Current' => Len(Stream') > rest /\ Stream'[rest + 1] = Piece("line", Current' + 1, 0)
    BY <1>1, <1>4, <1>10, <2>3, <2>4, <2>7, <2>8, <2>9, <2>10, <2>12
  <2>. QED
    BY <2>11, <2>12, <2>13 DEF AtBody, m
<1>. QED
    BY <1>1, <1>7, <1>8, <1>9, <1>13, <1>14, <1>16, <1>17 DEF Position

LEMMA InitIInv == Init => IInv
<1>. SUFFICES ASSUME Init PROVE IInv
    OBVIOUS
<1>1. Stream = <<>> /\ Len(Stream) = 0 /\ Latest = 0 /\ Len(replies) = 0
    BY EmptySeq, ConcatEmptySeq DEF Init, Stream, Latest
<1>2. Finals = {} /\ Answers = {}
    BY <1>1 DEF Finals, Answers
<1>3. AnsweredInOrder /\ OnlyKnownFaults
    BY <1>2 DEF Init, AnsweredInOrder, OnlyKnownFaults
<1>4. Chained /\ Complete /\ Awaited /\ Continued
    BY <1>1 DEF Chained, Complete, Awaited, Continued
<1>5. AtLine
  <2>1. 1 \in 1 .. Latest + 1 /\ AnsweredBefore(1) /\ 1 = Latest + 1
    BY <1>1, <1>2 DEF AnsweredBefore
  <2>2. Sent
    BY DEF Init, Sent
  <2>. QED
    BY <1>1, <2>1, <2>2 DEF AtLine
<1>6. Position
    BY <1>4, <1>5 DEF Init, Position
<1>. QED
    BY <1>3, <1>6, IInvIs, InitAnyClient

LEMMA Inductive ==
    ASSUME Announces
    PROVE IInv /\ [Next]_vars => IInv'
<1>1. ASSUME IInv, Next PROVE AnsweredInOrder' /\ OnlyKnownFaults' /\ Position'
  <2>1. CASE \E r \in Requests : ClientRequests(r)
    BY <1>1, <2>1, RequestingKeeps
  <2>2. CASE ClientSends
    BY <1>1, <2>2, SendingKeeps
  <2>3. CASE ClientLeaves
    BY <1>1, <2>3, LeavingKeeps
  <2>4. CASE Receive
    BY <1>1, <2>4, ReceiveKeeps
  <2>5. CASE ReadBody
    BY <1>1, <2>5, ReadBodyKeeps
  <2>6. CASE Session
    BY <1>1, <2>6, LineKeeps, HeaderFailsKeeps, RefusalKeeps, FaultKeeps, ServedKeeps, PutKeeps, BodyEnds DEF Session
  <2>. QED
    BY <1>1, <2>1, <2>2, <2>3, <2>4, <2>5, <2>6 DEF Next
<1>2. ASSUME IInv, UNCHANGED vars PROVE AnsweredInOrder' /\ OnlyKnownFaults' /\ Position'
  <2>1. AnsweredInOrder /\ OnlyKnownFaults /\ Position
    BY <1>2, Facts
  <2>2. UNCHANGED <<requests, pieces, gone, wire, input_stream_, pc, request, file, replies>>
    BY <1>2 DEF vars, client
  <2>3. /\ Latest' = Latest /\ Current' = Current /\ This' = This /\ Finals' = Finals /\ Answers' = Answers
        /\ Stream' = Stream /\ Message(Latest)' = Message(Latest)
    BY <2>2 DEF Latest, Current, This, Answers, Finals, Stream, Message, Body
  <2>4. Stage' = Stage /\ (Sent' <=> Sent)
    BY <2>2, <2>3 DEF Stage, Sent
  <2>5. AnsweredInOrder' /\ OnlyKnownFaults'
    BY <2>1, <2>2, <2>3, <2>4 DEF AnsweredInOrder, OnlyKnownFaults
  <2>6. Serving => Chained' /\ Complete' /\ Awaited' /\ Continued'
    BY <2>1, <2>2, <2>3, WholeUnmoved DEF Position, Awaited, Continued
  <2>7. pc = "line" => AtLine'
    BY <2>1, <2>2, <2>3, <2>4 DEF Position, AtLine, AnsweredBefore
  <2>8. pc = "header" => AtHeader'
    BY <2>1, <2>2, <2>3 DEF Position, AtHeader, AnsweredBefore
  <2>9. pc = "body" => AtBody'
    BY <2>1, <2>2, <2>3 DEF Position, AtBody, AnsweredBefore
  <2>10. Serving' <=> Serving
    BY <2>2 DEF Serving
  <2>. QED
    BY <2>2, <2>5, <2>6, <2>7, <2>8, <2>9, <2>10 DEF Position
<1>3. ASSUME IInv, [Next]_vars PROVE AnyClient'
    BY <1>3, AnyClientInductive, IInvIs
<1>. QED
    BY <1>1, <1>2, <1>3, IInvNext

(* What comes next out of the stream is what the session reads next, if a  *)
(* client sends a body when it is told to continue, and not before.        *)
THEOREM Invariance == Announces => (Spec => []IInv)
<1>. SUFFICES ASSUME Announces PROVE Spec => []IInv
    OBVIOUS
<1>1. IInv /\ [Next]_vars => IInv'
    BY Inductive
<1>. QED
    BY <1>1, InitIInv, PTL DEF Spec

(* The final replies answer the requests in their order, each once and     *)
(* none passed over.                                                       *)
THEOREM RepliesInOrder == Announces => (Spec => []AnsweredInOrder)
<1>1. IInv => AnsweredInOrder
    BY IInvIs
<1>. QED
    BY <1>1, Invariance, PTL

(* The process of all the clients ends only by one that leaves within a    *)
(* header, or at a request that may fault, when that request is the one    *)
(* received last, if a client sends a body when it is told to continue.    *)
THEOREM KnownFaults == Announces => (Spec => []OnlyKnownFaults)
<1>1. IInv => OnlyKnownFaults
    BY IInvIs
<1>. QED
    BY <1>1, Invariance, PTL

(* A file that appears is the whole body of one PUT to that URI.           *)
THEOREM WholeBodies == Announces => (Spec => StoredBodiesAreWhole)
<1>. DEFINE Whole == \A p \in DOMAIN fs' \ DOMAIN fs :
          \E k \in 1 .. Latest : requests[k].uri = p /\ requests[k].method = "PUT" /\ fs'[p] = Body(k)
<1>1. IInv /\ Next => Whole
  <2>. SUFFICES ASSUME IInv, Next, NEW p \in DOMAIN fs' \ DOMAIN fs
                PROVE \E k \in 1 .. Latest : requests[k].uri = p /\ requests[k].method = "PUT" /\ fs'[p] = Body(k)
    OBVIOUS
  <2>1. Delete \/ PutDone
    BY DEF Next, Session, ClientRequests, ClientSends, ClientLeaves, Receive, ReadBody, ReceiveMessage,
           HeaderFails, BadRequest, FieldFaults, Unauthorized, AuthFaults, Get, PutFaults, Put, PutFails
  <2>2. PutDone
    BY <2>1 DEF Delete
  <2>3. pc = "body" /\ Len(file) = This.size
    BY <2>2 DEF PutDone
  <2>4. /\ This.uri \notin DOMAIN fs /\ p = This.uri /\ fs'[p] = file
    BY <2>2 DEF PutDone
  <2>5. TypeOK /\ Handled /\ AtBody
    BY <2>3, Facts DEF Position
  <2>6. Current \in 1 .. Latest /\ This.method = "PUT"
    BY <2>3, <2>5 DEF Handled
  <2>7. file \in Seq(Pieces) /\ Body(Current) \in Seq(Pieces) /\ Len(Body(Current)) = Len(file)
    BY <2>3, <2>5, <2>6, MessageIs DEF TypeOK, This
  <2>8. \A i \in 1 .. Len(file) : file[i] = Body(Current)[i]
    BY <2>3, <2>5 DEF AtBody, Body, This
  <2>9. file = Body(Current)
    BY <2>7, <2>8, SeqEqual
  <2>. QED
    BY <2>4, <2>6, <2>9 DEF This
<1>2. IInv /\ [Next]_vars => [Whole]_vars
    BY <1>1
<1>. HIDE DEF Whole
<1>3. Announces => (Spec => [][Whole]_vars)
    BY <1>2, Invariance, PTL DEF Spec
<1>. QED
    BY <1>3 DEF StoredBodiesAreWhole, Whole
=============================================================================
