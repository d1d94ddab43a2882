----------------------------- MODULE HttpSession -----------------------------
(***************************************************************************)
(* One HTTP connection (server::object_storage::Session): receiveMessage   *)
(* reads a line, handleHttp the rest of the header, the handlers of        *)
(* http_method_handlers.cpp the body of a PUT.  The first two read from    *)
(* the socket into input_stream_, whatever has arrived; the body is read   *)
(* from the socket alone.  The handlers run one after the other on the     *)
(* strand serializer_.                                                     *)
(*                                                                         *)
(* A request is sent as a line, the header fields with the empty line that *)
(* ends them, and the units of its body.  What has arrived together may be *)
(* read together, so the reads of the server cut the stream anywhere       *)
(* between pieces.  Replies are in the order of sendMessage, which         *)
(* ReplyChannel justifies.                                                 *)
(***************************************************************************)
EXTENDS Naturals, Sequences

CONSTANTS Requests,       \* what the client asks for: records, see Request
          Authenticate,   \* authenticate_
          Patient,        \* the client sends a body once it has read 100
          Hangups,        \* where it may leave: see Stage
          MaxRequests     \* bound: requests of the client

Request == [method : {"GET", "PUT", "DELETE", "HEAD"}, uri : STRING, size : Nat,
            expect : BOOLEAN,                     \* "Expect: 100-continue"
            auth : {"right", "wrong", "anonymous", "nameonly", "unreadable", "none"},
            flaw : {"none", "colonless", "length"}]

(* Credentials that verify finds: those of a user, and those of the        *)
(* anonymous one with any password or ("nameonly") without the colon that  *)
(* would begin one.                                                        *)
Known == {"right", "anonymous", "nameonly"}

(* Credentials authHttpUser and getAuthInfo read past the end of: none at  *)
(* all, no text after the scheme or none that is base64 ("unreadable"), no *)
(* colon in the text.                                                      *)
Misread == {"nameonly", "unreadable", "none"}

ASSUME RequestsAssumption ==
    \A r \in Requests : r \in Request /\ (r.method # "PUT" => r.size = 0)

VARIABLES requests,        \* the requests the client has begun to send
          pieces,          \* how many pieces of the last of them it has sent
          gone,            \* the client has closed its end
          wire,            \* sent, and not read by the server
          input_stream_,
          pc,              \* what the session does: see States
          request,         \* the line that was received
          file,            \* what has been read of a body
          replies,         \* the replies, each with the request it answers
          fs               \* the filesystem

client == <<requests, pieces, gone>>
vars == <<client, wire, input_stream_, pc, request, file, replies, fs>>

(* "ended": no handler is left, the session goes with its last reply;      *)
(* "terminated": an exception or a fault has ended the process.            *)
States == {"line", "header", "body", "ended", "terminated"}

Piece(kind, k, n) == [kind |-> kind, id |-> k, pos |-> n]

Body(k) == [n \in 1 .. requests[k].size |-> Piece("unit", k, n)]

Message(k) == <<Piece("line", k, 0), Piece("fields", k, 0)>> \o Body(k)

Init ==
    /\ requests = <<>> /\ pieces = 0 /\ gone = FALSE
    /\ wire = <<>> /\ input_stream_ = <<>>
    /\ pc = "line" /\ request = <<>> /\ file = <<>>
    /\ replies = <<>>
    /\ fs = [p \in {} |-> <<>>]

-----------------------------------------------------------------------------
(* The client. *)
Latest == Len(requests)

Sent == requests # <<>> => pieces = Len(Message(Latest))

Stage == IF Sent THEN "between" ELSE IF pieces = 1 THEN "header" ELSE "body"

ClientRequests(r) ==
    /\ ~gone /\ Sent /\ Latest < MaxRequests
    /\ requests' = Append(requests, r)
    /\ pieces' = 1
    /\ wire' = Append(wire, Piece("line", Latest + 1, 0))
    /\ UNCHANGED <<gone, input_stream_, pc, request, file, replies, fs>>

ClientSends ==
    /\ ~gone /\ ~Sent
    /\ Patient /\ pieces > 1 => \E j \in 1 .. Len(replies) : replies[j] = [id |-> Latest, code |-> 100]
    /\ pieces' = pieces + 1
    /\ wire' = Append(wire, Message(Latest)[pieces + 1])
    /\ UNCHANGED <<requests, gone, input_stream_, pc, request, file, replies, fs>>

ClientLeaves ==
    /\ ~gone /\ Stage \in Hangups
    /\ gone' = TRUE
    /\ UNCHANGED <<requests, pieces, wire, input_stream_, pc, request, file, replies, fs>>

-----------------------------------------------------------------------------
(* The first piece with a line's end, or with the end of a header. *)
EndsAt(e, kinds) ==
    /\ input_stream_[e].kind \in kinds
    /\ \A j \in 1 .. e - 1 : input_stream_[j].kind \notin kinds

Holds(kinds) == \E e \in 1 .. Len(input_stream_) : EndsAt(e, kinds)

Line == {"line", "fields"}
Header == {"fields"}

Take(e) == input_stream_' = SubSeq(input_stream_, e + 1, Len(input_stream_))

Reply(k, code) == replies' = Append(replies, [id |-> k, code |-> code])

(* Mistake: what has been read is read again. *)
ReceiveAgain ==
    /\ \/ pc = "line" /\ ~Holds(Line)
       \/ pc = "header" /\ ~Holds(Header)
    /\ \E n \in 1 .. Len(wire) : input_stream_' = input_stream_ \o SubSeq(wire, 1, n)
    /\ UNCHANGED <<client, wire, pc, request, file, replies, fs>>

(* async_read_until in receiveMessage, read_until in handleHttp: as much   *)
(* as there is, until the line or the header is in the stream.             *)
Receive ==
    /\ \/ pc = "line" /\ ~Holds(Line)
       \/ pc = "header" /\ ~Holds(Header)
    /\ \E n \in 1 .. Len(wire) :
          /\ input_stream_' = input_stream_ \o SubSeq(wire, 1, n)
          /\ wire' = SubSeq(wire, n + 1, Len(wire))
    /\ UNCHANGED <<client, pc, request, file, replies, fs>>

(* receiveMessage: a line that names HTTP goes to handleHttp.  Any other   *)
(* goes to handleFtp, which knows no command of that name; the empty line  *)
(* that follows has no first token, and reading it is a fault.             *)
ReceiveMessage ==
    /\ pc = "line"
    /\ \E e \in 1 .. Len(input_stream_) :
          /\ EndsAt(e, Line)
          /\ Take(e)
          /\ \/ /\ input_stream_[e].kind = "line"
                /\ request' = SubSeq(input_stream_, 1, e)
                /\ pc' = "header"
                /\ UNCHANGED replies
             \/ /\ input_stream_[e].kind = "fields"
                /\ Reply(input_stream_[e].id, 500)
                /\ pc' = "terminated"
                /\ UNCHANGED request
    /\ UNCHANGED <<client, wire, file, fs>>

(* read_until throws at the end of the stream, and handleHttp is noexcept. *)
HeaderFails ==
    /\ pc = "header" /\ ~Holds(Header)
    /\ gone /\ wire = <<>>
    /\ pc' = "terminated"
    /\ UNCHANGED <<client, wire, input_stream_, request, file, replies, fs>>

Current == request[Len(request)].id

This == requests[Current]

(* HttpParser.isValid(): the line and the fields of one request, and a     *)
(* method of its kMethodMap.                                               *)
Valid(e) ==
    /\ request = <<Piece("line", Current, 0)>> /\ e = 1
    /\ input_stream_[1] = Piece("fields", Current, 0)
    /\ This.method \in {"GET", "PUT", "DELETE"}

(* UserDatabase::verify, of the credentials the header carries. *)
Verified == This.auth \in Known

(* Mistake: the header is left in the stream. *)
handleHttpPeeks(valid) ==
    /\ pc = "header"
    /\ \E e \in 1 .. Len(input_stream_) : EndsAt(e, Header) /\ (Valid(e) <=> valid)
    /\ UNCHANGED <<client, wire, request, input_stream_>>

handleHttp(valid) ==
    /\ pc = "header"
    /\ \E e \in 1 .. Len(input_stream_) : EndsAt(e, Header) /\ (Valid(e) <=> valid) /\ Take(e)
    /\ UNCHANGED <<client, wire, request>>

(* A request that is refused is the last: nothing is received after it. *)
BadRequest ==
    /\ handleHttp(FALSE)
    /\ Reply(Current, 400)
    /\ pc' = "ended"
    /\ UNCHANGED <<file, fs>>

Unauthorized ==
    /\ handleHttp(TRUE)
    /\ Authenticate /\ ~Verified
    /\ Reply(Current, 401)
    /\ pc' = "ended"
    /\ UNCHANGED <<file, fs>>

(* A field without a colon is split into one token, and the parser reads   *)
(* the second: a fault, or the request goes on without that field.         *)
FieldFaults ==
    /\ handleHttp(TRUE)
    /\ This.flaw = "colonless"
    /\ pc' = "terminated"
    /\ UNCHANGED <<file, replies, fs>>

(* The credentials are read unchecked.  What is not there is taken from    *)
(* what the memory holds: no user of that name, or a fault.                *)
AuthFaults ==
    /\ handleHttp(TRUE)
    /\ Authenticate /\ This.auth \in Misread
    /\ pc' = "terminated"
    /\ UNCHANGED <<file, replies, fs>>

(* Mistake: what the name in the credentials is, is not asked. *)
AdmittedByHeader == handleHttp(TRUE) /\ (Authenticate => This.auth # "none")

Admitted == handleHttp(TRUE) /\ (Authenticate => Verified)

(* Mistake: a GET is not followed by another receiveMessage. *)
GetOnce ==
    /\ Admitted /\ This.method = "GET"
    /\ Reply(Current, IF This.uri = "/" \/ This.uri \in DOMAIN fs THEN 200 ELSE 404)
    /\ pc' = "ended"
    /\ UNCHANGED <<file, fs>>

(* GET / lists the files, which always succeeds. *)
Get ==
    /\ Admitted /\ This.method = "GET"
    /\ Reply(Current, IF This.uri = "/" \/ This.uri \in DOMAIN fs THEN 200 ELSE 404)
    /\ pc' = "line"
    /\ UNCHANGED <<file, fs>>

Delete ==
    /\ Admitted /\ This.method = "DELETE"
    /\ Reply(Current, IF This.uri \in DOMAIN fs THEN 200 ELSE 404)
    /\ fs' = [p \in DOMAIN fs \ {This.uri} |-> fs[p]]
    /\ pc' = "line"
    /\ UNCHANGED file

(* resize throws for a Content-Length that is negative, which becomes a    *)
(* size, or greater than what there is, and handleHttp is noexcept.        *)
PutFaults ==
    /\ Admitted /\ This.method = "PUT" /\ This.flaw = "length"
    /\ IF This.expect THEN Reply(Current, 100) ELSE UNCHANGED replies
    /\ pc' = "terminated"
    /\ UNCHANGED <<file, fs>>

Put ==
    /\ Admitted /\ This.method = "PUT" /\ This.flaw # "length"
    /\ IF This.expect THEN Reply(Current, 100) ELSE UNCHANGED replies
    /\ pc' = "body" /\ file' = <<>>
    /\ UNCHANGED fs

(* async_read of Content-Length bytes from the socket: what input_stream_  *)
(* holds is not among them.                                                *)
ReadBody ==
    /\ pc = "body" /\ Len(file) < This.size
    /\ \E n \in 1 .. Len(wire) :
          /\ Len(file) + n <= This.size
          /\ file' = file \o SubSeq(wire, 1, n)
          /\ wire' = SubSeq(wire, n + 1, Len(wire))
    /\ UNCHANGED <<client, input_stream_, pc, request, replies, fs>>

(* The handler of the body: the file is added, and there may be one. *)
PutDone ==
    /\ pc = "body" /\ Len(file) = This.size
    /\ fs' = IF This.uri \in DOMAIN fs THEN fs
             ELSE [p \in DOMAIN fs \cup {This.uri} |-> IF p = This.uri THEN file ELSE fs[p]]
    /\ Reply(Current, IF This.uri \in DOMAIN fs THEN 404 ELSE 201)
    /\ pc' = "line"
    /\ UNCHANGED <<client, wire, input_stream_, request, file>>

(* Mistake: the part of the body that has come is stored. *)
PutSavesPart ==
    /\ pc = "body" /\ Len(file) < This.size
    /\ gone /\ wire = <<>>
    /\ fs' = [p \in DOMAIN fs \cup {This.uri} |-> IF p = This.uri THEN file ELSE fs[p]]
    /\ Reply(Current, 201)
    /\ pc' = "line"
    /\ UNCHANGED <<client, wire, input_stream_, request, file>>

(* Mistake: the body is read by a call that throws. *)
PutThrows ==
    /\ pc = "body" /\ Len(file) < This.size
    /\ gone /\ wire = <<>>
    /\ pc' = "terminated"
    /\ UNCHANGED <<client, wire, input_stream_, request, file, replies, fs>>

PutFails ==
    /\ pc = "body" /\ Len(file) < This.size
    /\ gone /\ wire = <<>>
    /\ Reply(Current, 500)
    /\ pc' = "line"
    /\ UNCHANGED <<client, wire, input_stream_, request, file, fs>>

Session ==
    \/ ReceiveMessage \/ HeaderFails
    \/ BadRequest \/ FieldFaults \/ Unauthorized \/ AuthFaults
    \/ Get \/ Delete \/ PutFaults \/ Put \/ PutDone \/ PutFails

Next ==
    \/ \E r \in Requests : ClientRequests(r)
    \/ ClientSends \/ ClientLeaves
    \/ Receive \/ ReadBody
    \/ Session

(* The workers run the handlers, what is sent arrives, and a client that   *)
(* has begun a request goes on with it.                                    *)
Spec ==
    /\ Init /\ [][Next]_vars
    /\ WF_vars(Session) /\ WF_vars(Receive) /\ WF_vars(ReadBody) /\ WF_vars(ClientSends)

-----------------------------------------------------------------------------
Pieces == [kind : {"line", "fields", "unit"}, id : Nat, pos : Nat]

(* What the client has sent and the session has not made use of. *)
Stream == input_stream_ \o wire

PlaceIn(p) == CASE p.kind = "line" -> 1 [] p.kind = "fields" -> 2 [] p.kind = "unit" -> p.pos + 2

Before(p, q) == p.id < q.id \/ (p.id = q.id /\ PlaceIn(p) < PlaceIn(q))

(* Every variable keeps to its values; the stream is in the order in which *)
(* it was sent, and nothing is in it twice.                                *)
TypeOK ==
    /\ requests \in Seq(Requests) /\ pieces \in Nat
    /\ requests # <<>> => pieces \in 1 .. Len(Message(Latest))
    /\ gone \in BOOLEAN /\ pc \in States
    /\ \A s \in {input_stream_, wire, request, file} : s \in Seq(Pieces)
    /\ fs \in [DOMAIN fs -> Seq(Pieces)]
    /\ replies \in Seq([id : Nat, code : Nat])
    /\ \A j \in 1 .. Len(replies) : replies[j].id \in 1 .. Latest
    /\ \A i, j \in 1 .. Len(Stream) : i < j => Before(Stream[i], Stream[j])

(* The replies that are not an interim 100. *)
Finals == {j \in 1 .. Len(replies) : replies[j].code # 100}

Answers == {replies[j].id : j \in Finals}

(* The final replies answer the requests in their order, each of them      *)
(* once and none passed over: a client that pipelines tells by their order *)
(* which is which.                                                         *)
AnsweredInOrder ==
    \A j \in Finals :
        /\ \A i \in Finals : i < j => replies[i].id < replies[j].id
        /\ \A k \in 1 .. replies[j].id : k \in Answers

(* A file that appears is the whole body of one PUT to that URI, although  *)
(* bodies, lines and headers come out of one stream by different reads.    *)
StoredBodiesAreWhole ==
    [][\A p \in DOMAIN fs' \ DOMAIN fs :
          \E k \in 1 .. Latest : requests[k].uri = p /\ requests[k].method = "PUT" /\ fs'[p] = Body(k)]_vars

(* The files change only with the success of a request that was allowed    *)
(* to change them: a PUT is checked when its header has come, and acts     *)
(* when its body has.                                                      *)
ChangesAreAdmitted ==
    [][fs' # fs =>
         LET answer == replies'[Len(replies')]
             r == requests[answer.id] IN
         /\ Len(replies') = Len(replies) + 1
         /\ <<r.method, answer.code>> \in {<<"PUT", 201>>, <<"DELETE", 200>>}
         /\ Authenticate => r.auth \in Known]_vars

(* What handleHttp does with a request may end the process: a field        *)
(* without a colon, credentials that are not there, and the length of a    *)
(* PUT that has been admitted.                                             *)
MayFault(r) ==
    /\ r.method \in {"GET", "PUT", "DELETE"}
    /\ \/ r.flaw = "colonless"
       \/ Authenticate /\ r.auth \in Misread
       \/ r.method = "PUT" /\ r.flaw = "length" /\ (Authenticate => r.auth \in Known)

(* The process of all the clients ends only by one that leaves within a    *)
(* header, or at a request that may fault, when that request is the one    *)
(* received last: never by what is stored, by a client that leaves between *)
(* requests or within a body, by a request that is refused before what is  *)
(* wrong with it matters, or by what an earlier read left in the stream.   *)
OnlyKnownFaults ==
    pc = "terminated" =>
        \/ gone /\ Stage = "header"
        \/ \E k \in 1 .. Latest : k = Current /\ MayFault(requests[k])

Refused == \E j \in 1 .. Len(replies) : replies[j].code \in {400, 401}

(* Every request is answered, unless the client leaves, an earlier request *)
(* was refused or the process has ended.                                   *)
EveryRequestAnswered ==
    \A k \in 1 .. MaxRequests :
        Latest >= k ~> (k \in Answers \/ Refused \/ gone \/ pc = "terminated")

-----------------------------------------------------------------------------
(* The invariants behind them.  For any client: what arrives was sent, and *)
(* the request whose body is read has passed its checks.                   *)
WasSent(p) == p.id \in 1 .. Latest /\ (p.id = Latest => PlaceIn(p) <= pieces)

AnyClient ==
    /\ TypeOK
    /\ \A j \in 1 .. Len(Stream) : WasSent(Stream[j])
    /\ pc \in {"header", "body"} => request # <<>> /\ Current \in 1 .. Latest
    /\ pc = "body" => This.method = "PUT" /\ (Authenticate => Verified)

(* For a client that waits with a body until it is asked for it.           *)
Announces == Patient \/ \A r \in Requests : r.size = 0

(* Nothing is missing from the stream, up to what was sent last. *)
StreamIsWhole ==
    /\ \A j \in 1 .. Len(Stream) - 1 :
          LET k == Stream[j].id IN
          /\ Stream[j].kind = "line" => Stream[j + 1] = Piece("fields", k, 0)
          /\ Stream[j].kind = "fields" =>
                Stream[j + 1] = IF requests[k].size = 0 THEN Piece("line", k + 1, 0)
                                                        ELSE Piece("unit", k, 1)
    /\ Stream # <<>> => Stream[Len(Stream)] = Message(Latest)[pieces]

(* Units of a body are under way only while that body is read, and a       *)
(* client that has been told to continue with one is the one being read.   *)
UnitsAreAwaited ==
    /\ \A j \in 1 .. Len(Stream) : Stream[j].kind = "unit" => pc = "body" /\ Stream[j].id = Current
    /\ \A j \in 1 .. Len(replies) :
          replies[j] = [id |-> Latest, code |-> 100] =>
              Latest \in Answers \/ (pc = "body" /\ Current = Latest)

AnsweredBefore(k) == Answers = 1 .. k - 1

(* What comes next out of the stream is what the session reads next.       *)
AtLine ==
    \E k \in 1 .. Latest + 1 :
        /\ AnsweredBefore(k)
        /\ IF Stream = <<>> THEN k = Latest + 1 /\ (Sent \/ gone)
                            ELSE Stream[1] = Piece("line", k, 0)

AtHeader ==
    /\ AnsweredBefore(Current)
    /\ request = <<Piece("line", Current, 0)>>
    /\ IF Stream = <<>> THEN Current = Latest /\ pieces = 1
                        ELSE Stream[1] = Piece("fields", Current, 0)

AtBody ==
    LET rest == This.size - Len(file) IN
    /\ AnsweredBefore(Current)
    /\ rest >= 0
    /\ \A i \in 1 .. Len(file) : file[i] = Piece("unit", Current, i)
    /\ rest > 0 => input_stream_ = <<>>
    /\ \A j \in 1 .. Len(Stream) : j <= rest => Stream[j] = Piece("unit", Current, Len(file) + j)
    /\ Latest = Current => pieces = 2 + Len(file) + Len(Stream)
    /\ Latest > Current => Len(Stream) > rest /\ Stream[rest + 1] = Piece("line", Current + 1, 0)

IInv ==
    /\ AnyClient /\ AnsweredInOrder /\ OnlyKnownFaults
    /\ pc \in {"line", "header", "body"} => StreamIsWhole /\ UnitsAreAwaited
    /\ pc = "line" => AtLine
    /\ pc = "header" => AtHeader
    /\ pc = "body" => AtBody
=============================================================================
