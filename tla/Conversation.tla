----------------------------- MODULE Conversation -----------------------------
(***************************************************************************)
(* What one client and the server say to each other, as the texts on their *)
(* connection: receiveMessage and handleHttp cut the requests out of one   *)
(* stream and parse them, the client cuts the responses out of the other.  *)
(* The bodies of uploads, and which response a request gets, are those of  *)
(* HttpSession and FtpSession.                                             *)
(***************************************************************************)
EXTENDS Requests, Responses

CONSTANTS HttpRequests, FtpRequests,   \* what a client asks: see the texts below
          Resources,                   \* texts of files
          Ports,                       \* data ports
          MaxRequests                  \* bound: requests of the client

VARIABLES protocol,     \* of the client
          asked,        \* the requests it has sent
          wire,         \* their text, as far as the server has not read it
          receiving,    \* the server reads another request
          understood,   \* what it has made of those it has read
          replies,      \* what its responses say
          stream        \* their text

(* A word is a text without the characters that are looked for; a number   *)
(* is one, and no two are the same.                                        *)
Words == STRING \ {Sp, ":", "\r", "\n"}

Numbers == 0 .. Max({599, MaxNumber, 2^SizeBits - 1})

ASSUME NumbersAssumption ==
    /\ ToString(0) = "0"
    /\ \A n \in Numbers :
         ToString(n) \in Words /\ \A m \in Numbers : ToString(m) = ToString(n) => m = n

Fields == {"Host", "Authorization", "Content-Length", "CONTENT-LENGTH", "Expect", "Accept"}

(* A client of HTTP that has a body gives its size.  No argument of FTP    *)
(* has the end of a line in it, and no command names HTTP.                 *)
ASSUME RequestsAssumption ==
    /\ \A r \in HttpRequests :
         /\ {r.method, r.uri} \subseteq Words
         /\ r.size \in 0 .. MaxNumber /\ r.fields \in Seq(Fields)
         /\ r.size # 0 => \E k \in 1 .. Len(r.fields) : r.fields[k] \in {"Content-Length", "CONTENT-LENGTH"}
         /\ {r.username, r.password} \subseteq Seq(0 .. 255)
    /\ \A r \in FtpRequests :
         /\ r.command \in Seq(Words \ HttpWords)
         /\ r.command # <<>> => toUpperCase(r.command) = <<r.name>>
         /\ r.arguments \in Seq(Seq(STRING \ {"\r", "\n"}))

ASSUME RepliesAssumption ==
    /\ \A x \in Resources : x \in Seq(STRING) /\ Len(x) < 2^SizeBits
    /\ \A port \in Ports : port \in Nat /\ port \div 256 < 256

vars == <<protocol, asked, wire, receiving, understood, replies, stream>>

Init ==
    /\ protocol \in {"Http", "Ftp"}
    /\ asked = <<>> /\ wire = <<>> /\ receiving = TRUE /\ understood = <<>>
    /\ replies = <<>> /\ stream = <<>>

-----------------------------------------------------------------------------
(* The client. *)

(* Three bytes make four characters, with "=" for the ones that are not    *)
(* there.                                                                  *)
encode_base64(bytes) ==
    LET missing == (3 - (Len(bytes) % 3)) % 3
        padded == bytes \o [k \in 1 .. missing |-> 0]
        triple(k) == LET q == 3 * ((k - 1) \div 4) IN
                     padded[q + 1] * 2^16 + padded[q + 2] * 2^8 + padded[q + 3]
        length == 4 * (Len(padded) \div 3)
    IN [k \in 1 .. length |->
          IF k > length - missing THEN "="
          ELSE Alphabet[((triple(k) \div 64^(3 - ((k - 1) % 4))) % 64) + 1]]

(* A request: method, uri, size and credentials, and the fields it has, in *)
(* their order.  An "Accept" comes without a value.                        *)
HttpFieldText(r, field) ==
    CASE field = "Host" -> <<Sp, "localhost", ":", "1670">>
      [] field = "Authorization" ->
           <<Sp, "Basic", Sp>> \o encode_base64(r.username \o <<58>> \o r.password)
      [] field \in {"Content-Length", "CONTENT-LENGTH"} -> <<Sp, ToString(r.size)>>
      [] field = "Expect" -> <<Sp, Sp, "100-continue">>
      [] field = "Accept" -> <<>>

HttpRequestText(r) ==
    <<r.method, Sp, r.uri, Sp, "HTTP", "/1.1">> \o CRLF
      \o FlattenSeq([k \in 1 .. Len(r.fields) |->
                       <<r.fields[k]>> \o Colon \o HttpFieldText(r, r.fields[k]) \o CRLF])
      \o CRLF

HttpMeaning(r) ==
    LET has(field) == Contains(r.fields, field) IN
    IF r.method \notin {"GET", "PUT", "DELETE"} THEN Invalid
    ELSE [outcome |-> "valid", method |-> <<r.method>>, uri |-> <<r.uri>>, size |-> r.size,
          expect |-> has("Expect"),
          auth |-> IF has("Authorization")
                   THEN {[username |-> r.username, password |-> r.password]} ELSE {}]

(* A command in either case, and its arguments. *)
FtpRequestText(r) ==
    r.command \o FlattenSeq([k \in 1 .. Len(r.arguments) |-> Blank \o r.arguments[k]]) \o CRLF

FtpMeaning(r) ==
    IF r.name \notin kCommandMap THEN Invalid
    ELSE [outcome |-> "valid", command |-> <<r.name>>, arguments |-> r.arguments]

Meaning(r) == IF protocol = "Http" THEN HttpMeaning(r) ELSE FtpMeaning(r)

Asks(r) ==
    /\ Len(asked) < MaxRequests
    /\ asked' = Append(asked, r)
    /\ wire' = wire \o (IF protocol = "Http" THEN HttpRequestText(r) ELSE FtpRequestText(r))
    /\ UNCHANGED <<protocol, receiving, understood, replies, stream>>

-----------------------------------------------------------------------------
(* The server. *)
EndOfHeader == CRLF \o CRLF

(* The end of what the next request is cut at: the first line for FTP, and *)
(* for HTTP the first empty line after it.                                 *)
EndOfLine == find(wire, CRLF, 1) + 1

IsFtp == detectProtocol(SubSeq(wire, 1, EndOfLine)) = "Ftp"

EndOfRequest == IF IsFtp THEN EndOfLine ELSE find(wire, EndOfHeader, EndOfLine + 1) + 3

(* The reads return: both wait until they have found what they look for.   *)
Arrived == receiving /\ EndOfLine <= Len(wire) /\ EndOfRequest <= Len(wire)

(* receiveMessage, and handleHttp for a line that names HTTP.  A request   *)
(* of HTTP that is not valid is the last.                                  *)
Receive ==
    /\ Arrived
    /\ LET text == SubSeq(wire, 1, EndOfRequest)
           request == IF IsFtp THEN FtpParser(text) ELSE HttpParser(text) IN
       /\ understood' = Append(understood, request)
       /\ receiving' = (request # Fault /\ (request = Invalid => IsFtp))
    /\ wire' = SubSeq(wire, EndOfRequest + 1, Len(wire))
    /\ UNCHANGED <<protocol, asked, replies, stream>>

Sends(text, says) ==
    /\ Len(replies) < Len(understood)
    /\ replies' = Append(replies, says)
    /\ stream' = stream \o text
    /\ UNCHANGED <<protocol, asked, wire, receiving, understood>>

(* The statuses and the resources the handlers respond with. *)
RespondsHttp ==
    /\ protocol = "Http"
    /\ \/ \E s \in {100, 200, 201, 400, 404, 500} :
             Sends(HttpText(StatusOnly(s)), [status |-> ToString(s), resource |-> <<>>])
       \/ Sends(HttpText(WithHeaders(401, <<<<"WWW-Authenticate", "Basic">>, <<"Content-Length", "0">>>>)),
                [status |-> ToString(401), resource |-> <<>>])
       \/ \E x \in Resources :
             Sends(HttpText(WithResource(200, x)), [status |-> ToString(200), resource |-> x])

RespondsFtp ==
    /\ protocol = "Ftp"
    /\ \/ Sends(FtpText(FtpResponse(500, <<>>)), [code |-> ToString(500), port |-> 0])
       \/ Sends(FtpText(FtpResponse(331, <<"Please", Sp, "provide", Sp, "password">>)),
                [code |-> ToString(331), port |-> 0])
       \/ \E port \in Ports :
             Sends(FtpText(FtpResponse(227, <<"Entering", Sp>> \o Passive(<<127, 0, 0, 1>>, port))),
                   [code |-> ToString(227), port |-> port])

Next == (\E r \in IF protocol = "Http" THEN HttpRequests ELSE FtpRequests : Asks(r))
          \/ Receive \/ RespondsHttp \/ RespondsFtp

Spec == Init /\ [][Next]_vars

-----------------------------------------------------------------------------
(* How a client tells the responses apart: an HTTP response by its header  *)
(* and the Content-Length in it, without one up to the end of the stream;  *)
(* an FTP reply by its line.                                               *)
HeaderEnd(text, k) == find(text, EndOfHeader, k)

HeaderLines(text, k) == split(SubSeq(text, k, HeaderEnd(text, k) - 1), CRLF)

ResponseEnd(text, k) ==
    LET lines == HeaderLines(text, k)
        lengths == {lines[j][4] : j \in {i \in 2 .. Len(lines) : lines[i][1] = "Content-Length"}}
    IN Min({Len(text)} \cup {HeaderEnd(text, k) + 3 + n : n \in {n \in 0 .. 2^SizeBits - 1 : ToString(n) \in lengths}})

HttpReads(text, k) ==
    [status |-> HeaderLines(text, k)[1][4],
     resource |-> SubSeq(text, HeaderEnd(text, k) + 4, ResponseEnd(text, k))]

HttpResponses(text) ==
    LET from[k \in 1 .. Len(text) + 1] ==
          IF k > Len(text) THEN <<>> ELSE <<HttpReads(text, k)>> \o from[ResponseEnd(text, k) + 1]
    IN from[1]

FtpReads(line) ==
    LET number(word) == CHOOSE n \in 0 .. 255 : ToString(n) = word IN
    [code |-> line[1],
     port |-> IF line[1] # ToString(227) THEN 0
              ELSE 256 * number(line[Len(line) - 3]) + number(line[Len(line) - 1])]

FtpReplies(text) ==
    LET lines == split(text, CRLF) IN [k \in 1 .. Len(lines) - 1 |-> FtpReads(lines[k])]

(* What the code does not promise to understand: an FTP argument that      *)
(* names HTTP or has a blank in it, an empty line; a request of HTTP       *)
(* without any field, a password with a colon, a size that is no int.      *)
Exceptional(r) ==
    IF protocol = "Ftp"
    THEN r.command = <<>> \/ \E k \in 1 .. Len(r.arguments) : Names(r.arguments[k])
                                                               \/ Contains(r.arguments[k], Sp)
    ELSE r.fields = <<>> \/ Contains(r.username \o r.password, 58) \/ r.size >= 2^(IntBits - 1)

Plain(n) == \A k \in 1 .. n : ~Exceptional(asked[k])

(* The server understands each request as the client meant it, whatever    *)
(* was sent before and behind it on the stream: method, key, size and      *)
(* credentials, through base64, blanks, colons and names in either case.   *)
RequestsArrive ==
    \A k \in 1 .. Len(understood) :
        Plain(IF k > Len(asked) THEN Len(asked) ELSE k)
          => k <= Len(asked) /\ understood[k] = Meaning(asked[k])

(* It does not wait for more than the client has sent: the line alone      *)
(* tells an FTP command, which is complete, from a request of HTTP.        *)
NoneIsWaitedFor ==
    receiving /\ Plain(Len(asked)) /\ Len(understood) < Len(asked) => Arrived

(* The client tells the responses apart, and reads in each what the server *)
(* says, whatever the files contain.                                       *)
RepliesArrive ==
    replies = IF protocol = "Http" THEN HttpResponses(stream) ELSE FtpReplies(stream)
=============================================================================
