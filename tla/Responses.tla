------------------------------ MODULE Responses ------------------------------
(***************************************************************************)
(* HttpResponse and FtpResponse, and the texts they are sent as.           *)
(***************************************************************************)
EXTENDS Text, Naturals, TLC

HttpStatus ==
    (100 .. 103) \cup (200 .. 208) \cup {226} \cup (300 .. 305) \cup {307, 308}
      \cup (400 .. 418) \cup (421 .. 426) \cup {428, 429, 431, 451}
      \cup (500 .. 508) \cup {510, 511}

(* Every status has a phrase; which one makes no difference to a client.   *)
kStatusToReason == [s \in HttpStatus |-> <<"reason", Sp, "phrase">>]

HttpResponse(status, headers, resource) ==
    [status |-> status, reason |-> kStatusToReason[status], headers |-> headers, resource |-> resource]

kContentLength(n) == <<"Content-Length", ToString(n)>>

(* Mistake: a response without a resource says nothing of its length. *)
StatusUnsized(status) == HttpResponse(status, <<>>, <<>>)

(* The three constructors the handlers call. *)
StatusOnly(status) == HttpResponse(status, <<kContentLength(0)>>, <<>>)

WithResource(status, resource) ==
    HttpResponse(status,
                 <<<<"Content-Type", "application/octet-stream">>, kContentLength(Len(resource))>>,
                 resource)

WithHeaders(status, headers) == HttpResponse(status, headers, <<>>)

(* HttpResponse::operator std::string. *)
HttpText(r) ==
    LET line(header) == <<header[1], ":", Sp, header[2]>> \o CRLF IN
    <<"HTTP", "/1.1", Sp, ToString(r.status), Sp>> \o r.reason \o CRLF
      \o FlattenSeq([k \in 1 .. Len(r.headers) |-> line(r.headers[k])])
      \o CRLF \o r.resource

(* How GET / and LIST write the paths they have collected. *)
Listing(paths) == FlattenSeq([k \in 1 .. Len(paths) |-> <<paths[k], "\n">>])

-----------------------------------------------------------------------------
FtpReplyCode ==
    {110, 120, 125, 150, 200, 202, 211, 212, 213, 214, 215, 220, 221, 225, 226, 227, 230, 250,
     257, 331, 332, 350, 421, 425, 426, 450, 451, 452, 500, 501, 502, 503, 504, 530, 532, 550,
     551, 552, 553}

(* The reply to a command: every text but that of 227 is a phrase.         *)
FtpResponse(code, text) == [code |-> code, text |-> text]

(* FtpResponse::operator std::string. *)
FtpText(r) == <<ToString(r.code)>> \o Blank \o r.text \o CRLF

Comma == ","

(* What 227 says: the four bytes of the address, the two of the port.      *)
Passive(ip, port) ==
    LET words == ip \o <<(port \div 256) % 256, port % 256>> IN
    <<"(", ToString(words[1])>>
      \o FlattenSeq([k \in 1 .. 5 |-> <<Comma, ToString(words[k + 1])>>]) \o <<")">>
=============================================================================
