---------------------------- MODULE MCConversation ----------------------------
(* Requests and files for TLC. *)
EXTENDS Conversation

alice == <<97>>
secret == <<0, 255>>

Http(method, uri, size, fields, username, password) ==
    [method |-> method, uri |-> uri, size |-> size, fields |-> fields,
     username |-> username, password |-> password]

(* Every length of credentials modulo three, an empty password, one with a *)
(* colon; fields in two orders and cases, without a value, and none.       *)
SomeHttpRequests ==
    {Http("GET", "/", 0, <<"Host", "Authorization", "Accept">>, alice, secret),
     Http("GET", "/a", 0, <<"Authorization", "Host">>, alice, <<>>),
     Http("DELETE", "/HTTP", 0, <<"Accept", "Authorization">>, alice, <<97>>),
     Http("GET", "/a", 0, <<"Authorization">>, alice, <<58, 97>>),
     Http("GET", "/a", 0, <<>>, <<>>, <<>>),
     Http("HEAD", "/", 0, <<"Host">>, <<>>, <<>>)}
      \cup {Http("PUT", "/a", n, <<"Host", "Content-Length", "Expect">>, <<>>, <<>>) : n \in {1, 3, 4}}
      \cup {Http("PUT", "/a", n, <<"CONTENT-LENGTH", "Accept">>, <<>>, <<>>) : n \in {0, 2}}

Ftp(command, name, arguments) == [command |-> command, name |-> name, arguments |-> arguments]

SomeFtpRequests ==
    {Ftp(<<"STOR">>, "STOR", <<<<"/a">>>>), Ftp(<<"stor">>, "STOR", <<<<"a">>>>),
     Ftp(<<"PASV">>, "PASV", <<>>), Ftp(<<"USER">>, "USER", <<<<"anonymous">>>>),
     Ftp(<<"REIN">>, "REIN", <<>>), Ftp(<<"RETR">>, "RETR", <<<<"/HTTP">>>>),
     Ftp(<<"RETR">>, "RETR", <<<<"a", " ", "b">>>>), Ftp(<<>>, "", <<>>)}

(* Files that look like parts of a response. *)
SomeResources ==
    {<<>>, <<"x">>, <<"\r", "\n", "\r", "\n">>, HttpText(StatusOnly(404)),
     <<"Content-Length", ":", " ", "0", "\r", "\n">>, Listing(<<"/a", "/b">>)}

(* Ports around the carry between their bytes. *)
SomePorts == {1, 255, 256, 511, 65535}
=============================================================================
