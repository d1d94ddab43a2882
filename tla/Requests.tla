------------------------------- MODULE Requests -------------------------------
(***************************************************************************)
(* From the text of a request to what it asks for: the protocol detector   *)
(* and the two parsers.  What they read outside a text or a vector is a    *)
(* Fault: the build may do anything with it.                               *)
(***************************************************************************)
EXTENDS Text, Integers, TLC

CONSTANTS IntBits,     \* width of an int
          SizeBits,    \* width of a size_t
          MaxNumber,   \* bound: the numbers a client writes
          HttpWords    \* the words that have HTTP somewhere in them

ASSUME WidthAssumption ==
    IntBits \in Nat \ {0} /\ SizeBits \in Nat /\ IntBits <= SizeBits /\ MaxNumber \in Nat

ASSUME HttpWordsAssumption ==
    "HTTP" \in HttpWords /\ HttpWords \subseteq STRING \ {Sp, ":", "\r", "\n"}

Fault == [outcome |-> "fault"]
Invalid == [outcome |-> "invalid"]     \* isValid() is false

kCommandMap == {"LIST", "RETR", "STOR", "DELE", "PASS", "USER", "PASV", "TYPE", "CWD", "QUIT"}

(* Mistake: what does not begin with a command is HTTP. *)
detectByCommand(buffer) ==
    IF Head(buffer) \in kCommandMap THEN "Ftp" ELSE "Http"

(* HTTP is what names it in its first line, in a word of its own or within *)
(* another.                                                                *)
Names(text) == \E k \in 1 .. Len(text) : text[k] \in HttpWords

detectProtocol(buffer) ==
    LET header == SubSeq(buffer, 1, find(buffer, CRLF, 1) - 1) IN
    IF Names(header) THEN "Http" ELSE "Ftp"

-----------------------------------------------------------------------------
(* The two last characters go, whatever they are; the first word is the    *)
(* command, in either case.                                                *)
FtpParser(buffer) ==
    LET tokens == split(SubSeq(buffer, 1, Len(buffer) - 2), Blank)
        command == toUpperCase(tokens[1])
    IN IF tokens = <<>> THEN Fault
       ELSE IF command \notin {<<c>> : c \in kCommandMap} THEN Invalid
       ELSE [outcome |-> "valid", command |-> command, arguments |-> Tail(tokens)]

-----------------------------------------------------------------------------
kMethodMap == {"GET", "PUT", "DELETE"}

(* Leading blanks are removed.  In a value of blanks only there is no      *)
(* character to remove them up to, and the arithmetic of the view leaves   *)
(* it one character longer: the colon before it.                           *)
trimmed(value) ==
    LET first == Min({k \in 1 .. Len(value) : value[k] # Sp} \cup {npos(value)}) IN
    IF first = npos(value) THEN Colon \o value ELSE SubSeq(value, first, Len(value))

(* The lines between the request line and the empty line that ends the     *)
(* header.  A field's value ends at its first colon.                       *)
fieldLines(lines) == SubSeq(lines, 2, Len(lines) - 2)

fieldName(line) == toLowerCase(split(line, Colon)[1])

fieldValue(line) == trimmed(split(line, Colon)[2])

(* Of several fields of one name the last one stays. *)
header_fields_(lines) ==
    LET named(name) == {k \in 1 .. Len(lines) : fieldName(lines[k]) = name} IN
    [name \in {fieldName(lines[k]) : k \in 1 .. Len(lines)} |-> fieldValue(lines[Max(named(name))])]

(* operator[] *)
valueOf(fields, name) == {fields[n] : n \in DOMAIN fields \cap {<<name>>}}

(* A number is a word; atoi makes an int of it, and anything else is 0.    *)
(* The resource size is that int as a size_t.                              *)
atoi(value) ==
    LET number == Max({k \in 0 .. MaxNumber : Head(value) = ToString(k)} \cup {0})
        low == number % 2^IntBits
    IN IF low < 2^(IntBits - 1) THEN low ELSE low - 2^IntBits

resource_size(fields) ==
    LET length == valueOf(fields, "content-length") IN
    IF length = {} THEN 0 ELSE atoi(CHOOSE v \in length : TRUE) % 2^SizeBits

(* "Basic", a blank, and in base64 the username, a colon and the password. *)
getAuthInfo(fields) ==
    LET credentials(decoded) ==
          LET user_and_pass == split(decoded, <<58>>) IN
          IF Len(user_and_pass) < 2 THEN Fault
          ELSE [username |-> user_and_pass[1], password |-> user_and_pass[2]]
    IN UNION {LET tokens == split(value, Blank) IN
              IF Len(tokens) < 2 THEN {Fault}
              ELSE {credentials(decoded) : decoded \in decode_base64(tokens[2])}
                : value \in valueOf(fields, "authorization")}

(* The request line gives the method, which must be known, and the URI.    *)
(* Every other line must have a colon.                                     *)
HttpParser(buffer) ==
    LET lines == split(buffer, CRLF)
        tokens == split(lines[1], Blank)
        unparsed == fieldLines(lines)
        fields == header_fields_(unparsed)
    IN IF tokens = <<>> THEN Fault
       ELSE IF tokens[1] \notin {<<m>> : m \in kMethodMap} THEN Invalid
       ELSE IF Len(tokens) < 2 \/ \E k \in 1 .. Len(unparsed) : Len(split(unparsed[k], Colon)) < 2
       THEN Fault
       ELSE [outcome |-> "valid", method |-> tokens[1], uri |-> tokens[2],
             size |-> resource_size(fields),
             expect |-> valueOf(fields, "expect") = {<<"100-continue">>},
             auth |-> getAuthInfo(fields)]
=============================================================================
