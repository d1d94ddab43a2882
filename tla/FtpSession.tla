------------------------------ MODULE FtpSession ------------------------------
(***************************************************************************)
(* One FTP session (server::object_storage::Session): the command handlers *)
(* of ftp_command_handlers.cpp, which run on the strand serializer_, and   *)
(* the data connections of session.cpp, whose handlers run on the strand   *)
(* ftp_data_serializer_.  The strands share no variable of the session and *)
(* each runs one handler at a time, so a handler is one step; between two  *)
(* of them come the client, the sockets and the other sessions.            *)
(*                                                                         *)
(* Text is made of the pieces that are told apart: "/d/a" is the sequence  *)
(* <<"/", "d", "/", "a">>.  A byte of an upload is <<transfer, position>>. *)
(* Replies are in the order of sendMessage, which ReplyChannel justifies.  *)
(***************************************************************************)
EXTENDS Naturals, Sequences, FiniteSets

CONSTANTS Commands,       \* the commands the client sends
          Names,          \* usernames it sends with USER
          Known,          \* usernames in the UserDatabase
          Arguments,      \* paths it sends with RETR, STOR, DELE and CWD
          NoArgument,     \* there are not two tokens on the line
          Nobody,         \* logged_in_user_ holds no value
          Pipelining,     \* the client sends commands during a transfer
          Aborts,         \* the client resets connections, or leaves
          Others,         \* other sessions add and remove files
          BufferSize,     \* bytes a read of the data socket waits for
          MaxUpload,      \* bound: bytes of an upload
          MaxBacklog,     \* bound: connections waiting to be accepted
          MaxCommands,    \* bound: commands of the client
          MaxTransfers    \* bound: commands that open a data connection

ASSUME NobodyAssumption == Nobody \notin Names

ASSUME ArgumentAssumption == NoArgument \notin Arguments /\ NoArgument \notin Names

ASSUME BoundsAssumption ==
    /\ BufferSize \in Nat \ {0}
    /\ {MaxUpload, MaxBacklog, MaxCommands, MaxTransfers} \subseteq Nat

VARIABLES
    \* the control strand
    last_ftp_command_, last_username_, logged_in_user_, current_working_dir_,
    commands,          \* how many commands have been handled
    reply,             \* the code of the reply the last of them sent first
    eof,               \* the client has closed the control connection
    \* ftp_data_acceptor_
    acceptor,          \* "closed", "open" or "listening"
    accepts,           \* transfers whose async_accept is pending
    backlog,           \* connections the client has made, not yet accepted
    \* the data strand
    strand,            \* ftp_data_serializer_: handlers that wait to run
    ftp_data_buffer_,  \* files to send, each ended by Null
    ftp_data_socket_,  \* the transfer of the last socket accepted
    transfers,         \* the transfers begun: command, argument, path, data
    reads, writes,     \* async_read and async_write in progress
    closed,            \* transfers whose socket the server has closed
    file,              \* what has been received of an upload
    final,             \* the final replies of a transfer
    \* the client's end of the data connections
    sent,              \* bytes of an upload sent
    fin,               \* "open", "eof" or "reset"
    received,          \* what a download has brought
    fs                 \* the filesystem, shared with other sessions

login == <<last_username_, logged_in_user_, current_working_dir_>>
accepting == <<acceptor, accepts, backlog>>
streams == <<ftp_data_buffer_, ftp_data_socket_, reads, writes, closed, file, final>>
client == <<eof, sent, fin, received>>

vars == <<last_ftp_command_, login, commands, reply, client, accepting,
          strand, streams, transfers, fs>>

Ids == 1 .. MaxTransfers

Null == <<>>     \* shared_ptr<File>{}: the end of a transmission

Handler(h, i, x) == [do |-> h, id |-> i, arg |-> x]

OtherFile == <<<<0, 1>>>>

Init ==
    /\ last_ftp_command_ = "Unrecognized" /\ last_username_ = Nobody
    /\ logged_in_user_ = Nobody /\ current_working_dir_ = <<"/">>
    /\ commands = 0 /\ reply = 220 /\ eof = FALSE
    /\ acceptor = "closed" /\ accepts = <<>> /\ backlog = 0
    /\ strand = <<>> /\ ftp_data_buffer_ = <<>> /\ ftp_data_socket_ = 0
    /\ transfers = <<>> /\ reads = {} /\ writes = {} /\ closed = {}
    /\ file = [i \in Ids |-> <<>>] /\ final = [i \in Ids |-> <<>>]
    /\ sent = [i \in Ids |-> 0] /\ fin = [i \in Ids |-> "open"]
    /\ received = [i \in Ids |-> <<>>]
    /\ fs = [p \in {} |-> OtherFile]

-----------------------------------------------------------------------------
(* The map of fs::MemoryFs, whose operations are atomic (see MemoryFs). *)

Stored(p) == p \in DOMAIN fs

add(p, f) == fs' = IF Stored(p) THEN fs ELSE [q \in DOMAIN fs \cup {p} |-> IF q = p THEN f ELSE fs[q]]

remove(p) == fs' = [q \in DOMAIN fs \ {p} |-> fs[q]]

(* UserDatabase::verify: "anonymous" needs no password. *)
verify(name, password) == name = "anonymous" \/ (name \in Known /\ password = "right")

(* The socket of transfer i lives as long as a handler, a read or a write  *)
(* holds it; its destructor closes it.                                     *)
HeldBy(queue, i) ==
    \/ i \in reads
    \/ \E w \in writes : w.id = i
    \/ \E k \in 1 .. Len(queue) :
          queue[k].id = i /\ queue[k].do \notin {"aborted", "save", "close"}

Open(i) == HeldBy(strand, i) /\ i \notin closed

-----------------------------------------------------------------------------
(* The commands.  A transfer is over for the client when it has its final  *)
(* reply; it gives one up by resetting its connection.                     *)
Settled == \A i \in 1 .. Len(transfers) : final[i] # <<>> \/ fin[i] = "reset"

(* receiveMessage and handleFtp around every handler.  last_ftp_command_   *)
(* is set after the handler, whatever the handler has set it to.  A client *)
(* that does not pipeline asks for another port, if for anything, before a *)
(* transfer has ended.                                                     *)
handleFtp(c) ==
    /\ ~eof /\ c \in Commands /\ commands < MaxCommands
    /\ Pipelining \/ Settled \/ c = "Pasv"
    /\ commands' = commands + 1
    /\ last_ftp_command_' = c
    /\ UNCHANGED <<client, streams>>

LoggedIn == logged_in_user_ # Nobody

KeepTransfers == UNCHANGED <<accepting, strand, transfers>>

Refuse(code) ==
    /\ reply' = code
    /\ KeepTransfers
    /\ UNCHANGED <<login, fs>>

(* parser.isValid() is false: last_ftp_command_ stays *)
Unrecognized ==
    /\ ~eof /\ "Unrecognized" \in Commands /\ commands < MaxCommands
    /\ Pipelining \/ Settled
    /\ commands' = commands + 1
    /\ Refuse(500)
    /\ UNCHANGED <<last_ftp_command_, client, streams>>

(* Mistake: a USER keeps the user that is logged in. *)
UserKeepsLogin(name) ==
    /\ handleFtp("User")
    /\ IF name = NoArgument
       THEN reply' = 501 /\ UNCHANGED last_username_
       ELSE reply' = 331 /\ last_username_' = name
    /\ KeepTransfers
    /\ UNCHANGED <<logged_in_user_, current_working_dir_, fs>>

User(name) ==
    /\ handleFtp("User")
    /\ logged_in_user_' = Nobody
    /\ IF name = NoArgument
       THEN reply' = 501 /\ UNCHANGED last_username_
       ELSE reply' = 331 /\ last_username_' = name
    /\ KeepTransfers
    /\ UNCHANGED <<current_working_dir_, fs>>

Pass(password) ==
    /\ handleFtp("Pass")
    /\ \/ last_ftp_command_ # "User" /\ Refuse(503)
       \/ last_ftp_command_ = "User" /\ password = NoArgument /\ Refuse(501)
       \/ /\ last_ftp_command_ = "User" /\ password # NoArgument
          /\ ~verify(last_username_, password)
          /\ Refuse(530)
       \/ /\ last_ftp_command_ = "User" /\ password # NoArgument
          /\ verify(last_username_, password)
          /\ logged_in_user_' = last_username_
          /\ reply' = 230
          /\ KeepTransfers
          /\ UNCHANGED <<last_username_, current_working_dir_, fs>>

Type ==
    /\ handleFtp("Type")
    /\ Refuse(IF LoggedIn THEN 200 ELSE 530)

Quit ==
    /\ handleFtp("Quit")
    /\ logged_in_user_' = Nobody /\ last_username_' = Nobody
    /\ current_working_dir_' = <<"/">>
    /\ reply' = 221
    /\ KeepTransfers
    /\ UNCHANGED fs

Cwd(arg) ==
    /\ handleFtp("Cwd")
    /\ \/ ~LoggedIn /\ Refuse(530)
       \/ LoggedIn /\ arg = NoArgument /\ Refuse(501)
       \/ /\ LoggedIn /\ arg # NoArgument
          /\ current_working_dir_' = current_working_dir_ \o arg \o <<"/">>
          /\ reply' = 250
          /\ KeepTransfers
          /\ UNCHANGED <<last_username_, logged_in_user_, fs>>

Dele(arg) ==
    /\ handleFtp("Dele")
    /\ \/ ~LoggedIn /\ Refuse(530)
       \/ LoggedIn /\ ~Stored(arg) /\ Refuse(550)
       \/ /\ LoggedIn /\ Stored(arg)
          /\ remove(arg)
          /\ reply' = 250
          /\ KeepTransfers
          /\ UNCHANGED login

(* async_accept on ftp_data_acceptor_.  It fails at once when the acceptor *)
(* is closed (bad descriptor) or does not listen (invalid argument), and   *)
(* it may at any time: no descriptor is left.                              *)
StartTransfer(cmd, arg, path, data) ==
    /\ Len(transfers) < MaxTransfers
    /\ transfers' = Append(transfers, [cmd |-> cmd, arg |-> arg, path |-> path, data |-> data])
    /\ LET i == Len(transfers) + 1 IN
       \/ acceptor = "listening" /\ accepts' = Append(accepts, i) /\ UNCHANGED strand
       \/ strand' = Append(strand, Handler("aborted", i, Null)) /\ UNCHANGED accepts
    /\ reply' = 150
    /\ UNCHANGED <<login, acceptor, backlog, fs>>

List ==
    /\ handleFtp("List")
    /\ \/ ~LoggedIn /\ Refuse(530)
       \/ LoggedIn /\ StartTransfer("List", <<>>, <<>>, [listing |-> DOMAIN fs])

PathOf(arg) == current_working_dir_ \o arg

(* Mistake: a file that is not found is announced and sent all the same. *)
RetrRegardless(arg) ==
    /\ handleFtp("Retr")
    /\ \/ ~LoggedIn /\ Refuse(530)
       \/ LoggedIn /\ acceptor = "closed" /\ Refuse(425)
       \/ /\ LoggedIn /\ acceptor # "closed" /\ ~Stored(PathOf(arg))
          /\ reply' = 550
          /\ transfers' = Append(transfers, [cmd |-> "Retr", arg |-> arg, path |-> PathOf(arg),
                                             data |-> [contents |-> <<>>]])
          /\ Len(transfers) < MaxTransfers
          /\ accepts' = Append(accepts, Len(transfers) + 1)
          /\ UNCHANGED <<login, acceptor, backlog, fs, strand>>

(* The file is copied when the command is handled, not when it is sent.    *)
(* RETR and DELE read tokens[1] unchecked: they are modelled with the      *)
(* argument only.                                                          *)
Retr(arg) ==
    /\ handleFtp("Retr")
    /\ \/ ~LoggedIn /\ Refuse(530)
       \/ LoggedIn /\ acceptor = "closed" /\ Refuse(425)
       \/ LoggedIn /\ acceptor # "closed" /\ ~Stored(PathOf(arg)) /\ Refuse(550)
       \/ /\ LoggedIn /\ acceptor # "closed" /\ Stored(PathOf(arg))
          /\ StartTransfer("Retr", arg, PathOf(arg), [contents |-> fs[PathOf(arg)]])

Stor(arg) ==
    /\ handleFtp("Stor")
    /\ \/ ~LoggedIn /\ Refuse(530)
       \/ LoggedIn /\ arg = NoArgument /\ Refuse(501)
       \/ LoggedIn /\ arg # NoArgument /\ acceptor = "closed" /\ Refuse(425)
       \/ /\ LoggedIn /\ arg # NoArgument /\ acceptor # "closed"
          /\ StartTransfer("Stor", arg, PathOf(arg), Null)

(* Closing the acceptor cancels its accepts and resets its backlog. *)
Cancelled == [k \in 1 .. Len(accepts) |-> Handler("aborted", accepts[k], Null)]

(* configureDataAcceptor: open, bind or listen may fail and leave the      *)
(* acceptor as far as it has come.                                         *)
Pasv ==
    /\ handleFtp("Pasv")
    /\ \/ ~LoggedIn /\ Refuse(530)
       \/ /\ LoggedIn
          /\ \/ acceptor' = "listening" /\ reply' = 227
             \/ acceptor' \in {"closed", "open"} /\ reply' = 421
          /\ accepts' = <<>> /\ backlog' = 0
          /\ strand' = strand \o Cancelled
          /\ UNCHANGED <<login, transfers, fs>>

(* The client closes the control connection. *)
Leave ==
    /\ Aborts /\ ~eof
    /\ eof' = TRUE
    /\ UNCHANGED <<last_ftp_command_, login, commands, reply, sent, fin, received,
                   accepting, strand, streams, transfers, fs>>

(* receiveMessage reads the end of the stream, closes the acceptor, posts  *)
(* closeFtpDataSocket and reads again, for ever.  Bound: one such round at *)
(* a time.                                                                 *)
ReceiveFails ==
    /\ eof
    /\ \A k \in 1 .. Len(strand) : strand[k].do # "close"
    /\ acceptor' = "closed" /\ accepts' = <<>> /\ backlog' = 0
    /\ strand' = strand \o Cancelled \o <<Handler("close", 0, Null)>>
    /\ UNCHANGED <<last_ftp_command_, login, commands, reply, client, streams, transfers, fs>>

-----------------------------------------------------------------------------
(* The data strand.  Every handler takes itself off the queue and posts    *)
(* others behind it.                                                       *)
First == strand[1]

Runs(h) == strand # <<>> /\ First.do = h

ThenPosts(queue) == strand' = Tail(strand) \o queue

KeepControl == UNCHANGED <<last_ftp_command_, login, commands, reply, accepting, transfers>>

sendFinal(i, code) == final' = [final EXCEPT ![i] = Append(@, code)]

(* ftp_data_socket_ is a weak_ptr: it is closed if something holds it.     *)
closeFtpDataSocket ==
    closed' = IF HeldBy(Tail(strand), ftp_data_socket_) THEN closed \cup {ftp_data_socket_} ELSE closed

(* Mistake: a cancelled accept is not reported. *)
AbortedSilently ==
    /\ Runs("aborted")
    /\ ThenPosts(<<>>)
    /\ UNCHANGED <<streams, fs, client>>
    /\ KeepControl

(* The error branch of every accept handler. *)
Aborted ==
    /\ Runs("aborted")
    /\ sendFinal(First.id, 426)
    /\ ThenPosts(<<>>)
    /\ UNCHANGED <<ftp_data_buffer_, ftp_data_socket_, reads, writes, closed, file, fs, client>>
    /\ KeepControl

(* The accept handlers of LIST and RETR, and of STOR (acceptFile). *)
Accepted ==
    /\ Runs("accepted")
    /\ LET i == First.id IN
       /\ ftp_data_socket_' = i
       /\ \/ /\ transfers[i].cmd \in {"List", "Retr"}
             /\ ThenPosts(<<Handler("enqueue", i, <<transfers[i].data>>), Handler("enqueue", i, Null)>>)
             /\ UNCHANGED reads
          \/ /\ transfers[i].cmd = "Stor"
             /\ ThenPosts(<<>>)
             /\ reads' = reads \cup {i}
    /\ UNCHANGED <<ftp_data_buffer_, writes, closed, file, final, fs, client>>
    /\ KeepControl

(* Mistake: the queue is sent only once there is something after it. *)
EnqueueLate ==
    /\ Runs("enqueue")
    /\ ftp_data_buffer_' = Append(ftp_data_buffer_, First.arg)
    /\ ThenPosts(IF Len(ftp_data_buffer_) = 2 THEN <<Handler("send", First.id, Null)>> ELSE <<>>)
    /\ UNCHANGED <<ftp_data_socket_, reads, writes, closed, file, final, fs, client>>
    /\ KeepControl

(* enqueueFtpDataHandler *)
Enqueue ==
    /\ Runs("enqueue")
    /\ ftp_data_buffer_' = Append(ftp_data_buffer_, First.arg)
    /\ ThenPosts(IF ftp_data_buffer_ = <<>> THEN <<Handler("send", First.id, Null)>> ELSE <<>>)
    /\ UNCHANGED <<ftp_data_socket_, reads, writes, closed, file, final, fs, client>>
    /\ KeepControl

(* sendFtpDataHandler: write the front of the queue, or end. *)
Send ==
    /\ Runs("send")
    /\ LET i == First.id
           data == Head(ftp_data_buffer_) IN
       \/ /\ data # Null
          /\ writes' = writes \cup {[id |-> i, data |-> data]}
          /\ UNCHANGED <<ftp_data_buffer_, closed, final>>
       \/ /\ data = Null
          /\ ftp_data_buffer_' = Tail(ftp_data_buffer_)
          /\ closed' = closed \cup {i}
          /\ sendFinal(i, 226)
          /\ UNCHANGED writes
    /\ ThenPosts(<<>>)
    /\ UNCHANGED <<ftp_data_socket_, reads, file, fs, client>>
    /\ KeepControl

(* Mistake: a failed write is reported, and the queue goes on to its end.  *)
WrittenReports ==
    /\ Runs("written")
    /\ ftp_data_buffer_' = Tail(ftp_data_buffer_)
    /\ ThenPosts(IF Tail(ftp_data_buffer_) # <<>> THEN <<Handler("send", First.id, Null)>> ELSE <<>>)
    /\ IF First.arg = "ok" THEN UNCHANGED final ELSE sendFinal(First.id, 426)
    /\ UNCHANGED <<ftp_data_socket_, reads, writes, closed, file, fs, client>>
    /\ KeepControl

(* Mistake: a failed write goes on with the queue. *)
WrittenRegardless ==
    /\ Runs("written")
    /\ ftp_data_buffer_' = Tail(ftp_data_buffer_)
    /\ ThenPosts(IF Tail(ftp_data_buffer_) # <<>> THEN <<Handler("send", First.id, Null)>> ELSE <<>>)
    /\ UNCHANGED <<ftp_data_socket_, reads, writes, closed, file, final, fs, client>>
    /\ KeepControl

(* Its completion handler.  After an error what is queued stays queued,    *)
(* and no reply is sent.                                                   *)
Written ==
    /\ Runs("written")
    /\ ftp_data_buffer_' = Tail(ftp_data_buffer_)
    /\ ThenPosts(IF First.arg = "ok" /\ Tail(ftp_data_buffer_) # <<>>
                 THEN <<Handler("send", First.id, Null)>> ELSE <<>>)
    /\ UNCHANGED <<ftp_data_socket_, reads, writes, closed, file, final, fs, client>>
    /\ KeepControl

(* Mistake: the part of the buffer a failed read has filled is dropped. *)
ReadDropsRest ==
    /\ Runs("read")
    /\ LET i == First.id IN
       IF First.arg.ok
       THEN /\ reads' = reads \cup {i}
            /\ file' = [file EXCEPT ![i] = @ \o First.arg.bytes]
            /\ ThenPosts(<<>>)
       ELSE ThenPosts(<<Handler("save", i, Null)>>) /\ UNCHANGED <<reads, file>>
    /\ UNCHANGED <<ftp_data_buffer_, ftp_data_socket_, writes, closed, final, fs, client>>
    /\ KeepControl

(* Mistake: the bytes of the buffer are put before those already there. *)
ReadPrepends ==
    /\ Runs("read")
    /\ LET i == First.id IN
       /\ file' = [file EXCEPT ![i] = First.arg.bytes \o @]
       /\ IF First.arg.ok
          THEN reads' = reads \cup {i} /\ ThenPosts(<<>>)
          ELSE ThenPosts(<<Handler("save", i, Null)>>) /\ UNCHANGED reads
    /\ UNCHANGED <<ftp_data_buffer_, ftp_data_socket_, writes, closed, final, fs, client>>
    /\ KeepControl

(* receiveFile's handler: a full buffer is followed by another read; any   *)
(* error, the end of the stream among them, saves what has come.           *)
Read ==
    /\ Runs("read")
    /\ LET i == First.id IN
       /\ file' = [file EXCEPT ![i] = @ \o First.arg.bytes]
       /\ IF First.arg.ok
          THEN reads' = reads \cup {i} /\ ThenPosts(<<>>)
          ELSE ThenPosts(<<Handler("save", i, Null)>>) /\ UNCHANGED reads
    /\ UNCHANGED <<ftp_data_buffer_, ftp_data_socket_, writes, closed, final, fs, client>>
    /\ KeepControl

(* saveFile *)
Save ==
    /\ Runs("save")
    /\ LET i == First.id
           path == transfers[i].path IN
       /\ add(path, file[i])
       /\ sendFinal(i, IF Stored(path) THEN 450 ELSE 226)
    /\ closeFtpDataSocket
    /\ ThenPosts(<<>>)
    /\ UNCHANGED <<ftp_data_buffer_, ftp_data_socket_, reads, writes, file, client>>
    /\ KeepControl

(* What receiveMessage posts when the control connection has failed. *)
Close ==
    /\ Runs("close")
    /\ closeFtpDataSocket
    /\ ThenPosts(<<>>)
    /\ UNCHANGED <<ftp_data_buffer_, ftp_data_socket_, reads, writes, file, final, fs, client>>
    /\ KeepControl

DataStrand ==
    Aborted \/ Accepted \/ Enqueue \/ Send \/ Written \/ Read \/ Save \/ Close

-----------------------------------------------------------------------------
(* The sockets.  A completed operation has its handler dispatched to the   *)
(* data strand.                                                            *)
KeepSession ==
    UNCHANGED <<last_ftp_command_, login, commands, reply, acceptor, transfers, fs,
                ftp_data_buffer_, ftp_data_socket_, closed, file, final>>

Dispatch(h, i, x) == strand' = Append(strand, Handler(h, i, x))

Connect ==
    /\ acceptor = "listening" /\ backlog < MaxBacklog
    /\ backlog' = backlog + 1
    /\ UNCHANGED <<accepts, strand, reads, writes, client>>
    /\ KeepSession

(* Connections meet the pending accepts in their order, or an accept fails *)
(* and leaves its connection where it is; when several have been met, the  *)
(* workers dispatch their handlers in any order.                           *)
Accept ==
    /\ \E k \in 1 .. Len(accepts) :
          /\ k <= backlog
          /\ accepts' = SubSeq(accepts, 1, k - 1) \o SubSeq(accepts, k + 1, Len(accepts))
          /\ \/ Dispatch("accepted", accepts[k], Null) /\ backlog' = backlog - 1
             \/ Dispatch("aborted", accepts[k], Null) /\ UNCHANGED backlog
    /\ UNCHANGED <<reads, writes, client>>
    /\ KeepSession

(* A write of no bytes touches no connection: it succeeds. *)
Blank(data) == data = <<[listing |-> {}]>> \/ data = <<[contents |-> <<>>]>>

(* async_write sends all of a file, or fails when the connection is reset  *)
(* or closed.  What a reset connection was sent has not arrived.           *)
WriteDone ==
    /\ \E w \in writes :
          /\ writes' = writes \ {w}
          /\ \/ /\ w.id \notin closed \/ Blank(w.data)
                /\ received' = [received EXCEPT ![w.id] = IF fin[w.id] = "reset" THEN @ ELSE @ \o w.data]
                /\ Dispatch("written", w.id, "ok")
             \/ /\ w.id \in closed \/ fin[w.id] = "reset"
                /\ ~Blank(w.data)
                /\ Dispatch("written", w.id, "failed")
                /\ UNCHANGED received
    /\ UNCHANGED <<accepts, backlog, reads, eof, sent, fin>>
    /\ KeepSession

(* What the client has sent of an upload. *)
Upload(i) == [k \in 1 .. sent[i] |-> <<i, k>>]

(* async_read fills the buffer, or ends with what has come: all of it at   *)
(* the end of the stream, some of it after a reset or a close.             *)
ReadDone(i) ==
    /\ i \in reads
    /\ reads' = reads \ {i}
    /\ \E n \in 0 .. BufferSize :
          LET had == Len(file[i])
              bytes == SubSeq(Upload(i), had + 1, had + n) IN
          /\ had + n <= sent[i]
          /\ \/ /\ n = BufferSize /\ i \notin closed
                /\ Dispatch("read", i, [ok |-> TRUE, bytes |-> bytes])
             \/ /\ n < BufferSize
                /\ (fin[i] = "eof" /\ had + n = sent[i]) \/ fin[i] = "reset" \/ i \in closed
                /\ Dispatch("read", i, [ok |-> FALSE, bytes |-> bytes])
    /\ UNCHANGED <<accepts, backlog, writes, client>>
    /\ KeepSession

Network == Connect \/ Accept \/ WriteDone \/ \E i \in Ids : ReadDone(i)

-----------------------------------------------------------------------------
(* The client's end of its data connections, and the other sessions. *)
ClientSends(i) ==
    /\ Open(i) /\ transfers[i].cmd = "Stor"
    /\ fin[i] = "open" /\ sent[i] < MaxUpload
    /\ sent' = [sent EXCEPT ![i] = @ + 1]
    /\ UNCHANGED <<eof, fin, received, accepts, backlog, strand, reads, writes>>
    /\ KeepSession

(* The upload is complete. *)
ClientEnds(i) ==
    /\ Open(i) /\ transfers[i].cmd = "Stor"
    /\ fin[i] = "open"
    /\ fin' = [fin EXCEPT ![i] = "eof"]
    /\ UNCHANGED <<eof, sent, received, accepts, backlog, strand, reads, writes>>
    /\ KeepSession

ClientResets(i) ==
    /\ Aborts /\ Open(i)
    /\ fin[i] = "open"
    /\ fin' = [fin EXCEPT ![i] = "reset"]
    /\ UNCHANGED <<eof, sent, received, accepts, backlog, strand, reads, writes>>
    /\ KeepSession

(* Another session changes the filesystem. *)
Elsewhere ==
    /\ Others
    /\ \E p \in {PathOf(a) : a \in Arguments} : add(p, OtherFile) \/ remove(p)
    /\ UNCHANGED <<last_ftp_command_, login, commands, reply, client, accepting,
                   strand, streams, transfers>>

-----------------------------------------------------------------------------
Command ==
    \/ Unrecognized \/ Type \/ Quit \/ List \/ Pasv
    \/ \E name \in Names \cup {NoArgument} : User(name)
    \/ \E password \in {"right", "wrong", NoArgument} : Pass(password)
    \/ \E arg \in Arguments : Retr(arg) \/ Dele(arg)
    \/ \E arg \in Arguments \cup {NoArgument} : Stor(arg) \/ Cwd(arg)

Next ==
    \/ Command \/ Leave \/ ReceiveFails
    \/ DataStrand
    \/ Network
    \/ \E i \in Ids : ClientSends(i) \/ ClientEnds(i) \/ ClientResets(i)
    \/ Elsewhere

(* The workers run every handler of the strand and complete every          *)
(* operation that can be; a client that has been told to (150) connects,   *)
(* and ends its uploads.                                                   *)
Spec ==
    /\ Init /\ [][Next]_vars
    /\ WF_vars(DataStrand) /\ WF_vars(Connect) /\ WF_vars(Accept) /\ WF_vars(WriteDone)
    /\ \A i \in Ids : WF_vars(ReadDone(i)) /\ WF_vars(ClientEnds(i))

-----------------------------------------------------------------------------
IsPrefix(s, t) == Len(s) <= Len(t) /\ s = SubSeq(t, 1, Len(s))

Elements(q) == {q[k] : k \in 1 .. Len(q)}

Begun == 1 .. Len(transfers)

Kinds == {"aborted", "accepted", "enqueue", "send", "written", "read", "save", "close"}

(* Every variable keeps to its values; nothing is pending or open for a    *)
(* transfer that was not begun; what is received of an upload is the       *)
(* beginning of it, each byte once and in its place.                       *)
TypeOK ==
    /\ last_ftp_command_ \in Commands \cup {"Unrecognized"}
    /\ last_username_ \in Names \cup {Nobody} /\ logged_in_user_ \in Names \cup {Nobody}
    /\ commands \in 0 .. MaxCommands /\ eof \in BOOLEAN
    /\ acceptor \in {"closed", "open", "listening"} /\ backlog \in 0 .. MaxBacklog
    /\ transfers \in Seq(Elements(transfers)) /\ Len(transfers) \in 0 .. MaxTransfers
    /\ accepts \in Seq(Begun)
    /\ strand \in Seq(Elements(strand))
    /\ \A k \in 1 .. Len(strand) :
          strand[k].do \in Kinds /\ strand[k].id \in IF strand[k].do = "close" THEN {0} ELSE Begun
    /\ ftp_data_buffer_ \in Seq(Elements(ftp_data_buffer_))
    /\ ftp_data_socket_ \in 0 .. Len(transfers)
    /\ reads \subseteq Begun /\ closed \subseteq Begun /\ {w.id : w \in writes} \subseteq Begun
    /\ fin \in [Ids -> {"open", "eof", "reset"}] /\ sent \in [Ids -> 0 .. MaxUpload]
    /\ file \in [Ids -> Seq(Ids \X Nat)] /\ final \in [Ids -> Seq({226, 426, 450})]
    /\ DOMAIN received = Ids
    /\ \A i \in Ids : IsPrefix(file[i], Upload(i))

(* The user logged in is the one the last USER has named, and is known or  *)
(* needs no password: no sequence of USER, PASS, QUIT and rejected         *)
(* commands leaves an earlier login, or one that was not verified.         *)
LoginIsVerified ==
    LoggedIn => logged_in_user_ = last_username_ /\ logged_in_user_ \in Known \cup {"anonymous"}

(* A command that is refused leaves the files, the transfers and the data  *)
(* port alone.                                                             *)
RefusedChangesNothing ==
    [][commands' # commands /\ reply' \in {425, 500, 501, 503, 530, 550}
         => UNCHANGED <<fs, transfers, accepting, strand, current_working_dir_>>]_vars

(* A transfer has one final reply. *)
OneFinalReply == \A i \in Ids : Len(final[i]) <= 1

(* A download's connection brings that download's data and nothing else,   *)
(* and when 226 acknowledges it the client has all of it, unless it reset  *)
(* the connection itself.                                                  *)
DownloadsArrive ==
    \A i \in 1 .. Len(transfers) :
        transfers[i].cmd # "Stor" =>
           /\ received[i] \in {<<>>, <<transfers[i].data>>}
           /\ final[i] = <<226>> /\ fin[i] # "reset" => received[i] # <<>>

(* A file that appears is the beginning of one upload to that path: never  *)
(* of two, never out of order.                                             *)
StoredFilesAreUploads ==
    [][\A p \in DOMAIN fs' \ DOMAIN fs :
          fs'[p] = OtherFile \/
          \E i \in 1 .. Len(transfers) : transfers[i].path = p /\ IsPrefix(fs'[p], Upload(i))]_vars

(* A file that appears is the whole of an upload (the tests compare every  *)
(* file they have stored with the one they sent).                          *)
StoredFilesAreWhole ==
    [][\A p \in DOMAIN fs' \ DOMAIN fs :
          fs'[p] = OtherFile \/
          \E i \in 1 .. Len(transfers) :
             transfers[i].path = p /\ fin[i] = "eof" /\ fs'[p] = Upload(i)]_vars

(* Enqueueing triggers the send handler only if there are no pending       *)
(* writes, which it takes the queue's not being empty for: so whenever the *)
(* queue is not empty a write must be pending (session.cpp:247).           *)
QueuedIsPending ==
    ftp_data_buffer_ # <<>> =>
        writes # {} \/ \E k \in 1 .. Len(strand) : strand[k].do \in {"send", "written"}

(* Every transfer announced with 150 gets its final reply. *)
TransfersEnd == \A i \in Ids : Len(transfers) >= i ~> final[i] # <<>>

-----------------------------------------------------------------------------
(* The invariants behind them.                                             *)
Queues(h) == h.do = "enqueue" /\ h.arg # Null

EndsQueue(h) == h.do = "enqueue" /\ h.arg = Null

(* A handler that gives the transfer its final reply, or leads to it.      *)
Drives(h) == h.do # "close" /\ ~EndsQueue(h)

Driving == {k \in 1 .. Len(strand) : Drives(strand[k])}

Handled == {strand[k].id : k \in Driving}

Writing == {w.id : w \in writes}

(* A transfer that is under way is so in one place: an accept, a handler,  *)
(* a read or a write; it has no final reply.                               *)
AtOnePlace ==
    /\ \A j, k \in 1 .. Len(accepts) : accepts[j] = accepts[k] => j = k
    /\ \A j, k \in Driving : strand[j].id = strand[k].id => j = k
    /\ Elements(accepts) \cap (Handled \cup reads \cup Writing) = {}
    /\ Handled \cap (reads \cup Writing) = {}
    /\ reads \cap Writing = {}
    /\ \A i \in Elements(accepts) \cup Handled \cup reads \cup Writing : final[i] = <<>>

Uploading == {"read", "save"}

Downloading == {"enqueue", "send", "written"}

(* Uploads are read and saved, downloads are queued and written; what a    *)
(* read has brought continues what had come before.                        *)
ByCommand ==
    /\ \A i \in reads : transfers[i].cmd = "Stor"
    /\ \A i \in Writing : transfers[i].cmd # "Stor"
    /\ \A k \in 1 .. Len(strand) :
          LET h == strand[k] IN
          /\ h.do \in Uploading => transfers[h.id].cmd = "Stor"
          /\ h.do \in Downloading => transfers[h.id].cmd # "Stor"
          /\ h.do = "read" =>
                /\ h.arg.bytes \in Seq(Ids \X Nat)
                /\ IsPrefix(file[h.id] \o h.arg.bytes, Upload(h.id))
          /\ h.do = "enqueue" => h.arg \in {<<transfers[h.id].data>>, Null}

(* The end of a transmission is queued next after its data. *)
QueuedInPairs ==
    \A k \in 1 .. Len(strand) :
        /\ EndsQueue(strand[k]) => IF k = 1 THEN ftp_data_buffer_ # <<>> ELSE Queues(strand[k - 1])
        /\ Queues(strand[k]) => k < Len(strand) /\ EndsQueue(strand[k + 1])

Chain == {k \in 1 .. Len(strand) : strand[k].do \in {"send", "written"}}

(* The queue begins with the data of transfer i and the end of it. *)
Begins(i) ==
    /\ ftp_data_buffer_ # <<>> /\ ftp_data_buffer_[1] = <<transfers[i].data>>
    /\ IF Len(ftp_data_buffer_) = 1 THEN strand # <<>> /\ EndsQueue(strand[1])
                                    ELSE ftp_data_buffer_[2] = Null

Has(i) == received[i] # <<>> \/ fin[i] = "reset"

(* One transfer sends from the queue, and it is the one the queue begins   *)
(* with.                                                                   *)
OneSends ==
    /\ \A j, k \in Chain : j = k
    /\ \A v, w \in writes : v = w
    /\ Chain # {} => writes = {}
    /\ \A k \in Chain :
          LET h == strand[k] IN
          /\ h.do = "send" =>
                \/ Begins(h.id) /\ received[h.id] = <<>>
                \/ ftp_data_buffer_ # <<>> /\ ftp_data_buffer_[1] = Null /\ Has(h.id)
          /\ h.do = "written" =>
                Begins(h.id) /\ Len(ftp_data_buffer_) # 1 /\ (h.arg = "ok" => Has(h.id))
    /\ \A w \in writes :
          /\ w.data = <<transfers[w.id].data>>
          /\ Begins(w.id) /\ Len(ftp_data_buffer_) # 1 /\ received[w.id] = <<>>

(* Nothing was received before it was sent. *)
NotBefore ==
    /\ \A i \in Elements(accepts) \cup reads : received[i] = <<>>
    /\ \A k \in Driving : strand[k].do \notin {"send", "written"} => received[strand[k].id] = <<>>
    /\ \A i \in Ids : i > Len(transfers) => received[i] = <<>> /\ final[i] = <<>>

(* Accepts wait, and connections too, only on an acceptor that listens.    *)
AcceptsHaveAPort ==
    accepts # <<>> \/ backlog > 0 => acceptor = "listening"

IInv ==
    /\ TypeOK /\ AtOnePlace /\ ByCommand /\ QueuedInPairs /\ OneSends /\ NotBefore
    /\ LoginIsVerified /\ AcceptsHaveAPort /\ OneFinalReply /\ DownloadsArrive

(* For a client that begins a command when the transfer before has ended,  *)
(* and resets no connection.                                               *)
Obliging == ~Pipelining /\ ~Aborts

OneByOne ==
    /\ ~eof /\ \A i \in Ids : fin[i] # "reset"
    /\ \A k \in 1 .. Len(strand) : strand[k].do # "close"
    /\ \A i \in Begun : i # Len(transfers) \/ i \in closed => final[i] # <<>>
    /\ QueuedIsPending /\ Len(ftp_data_buffer_) <= 2
    /\ Len(ftp_data_buffer_) = 2 => ftp_data_buffer_[1] # Null
    /\ strand # <<>> /\ EndsQueue(strand[1]) => Len(ftp_data_buffer_) = 1 /\ ftp_data_buffer_[1] # Null
    /\ \A k \in 1 .. Len(strand) :
          LET h == strand[k] IN
          /\ h.do = "written" => h.arg = "ok"
          /\ h.do = "read" /\ ~h.arg.ok => fin[h.id] = "eof" /\ Len(file[h.id] \o h.arg.bytes) = sent[h.id]
          /\ h.do = "save" => fin[h.id] = "eof" /\ file[h.id] = Upload(h.id)

OneByOneInv == IInv /\ OneByOne
=============================================================================
