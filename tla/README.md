# Verification of the in-memory object storage server

The server (C++17, Boost.Asio) keeps files in memory and serves them over HTTP and FTP
from one port. This directory holds TLA+ models of its concurrent parts, the TLC
configurations that check them on small instances, and TLAPS proofs of the properties
that matter most, for any number of threads, paths, files and messages.

Every definition is translated from the source; `PROJECT.json` ("map") names the lines of
each. Comments that begin with "Mistake:" mark variants of an action with a plausible bug:
no specification uses them, they show that a property can fail (see "Mutants").

## 1. The system

### Components, their state and their operations

| component | source | state | operations |
|---|---|---|---|
| `MemoryFs` | `filesystem/memory_fs` | `fs_` (path to file), `mutex_` (reader/writer lock) | `get`, `add`, `list`, `remove` |
| `UserDatabase` | `user/database` | `users_`, `mutex_` | `add`, `verify` |
| `Session`, control connection | `server/object_storage/src/session.cpp` | `socket_`, `input_stream_`, `output_queue_`, strand `serializer_` | `start`, `receiveMessage`, `sendMessage`, `sendMessageHandler` |
| `Session`, FTP commands | `ftp_command_handlers.cpp` | `last_ftp_command_`, `last_username_`, `logged_in_user_`, `current_working_dir_` | one handler per command |
| `Session`, FTP data connections | `session.cpp` | `ftp_data_acceptor_`, `ftp_data_socket_` (weak), `ftp_data_buffer_`, strand `ftp_data_serializer_` | `acceptFile`, `receiveFile`, `saveFile`, `enqueueFtpDataHandler`, `sendFtpDataHandler`, `closeFtpDataSocket`, `configureDataAcceptor` |
| `Session`, HTTP requests | `http_method_handlers.cpp` | `input_stream_` | `handleHttp`, GET, PUT, DELETE, `authHttpUser` |
| `ObjectStorage` | `object_storage.cpp` | `acceptor_`, `workers_`, `io_service_` | `start`, `stop`, `addUser`, `acceptConnection` |
| parsers, detector, utilities, responses | `protocol/`, `utils/` | none (pure functions) | `FtpParser`, `HttpParser`, `detectProtocol`, `split`, `decode_base64` |
| `example_app` | `example_app.cpp` | none | builds a server, adds a user, starts it |

### How they interact

`thread_count` workers run one `io_service`. Every connection is a `Session`, kept alive by
the handlers that hold it. The handlers of a session are serialised by two strands: commands
and replies on `serializer_`, the data connections on `ftp_data_serializer_`. Handlers of
different strands, and of different sessions, run at the same time on different workers. The
strands of a session share no member, with one exception: replies, which the data strand hands
to the control strand by `sendMessage` (a `post`). All sessions share the `MemoryFs` and the
`UserDatabase`, each behind a lock of its own.

### What is hard

- *Interleaving*: the map under its lock; a reference that outlives the lock; two transfers of
  a session that share one send queue and one "last accepted" socket.
- *Ordering*: one write at a time on the control socket, started from two places.
- *Partial failure*: an aborted download, a reset in an upload, a PASV while accepts are
  pending.
- *One stream, several readers*: lines, headers and bodies of HTTP requests come out of one
  connection by three different reads, one of which looks past the buffer the others fill.
- *Starting a session*: `start` posts `receiveMessage` and goes on using the socket; another
  worker may serve the client meanwhile, before the next accept has begun.
- *Blocking*: a worker waits in `handleHttp` for a header, and `stop` waits for the worker.
- *Protocol order*: USER, PASS, QUIT and commands that are refused, in any order.
- *Boundaries*: uploads that are a multiple of the read buffer, or empty; base64 padding;
  a size that does not fit an `int`.
- *Text*: one connection carries both protocols, so every line is classified by what it
  contains; requests and responses follow one another without any other separator.
- *Two protocols, one store*: an FTP client names a file relative to a directory its session
  keeps, an HTTP client by its whole key; a PUT and a STOR act long after they were admitted;
  users are added while sessions verify credentials.

`PROJECT.json` ("hazards") lists each with its line and the properties that cover it.

### What correct means

- `MemoryFs`: no data race, no exception in a `noexcept` function, and each operation as if it
  happened at one instant; a stored file is never replaced.
- control connection: replies arrive once, in order, all of them unless the connection fails;
  never two writes at a time.
- FTP commands: nobody is logged in without having been verified; a refused command changes
  nothing.
- data connections: a stored file is the file that was sent; a download brings the file and
  nothing else; one final reply for every transfer announced; one transfer does not disturb
  another.
- HTTP requests: each is answered once and in order; a stored file is the body of one PUT;
  files change only for a client whose credentials were verified.
- texts: the server reads in a request what the client meant, wherever it stands in the
  stream, and the client tells the responses apart, whatever the files contain.
- `UserDatabase`: no data race; `verify` answers for one instant of its call; a password once
  added stays.
- the server as a whole: clients of both protocols share one map from keys to files, changed
  only in the name of a verified user.
- server: one accept at a time, one handler that serves a connection at a time, no worker that
  ends while a session is left, every client served, `stop` returns.

## 2. The modules

| module | models | built on |
|---|---|---|
| `FileStore` | the promise of `IFilesystem`: a map whose operations are atomic | |
| `MemoryFs` | `memory_fs.cpp`, one step for every access to the lock or the map | `FileStore` (refined) |
| `MCMemoryFs` | TLC instance: symmetry of the threads | `MemoryFs` |
| `MemoryFsProofs` | proofs | `MemoryFs` |
| `ReplyStream` | the promise of `sendMessage`: a FIFO stream | |
| `ReplyChannel` | `start`, `sendMessage`, `sendMessageHandler` | `ReplyStream` (refined) |
| `ReplyChannelProofs` | proofs | `ReplyChannel` |
| `FtpSession` | all FTP commands and data connections of a session | uses what the other two establish |
| `MCFtpSession` | TLC instances: the sets of paths | `FtpSession` |
| `FtpSessionProofs` | proofs | `FtpSession` |
| `HttpSession` | `receiveMessage`, `handleHttp`, GET, PUT, DELETE over the stream of a connection | uses what `ReplyChannel` and `MemoryFs` establish |
| `MCHttpSession` | TLC instances: the requests | `HttpSession` |
| `HttpSessionProofs` | proofs | `HttpSession` |
| `Server` | `start`, `stop`, the accept loop, the workers | of a session, what holds a worker |
| `ServerProofs` | proofs | `Server` |
| `Text` | `split`, changes of case, `decode_base64` | |
| `Requests` | `detectProtocol`, `FtpParser`, `HttpParser` | `Text` |
| `Responses` | `HttpResponse`, `FtpResponse` and their texts | `Text` |
| `Conversation` | a client and the server, as the texts on their connection | `Requests`, `Responses` |
| `MCConversation` | TLC instance: requests, files, ports | `Conversation` |
| `ConversationProofs` | proofs | `Conversation` |
| `UserDatabase` | `user_database.cpp`, one step for every access to the lock or the table | |
| `UserDatabaseProofs` | proofs | `UserDatabase` |
| `Storage` | HTTP and FTP sessions over one filesystem and one database, and `addUser` | `UserDatabase`, `FileStore` (refined) |
| `MCStorage` | TLC instance: requests, keys, directories | `Storage` |
| `StorageProofs` | proofs | `Storage`, `UserDatabaseProofs` |

### MemoryFs

A thread's `pc` names the next access it makes: take the lock (`LockShared`,
`LockExclusive`), `exists()` (`Search`), `at()` (`Dereference`), the two halves of
`fs_[path] = file` (`Insert`, `Assign`), one element of the loop of `list()` (`Iterate`),
`erase` (`Erase`), the destructor of the lock (`Unlock`), and the caller's use of the answer
(`Return`). The map is one function from paths to files; because an access is a step, a missing
lock shows as an interleaving. `get()` answers a reference: `alive` says whether it still
refers to an element when the caller copies the file, after the lock is gone.

`ImplementsFileStore` is the refinement mapping: the abstract map is `fs_` without the
element that is inserted and not yet assigned.

### ReplyChannel

`posts` are the handlers `sendMessage` has posted, `output_queue_` the deque, `writing` and
`wrote` the `async_write` in progress and completed. `Enqueue` and `Written` both decide
whether to start a write, as in the code. The model counts writes instead of assuming there is
one. After a failed write the code neither pops nor retries: `failed` remembers that.

### FtpSession

A handler is a step: the strand runs one at a time and the two strands share no variable.
`handleFtp` is the frame of every command. Between handlers come the client
(`ClientSends`, `ClientEnds`, `ClientResets`, `Leave`), the sockets (`Connect`, `Accept`,
`WriteDone`, `ReadDone`) and other sessions (`Elsewhere`). `strand` is the queue of
`ftp_data_serializer_`: a handler takes itself off and posts others behind it, so the order in
which the code posts them is the order they run in. `transfers` records every transfer
announced with 150; `final` its later replies.

- A socket is alive while a handler, read or write holds it; `ftp_data_socket_` is a
  `weak_ptr`, so closing through it does nothing once nothing holds the socket (`HeldBy`).
- `acceptor` has a third state, "open": `configureDataAcceptor` may fail after `open`.
- A read completes when the buffer is full, or with an error and what has come so far.
- A write of no bytes (an empty listing) touches no connection and cannot fail.
- `last_ftp_command_` is assigned after the handler, so QUIT's own reset of it is overwritten;
  an unrecognized line leaves it alone.
- `PASS` compares with `last_username_`, whatever happened between.

### HttpSession

A request is a line, its header fields and the units of its body; `wire` is what has been sent
and not read, `input_stream_` what has been read and not used. A read takes any part of what
is on the wire, at least one piece, so what one read brings beyond the line or the header it
waits for is up to TLC, as it is up to the network. `Receive` is the read of `receiveMessage`
and of `handleHttp`, both into `input_stream_`; `ReadBody` is the one of `handleHttpPut`, from
the wire alone. `handleHttp` is the frame of the branches of that function: `BadRequest`,
`FieldFaults`, `Unauthorized`, `AuthFaults` and, when `Admitted`, one action per method. `PutDone` and
`PutFails` are the completion handler of the body.

- A refused request (400, 401) is the last: the code does not call `receiveMessage` again.
- A PUT to a stored file answers 404, as in the code.
- What is wrong with a request and is not checked has both outcomes, that the request goes on and
  that it ends the process ("terminated"). `FieldFaults`: a field without a colon, of which
  `HttpParser` reads the second token (`http_parser.cpp:57`). `AuthFaults`: an empty optional or a
  missing token is read for credentials that are not there, or that cannot be split or decoded
  (`http_parser.cpp:73-81`, `http_method_handlers.cpp:47`; `Misread`).
- `PutFaults`: `resize` throws for a Content-Length that is negative or cannot be reserved.
- The end of the stream within a header ends the process: `read_until` throws in a `noexcept`
  function.
- A request line without a URI (`http_parser.cpp:49`) does not get there: a line goes to `HttpParser`
  when it has "HTTP" in it, which no method of `kMethodMap` has, so there is a second token.

### Server

`ready` is the queue of the `io_service`, `doing` what each worker runs, `accept` the
`async_accept`. `Take` is `io_service::run` taking a handler; the actions under "The handlers"
are what it does then. `Serve` stays enabled only once the header is there: until then its
worker waits, which is the blocking read. A client in `Slow` may never send it.

- `acceptConnection` is two steps. `AcceptConnection` is `Session::start` up to the post of
  `receiveMessage`; `AcceptNext` the rest of it, which asks for the address of the client again, and
  the next `async_accept`. Between them ("started") another worker may run `receiveMessage`, read a
  request, serve it, and meet the end of the connection.
- Asking for the address of a client that has reset its connection throws, in both steps, on a
  worker that catches nothing (`Throws`).
- `AcceptFails` is the error branch, after which nothing is accepted.
- `Exit`: `io_service::run` returns when it is stopped, and when it is out of work (`OutOfWork`):
  no handler queued or running, no accept and no read pending. `object_storage.cpp:43` has no work
  guard. The writes and data connections of a session are not in the model; they would only put
  this off, as an open session always has a read pending or a handler due.
- `ReadFails`: a client that has left makes the read of `receiveMessage` fail, whose handler
  receives again; such a session goes round the queue for ever.
- `Serve` ends the process for a client that leaves within a header and, when `Flaws`, for any
  request: which ones do is `OnlyKnownFaults` of `HttpSession`.

### Text, Requests, Responses, Conversation

A text is a sequence of strings: words, numbers, and the characters the code looks for (blank,
colon, CR, LF, those of base64), so that a delimiter split over two pieces does not arise and a
key stays one piece. `HttpWords` are the words that have "HTTP" somewhere in them, which is what
`detectProtocol` looks for. `find` is `std::string::find`, with `npos` behind the end. The parsers are
functions from a text to a record; what they read outside of a vector or a text is a `Fault`.
`trimmed` is a small example of following the code instead of its comment: in a value of blanks
only, `find_first_not_of` answers `npos`, and the arithmetic of the view moves it back by one.
`decode_base64` computes bytes, `atoi` an integer of `IntBits`, made a `size_t` of `SizeBits`.

In `Conversation` a client writes requests on `wire` at its own pace; `Receive` cuts the first
one off as `receiveMessage` and `handleHttp` do (line end, then empty line) and parses it:
`understood`. The responses go the other way on `stream`. The client side (`HttpRequestText`,
`encode_base64`, `HttpResponses`, ...) is the reference: what a client writes for what it means,
and how it tells the responses apart (`HeaderEnd`, `ResponseEnd`, `HttpReads`, `FtpReads`). Bodies of uploads are not on this wire: they are
`HttpSession`'s. `Exceptional` names the requests the code does not understand as meant; each
is in the instance, so that the properties are seen to need the exception:

- an FTP argument that names HTTP, or has a blank in it; an empty line (a fault);
- an HTTP request with no field at all: its empty line begins with the line end that the first
  read has taken, so that the server waits for the next request's;
- a password with a colon (cut there); a size that is no `int`.

### UserDatabase

`at` names the next access of a thread: the lock (`LockShared`, `LockExclusive`), `insert`,
`find`, `at`, the destructor of the lock (`Unlock`), and the return. `add` and `verify` are the
calls; a user without password ("anonymous") never reaches the lock. `knew` is a history
variable: whether the credentials were right when `verify` was called.

### Storage

The composition. Sessions of both protocols are coarse: an operation of the filesystem is one
step, which `Linearizability` justifies, and a transfer or a body is the time between two steps
(`stage` "body"). The database is not coarse: `Storage` extends `UserDatabase` and its sessions'
`verify` and the application's `addUser` are that module's steps. `handleFtpPass` and
`authHttpUser` call it, `PassVerified` and `handleHttp` go on when it has returned.

`where` is the directory an FTP client is in by the replies it has read (`Entered`: the one it is
in after the next), `current_working_dir_` the one its session keeps. `ImplementsSharedStore` maps the clients onto `FileStore`: the store
is `fs`; a client is in a call from the moment it is let in until it has read the reply; the
operation is what it *means* (`Meant`: for RETR and STOR the key in `where`, for DELE and HTTP
the key as it is); the result is how it *reads* the reply (`Outcome`, from the reply codes). So
the refinement fails when the two directories part, when a path is resolved at the wrong time,
or when a reply says what did not happen. A refused request is no call.

## 3. The runs

| run | instance | question | result |
|---|---|---|---|
| `memory_fs` | 3 threads, 2 paths, 2 contents | is the map free of races, and atomic? | holds |
| `memory_fs_reference` | 2 threads | does a copy made through `get()`'s reference read a stored file? | violated |
| `reply_channel` | 2 messages and the greeting, 6 sent | one writer, replies in order, all sent? | holds |
| `ftp_transfers` | 3 transfers, 7 commands, PASV at any time, accepts that fail, uploads to 3 bytes in buffers of 2 | one transfer at a time: is all stored, sent and acknowledged? | holds |
| `ftp_pipelined` | 3 names, 11 commands, 6 in a row, 2 overlapping transfers, resets, the client leaves | is a login always verified, does a refusal change nothing, what holds of transfers that overlap or fail? | holds |
| `ftp_abandoned` | 1 LIST, reset | is there a write pending whenever something is queued? | violated |
| `ftp_overlapping` | 2 uploads at a time | is a stored file a whole upload? | violated |
| `http_session` | 3 requests of 14 kinds, 6 of them with something missing or wrong, pipelined, bodies to 2 units, the client leaves anywhere | answered in order, stored whole, changed only when allowed? | holds |
| `http_unannounced` | 1 PUT, its body sent with its header | is every request answered? | violated |
| `server` | 2 workers, 3 clients, 1 of them slow, accept errors, clients leave | one accept, one handler each, do the workers stay, is everyone served, does `stop` return? | holds |
| `text` | 2 requests of 19 kinds on one stream, 2 responses, files that look like responses, ports around a byte | does each side understand the other? | holds |
| `storage` | an HTTP and an FTP session, an application that adds users, 2 keys, 2 directories, no bound on requests | do clients of both protocols share one map, changed only by verified users? | holds |

The violated ones are disagreements between the code and what its comments, tests or README
say; `PROJECT.json` ("findings") quotes both.

**What the passing runs show.** `NoDataRace`, `AtNeverThrows` and `ImplementsFileStore`: the
lock makes `MemoryFs` linearizable. `OneWriter`, `NothingLost`: the control connection never
has two writes and loses nothing. `LoginIsVerified`: no order of USER, PASS, QUIT and rejected
commands keeps an earlier login or takes over another name. `RefusedChangesNothing`: a refusal
starts no transfer. `StoredFilesAreWhole`: with one transfer at a time, uploads of every
length around the buffer size are stored byte for byte. `TransfersEnd`: every 150 gets its
final reply, also LIST without PASV, a transfer whose accept fails, and one whose accept a PASV
cancels: the client of this run waits for the end of a transfer with everything but a PASV.
`DownloadsArrive`, `OneFinalReply` and
`StoredFilesAreUploads` hold even when transfers overlap or fail: a download's connection never
brings another's data, and a stored file, if cut short, is the beginning of one upload. What is
lost in those cases is completeness, which `ftp_abandoned` and `ftp_overlapping` show.
`AnsweredInOrder`, `StoredBodiesAreWhole`: wherever the reads cut the stream of a client that
announces its bodies (Expect: 100-continue, and waits), no piece is taken for another.
`http_unannounced` shows why the announcement matters. `ChangesAreAdmitted`: the files change
only with the 201 or 200 of a verified request, although a PUT acts a handler later than it is
checked. `OnlyKnownFaults`: the process of all clients ends only by a client that leaves within a header, or
at the request received last, when that has a field without a colon, credentials that cannot be read
where they are asked for, or, being an admitted PUT, a length that cannot be reserved (`MayFault`).
So not by what is wrong with a request that is refused before, not by a client that leaves within a
body or between requests, and not by a stream that the reads have cut at the wrong place, where an
empty line would be taken for a command. That these requests end the process is what the code does;
no text of the repository says what it should do with them.

`OneAccept`: the accept loop does not fork, and stops only by the error of an accept; then it has
stopped for good, although the server runs. `WorkersStay`: a worker of a running server ends only
after that, when the last session has ended too; nothing else lets `run` find itself out of work
between two handlers. `OneHandlerEach`: from its acceptance on a session has one handler that reads
from its socket or acts on what was read, queued or running; only the rest of `start` may run beside
it. `EveryClientServed` holds as long as fewer clients stop within a header than there are workers,
in spite of sessions whose client has left and whose handler goes round the queue; with as many slow
clients as workers it fails, which the condition `Enough` says. It excepts an accept that has failed.

`RequestsArrive`: with every length of credentials modulo three, fields in either case and any
order, values that are empty, and requests before and behind it on the stream, the server
understands what was meant. `NoneIsWaitedFor`: no complete request is waited for.
`RepliesArrive`: a client cuts the responses apart even when a file contains an empty line, a
header or a whole response, and reads the port of a 227 across the carry between its bytes.
`AnswersAreRight` relates the answer of `verify` to the table at the call and at the return,
with users added in between. `ChangesAreVerified` and `ImplementsSharedStore`: README.md's "storing
files using one protocol and retrieving them with another", as a refinement.

### Bounds, and why they are enough

- `memory_fs`: three threads give a reader, a writer and one more of either between any two
  steps; two paths, so that operations on another path interleave; two contents, one of them
  the empty string that `operator[]` inserts. The proofs remove these bounds.
- `reply_channel`: `MaxSent` 6 messages fill the queue, drain it and fill it again. The bound
  stands in `sendMessage`'s guard; the proofs hold for every value of it.
- `BufferSize` 2 and `MaxUpload` 3: uploads that are empty, shorter than, equal to and longer
  than the buffer. `ftp_pipelined` and the violations use less.
- `MaxTransfers` 3: one transfer may leave something behind for the second, and the second for
  the third. `MaxCommands` 7: login, then a PASV, three transfers and one more.
- `MaxBacklog` 1: one connection waits to be accepted (2 where transfers overlap in accept
  order).
- `http_session`: three requests, so that the second may be affected by the first and affect
  the third; bodies of no, one and two units, so that a read can end within one.
- `server`: two workers, so that one is left when the slow client holds the other; three
  clients, so that there is one to accept while two are served.
- `text`: two requests, so that the first may spoil the second; `IntBits` 3 and
  `MaxNumber` 7, so that sizes on both sides of the largest `int` occur; `SizeBits` 5, so that every
  file is shorter than the largest `size_t`. The proofs remove these bounds.
- `storage`: one session of each protocol and one application thread; two keys, of which one is
  the other's name in a directory; two directories; a right and a wrong password. Neither the
  requests nor the users added are bounded: the state space is finite without it. Deadlock is
  checked.
- In `FtpSession`, `ReceiveFails` repeats for ever in the code; the model has one round of it in the strand at a
  time, which every further round only repeats.

### Fairness, and why the code justifies it

- `ReplyChannel`: a posted handler runs and a write completes, one way or the other: the
  workers run `io_service::run` until the server stops. Nothing forces a client to send
  commands. A write to a client that never reads may not complete in reality; the property
  `EveryReplyArrives` says so by way of the write that is fair.
- `FtpSession`: the workers run the data strand, and reads, writes and accepts complete when
  they can; the client connects when the port listens and ends its uploads. No fairness is
  assumed of commands, resets, other sessions or the end of the control connection. The network
  assumptions are those of the client the integration tests run (curl), which connects after
  227 and closes an upload at its end. Without them a transfer may stay announced for ever: the
  code has no timeout.
- `HttpSession`: the handlers run, reads return what has come, and a client that has begun a
  request goes on with it unless it leaves. Nothing forces it to begin one.
- `Server`: the workers take handlers and run them, pending connections are accepted, reads from
  a client that has left fail, and all clients but the slow ones finish a header they have begun
  unless they leave.
- `Conversation`, `UserDatabase` and `Storage` state no fairness: their properties are about
  safety.
- Deadlock is checked for `memory_fs` and `storage`. In the others the client may stop: a state without
  successor is one where it has nothing more to say.

### Mutants

Every property of a passing run has a variant of a mapped action under which TLC finds it
violated: a missing or weaker lock, a search left out, a queue not popped, a USER that keeps
the login, a session that receives while it serves, a last chunk that is dropped, and so on
(`PROJECT.json`, "mutants").

## 4. What is proved

Every safety property the runs check is proved for all values of the constants; what is left to
TLC alone is liveness, and the claims that do not hold. The proofs use the assumptions
the modules name:

| assumption | says |
|---|---|
| `EmptyFileAssumption`, `GreetingAssumption`, `SomeAssumption` | an empty file is a file, the greeting a message, and there are users |
| `NoFileAssumption`, `NobodyAssumption`, `ArgumentAssumption`, `PasswordsAssumption`, `ThreadsAssumption`, `SentinelsAssumption`, `NoCallAssumption` | a sentinel is none of the values it stands apart from |
| `BoundsAssumption` of `FtpSession` | the read buffer has room for a byte; the bounds are natural numbers |
| `RequestsAssumption` of `HttpSession` | only a PUT has a body |
| `WidthAssumption` of `Requests` | an `int` has at least one bit and no more than a `size_t` |
| `HttpWordsAssumption` of `Requests` | "HTTP" is one of the words that have HTTP in them, and they have no delimiter |
| `NumbersAssumption` of `Conversation` | different numbers are written differently, as words without delimiters, and 0 as "0" |
| `RequestsAssumption` of `Conversation` | methods, URIs and commands are words; a client of HTTP that has a body gives its size; bytes are bytes; no FTP command has HTTP in it, no argument contains a line end |
| `RepliesAssumption` of `Conversation` | files are shorter than the largest `size_t`; a port has two bytes |
| `SlowAssumption` of `Server` | slow clients are clients |
| `ThreadsOfTheServer`, `RequestsAssumption`, `KeysAssumption` of `Storage` | a thread is a session of one protocol or an administrator; clients send names, passwords and the operations of their protocol; every path they may name is a key |

The bounds (`MaxSent`, `MaxCommands`, ...) stand in guards and the proofs hold for every value
of them. Where a theorem is about certain clients only, that is a hypothesis of the theorem, and a
run that expects a violation shows that it is needed.

**MemoryFsProofs.** The invariant `IInv` has three parts. `TypeOK`. `LockDiscipline`: a
thread's `pc` and operation determine which lock it holds, and a writer excludes readers.
`SeenIsSo`: what `exists()` has found is still so at the next step, and what `list()` has
collected is in the map. None is inductive alone: `SeenIsSo` survives another thread's `Insert`
or `Erase` only because the discipline says that thread holds the lock alone. From it:

- `DataRaceFreedom`, `AtIsSafe`: `[]NoDataRace`, `[]AtNeverThrows`.
- `Linearizability`: `Spec => ImplementsFileStore`. An action that leaves the map with an
  answer (`AnswerGiven`) is the abstract `Answer`, `Call` and `Return` are themselves, the rest
  stutter (`Silent`). `HoldersSeeTheStore` says that whoever holds the lock sees the abstract map.
- `StoredFilesStay`: `Spec => NoOverwrite`.

**ReplyChannelProofs.** The invariant `IInv` is `TypeOK`, `OneWriter` and `NothingLost`. `NothingLost` needs
`OneWriter` (a completed write must be of the front), and `OneWriter` needs nothing but types.
`Invariance`, `SingleWriter`, `RepliesInOrder` follow, and `ControlConnectionIsStream`:
`Spec => ImplementsReplyStream`, where `Write` is the abstract `Deliver` because `NothingLost`
makes the front of the queue the next message posted.

**ServerProofs.** `IInv` states `OneAccept` and `OneHandlerEach` without counting (`IsOne`), with
what handlers are and what `start` finds (`HandlerTypes`). `AcceptIsDue`: while the server runs,
either the `async_accept` is pending or has failed for good, or a handler that will begin the next
is in exactly one place of the queue and the workers. `HandlerIsDue`: so is the handler of every
connection that is attended to, as its stage tells. `EndsOutOfWork`: when a worker of a running
server has ended, the server is out of work, and stays so. A step moves a handler, adds one or takes
one away, and lemmas on `Places` say what that does to the places of the others; a finite set of one
element is one of cardinality 1. `Types`, `AcceptLoop` (`[]OneAccept`), `HandlersApart`
(`[]OneHandlerEach`) and `NoneIsAbandoned` (`[]WorkersStay`) follow, for any number of clients and
workers. The last needs all three parts: out of work there is no handler, so by `HandlerIsDue` every
connection is at a stage at which none is due, and by `AcceptIsDue` the accept loop has failed.

**HttpSessionProofs.** In two rounds.

- For any client, also one that sends a body with its header: `AnyClientInvariance` says that
  what is in the buffer and on the wire was sent, in that order and nothing twice, and that a
  body is read only of a PUT that has passed its checks. From it `StreamInOrder` (types)
  and `AdmittedChanges` (`Spec => ChangesAreAdmitted`).
- Under the hypothesis `Announces` (the client waits for 100 with a body, or sends none):
  `Invariance`, that the three reads stay aligned with the requests. `StreamIsWhole`: in the
  stream a line is followed by its fields, these by the body or by the next line. `AtLine`,
  `AtHeader`, `AtBody`: what the stream begins with is what the read that comes next is for.
  `UnitsAreAwaited`: units of a body are in it only while the server reads that body, which is
  what the hypothesis is for: `handleHttpPut` reads past `input_stream_`. From it `RepliesInOrder`,
  `KnownFaults` (the only place where an empty line would be read as a command is one the stream is
  never cut at), `WholeBodies`. `http_unannounced` shows what happens without it.

**FtpSessionProofs.** For any commands, pipelined or not, any number of transfers at once, and
a client that resets connections, `Invariance` proves the conjunction of

- `TypeOK`, in which what has been received of an upload is a prefix of it;
- `AtOnePlace`: a transfer under way is in one accept, handler, read or write, and has no final
  reply. It is what makes `OneFinalReply` inductive: whoever sends a final reply ends the only
  place the transfer is in;
- `ByCommand`: reads are of uploads, writes of downloads, and what a read has brought continues
  what came before;
- `QueuedInPairs`: the null that ends a transmission is queued right behind its data, also when
  other transfers post between;
- `OneSends`: one transfer at most sends from the shared `ftp_data_buffer_`, and the queue
  begins with its data. Without it `DownloadsArrive` is not inductive: a write would be of the
  front of the queue, whoever that is from;
- `NotBefore`: nothing is received before it is sent;
- `AcceptsHaveAPort`: accepts and connections that wait are on the port that is open;
- `LoginIsVerified`, `OneFinalReply` and `DownloadsArrive` themselves.

From it `LoginsAreVerified`, `RepliedOnce`, `DownloadsAreWhole`, `FilesAreUploads`
(a file that appears is the beginning of one upload to its path). `RefusalsChangeNothing`
is about single steps and needs no invariant.
Under the hypothesis `Obliging` (the client begins a command when the transfer before has ended,
and resets no connection) `ComeOneByOne` adds that only the last transfer is under way, the queue
holds its data and its end, and an upload is saved when all of it has come. From it
`QueueIsPending` (`[]QueuedIsPending`) and `FilesAreWhole` (`StoredFilesAreWhole`). Each half of
the hypothesis is needed: `ftp_overlapping` pipelines, `ftp_abandoned` resets. They hold
whatever other sessions do with the files (`Elsewhere`).

**UserDatabaseProofs.** `IInv` is `TypeOK`, `LockDiscipline` (what a thread does next tells which
lock it holds) and `CredentialsHold`: between call and return credentials that were right at the
call still are, and `verify` has not answered before it has compared. The last needs
`PasswordsStay`, that no step replaces a password, for what one thread has found to survive the
steps of the others. From it `DataRaceFreedom`, `AnswersHold` and `PasswordsAreFinal`.

**StorageProofs.** For any number of sessions, administrators, users, keys and requests. First,
that the server's steps are steps of `UserDatabase` (`StepsOfTheDatabase`), so that
`ServerUsesTheDatabase` and, with the theorems above, `DatabaseInTheServer` follow.

Then `OnlyVerifiedChanges`: `StorageSpec => ChangesAreVerified`. A change comes after a call of
`verify` that was made in an earlier handler or command, so the invariant `StorageInv` carries its
answer along: a user who is logged in, or whose body is awaited, has right credentials
(`ActorsAreVerified`). `HttpTransitions` and `FtpTransitions` say that a session comes to these
states only by an answer of yes (`CredentialsHold`), and `RightStays` that users added meanwhile
change nothing in it.

Last, `OneStore`: `StorageSpec => ImplementsSharedStore`. The client knows only the replies it has
read, the session only the commands it has got, so `FilesInv` relates the two: the session's
directory is the client's, but for a reply not yet read (`DirectoryAgrees`); a body goes to the
key its client means (`BodyHasItsKey`); a session calls the database only to verify
(`CallsToVerify`), so that the end of a call is the moment its client is let in. A step of one
session leaves the calls of the others alone (`HttpAlone`, `FtpAlone`, `DatabaseAlone`); its own
is the abstract `Call` (`Calls`: it is let in), `Answer` (`GetImplements`, `AddImplements`,
`ListImplements`, `RemoveImplements`, one for each operation, with the reply codes of both
protocols), `Return` (`Returns`: it reads the reply) or none (`Stutters`).

**ConversationProofs.** The parsers, the texts and the client's reference are recursive functions
on texts. What they compute for every text is proved by induction in first-order logic: the library's
induction theorems take a formula with a parameter, but a set of naturals can stand for the formula.
`Least` (a set of naturals that is not empty has a least element) follows from the well-founded order
of the naturals; `Induction`, `Backwards`, `AppendInduction` and `ConsInduction` follow from `Least`,
and `Chain` says that the functions defined by recursion exist. On these rest the lemmas about
`find`, `split`, `FlattenSeq` and `decode_base64`. Then:

- `Base64RoundTrip`: what `encode_base64` writes, `decode_base64` reads, for any number of bytes.
- `HttpParses`, `FtpParses`: the parsers make of the text of a request what its client means, for any
  fields in any order and any arguments, unless the request is `Exceptional`.
- `RequestsArriveAlways` and `NoneIsWaitedForAlways`: `Spec => []RequestsArrive`,
  `Spec => []NoneIsWaitedFor`. `RequestsArrive` is not inductive: it says nothing of what is still on
  the wire. `RequestsInv` adds `WireIsPending`: as long as the requests were plain, the wire is the texts
  of the ones not yet understood, one behind the other. A text of a plain request has its end where
  `receiveMessage` and `handleHttp` look for it, and no earlier, whatever is behind it.
- `RepliesArriveAlways`: `Spec => []RepliesArrive`. `RepliesInv` has one half for each protocol. For
  FTP: the stream is a sequence of lines, one for each reply, and each reads as the reply it is. For
  HTTP: whatever text `rest` comes next, the client reads in the stream and `rest` the replies so far,
  and then what it reads in `rest` alone. "Whatever comes next" is the strengthening: without it the
  last response could swallow the next. A step needs that a response with a Content-Length ends where
  that says (`ResponseRead`, `ResponsePeeled`), and that reading from a place on does not depend on what
  lies before it (`FromShift`).

**Only model-checked.** Liveness (`EveryReplyArrives`, `TransfersEnd`, `EveryRequestAnswered`,
`EveryClientServed`, `StopEnds`): fairness and ENABLED are out of the prover's reach.

## 5. What is left out

- Text in the session modules: replies are their codes, a path is a sequence of pieces, a byte
  of an upload its position. The texts themselves are those of `Conversation`.
- RETR and DELE without an argument: the code reads a token that is not there.
- Absolute paths in FTP: RETR and STOR put the working directory before any path, so that
  "STOR /a" stores "//a", while DELE takes its path as it is. In `Storage` the client sends a
  relative path after STOR and RETR and the whole key after DELE, as curl does in
  `test/ftp_integration_tests.cpp`; in `FtpSession` it sends either.
- `MemoryFs` inside `FtpSession`, `HttpSession` and `Storage` is atomic, which `Linearizability`
  justifies; the one thing it does not cover, the reference `get()` answers, is
  `memory_fs_reference`.
- Replies inside the sessions are in the order of `sendMessage`, which
  `ControlConnectionIsStream` justifies.
- Transfers that fail, commands that overlap a transfer, PASV and TYPE in `Storage`: those are
  `FtpSession`'s. `authenticate_` is on in `Storage`; `HttpSession` has it off too.
- Logging, `TCP_NODELAY`, `client_address_`; reason phrases and reply texts (but that of 227).
- `HttpResponse`'s constructor with a reason phrase of the caller: nothing calls it.
- `example_app`: it reads the command line, adds one user before the server starts, and waits.
- The ends of the FTP port range (`start` excludes the last port, the comment in
  `object_storage.hpp` includes it): `ReplyChannel` takes clients that are greeted and clients
  that are not.

## 6. Plan

Done: 1 `MemoryFs`, 2 `ReplyChannel`, 3 `FtpSession`, 4 `HttpSession`, 5 `Server`, 6 `Text`,
`Requests`, `Responses`, `Conversation`, 7 `UserDatabase`, 8 `Storage`; proofs of all of them,
with the refinements of `FileStore` (twice) and `ReplyStream`.

Left: theorems that would connect the modules further. `FtpSession` and `HttpSession` treat the
filesystem as atomic and replies as a stream, which the refinements justify one module at a time;
that a session with its `ReplyChannel` inside implements the session alone is not stated.
