------------------------------- MODULE Storage -------------------------------
(***************************************************************************)
(* The server as its clients see it: HTTP and FTP sessions over one        *)
(* MemoryFs and one UserDatabase, to which the application adds users.     *)
(* The sessions are coarse here.  An operation of the filesystem is one    *)
(* step (Linearizability, in MemoryFsProofs), the database is that of      *)
(* UserDatabase, step by step; lines, data connections and what fails in   *)
(* them are those of HttpSession and FtpSession.  A client waits for the   *)
(* reply to what it has asked.                                             *)
(*                                                                         *)
(* A path is the sequence of its pieces; a file is the client it is from.  *)
(***************************************************************************)
EXTENDS UserDatabase, Sequences

CONSTANTS HttpSessions, FtpSessions,
          Administrators,   \* threads of the application that call addUser
          HttpRequests, FtpRequests,   \* what the clients ask: see Request
          Keys,             \* keys of files
          Directories,      \* bound: where CWD leads
          NoFile,           \* no file is stored at a key
          NoUser            \* logged_in_user_ holds no value

Sessions == HttpSessions \cup FtpSessions

ASSUME ThreadsOfTheServer ==
    /\ Threads = Sessions \cup Administrators
    /\ HttpSessions \cap FtpSessions = {} /\ Sessions \cap Administrators = {}

(* What a client sends names a user, with or without its right password.   *)
ASSUME RequestsAssumption ==
    /\ \A r \in HttpRequests : r.as \in Users
    /\ \A r \in FtpRequests : /\ r.do = "User" => r.arg \in Names
                              /\ r.do = "Pass" => r.arg \in Passwords

ASSUME SentinelsAssumption == NoFile \notin Sessions /\ NoUser \notin Users

Root == <<"/">>

(* Every path is a key: what the requests name, in any directory a client  *)
(* may be in.  Keys and Directories bound the paths for TLC only.          *)
ASSUME KeysAssumption ==
    /\ Root \in Directories
    /\ \A r \in HttpRequests : /\ r.do \in {"GET", "PUT", "DELETE"}
                               /\ r.arg \in Keys \/ (r.do = "GET" /\ r.arg = Root)
    /\ \A r \in FtpRequests :
          /\ r.do \in {"User", "Pass", "Cwd", "Quit", "List", "Retr", "Stor", "Dele"}
          /\ r.do = "Dele" => r.arg \in Keys
          /\ r.do \in {"Retr", "Stor"} => \A d \in Directories : d \o r.arg \in Keys

VARIABLES
    \* the clients
    asked,        \* what a client has asked and not yet read the reply to
    where,        \* the directory an FTP client is in, by the replies it has read
    \* the sessions
    stage,        \* "idle", "asked", "verifying", "body" or "answered"
    reply,        \* the reply of a session: its code, a file and a listing
    last_ftp_command_, last_username_, logged_in_user_, current_working_dir_,
    filepath,     \* where a body or an upload goes
    fs            \* the filesystem

login == <<last_ftp_command_, last_username_, logged_in_user_, current_working_dir_>>
client == <<asked, where>>

storage == <<db, client, stage, reply, login, filepath, fs>>

Request(c, x, u) == [do |-> c, arg |-> x, as |-> u]

Nothing == Request("Nothing", <<>>, NoUser)

Reply(code, f, l) == [code |-> code, file |-> f, list |-> l]

Code(n) == Reply(n, NoFile, {})

StorageInit ==
    /\ Init
    /\ asked = [s \in Sessions |-> Nothing]
    /\ where = [s \in Sessions |-> Root]
    /\ stage = [s \in Sessions |-> "idle"]
    /\ reply = [s \in Sessions |-> Code(0)]
    /\ last_ftp_command_ = [s \in FtpSessions |-> "Other"]
    /\ last_username_ = [s \in FtpSessions |-> ""]
    /\ logged_in_user_ = [s \in FtpSessions |-> NoUser]
    /\ current_working_dir_ = [s \in FtpSessions |-> Root]
    /\ filepath = [s \in Sessions |-> Root]
    /\ fs = [k \in Keys |-> NoFile]

-----------------------------------------------------------------------------
(* The clients, and the application. *)
Asks(s, r) ==
    /\ stage[s] = "idle"
    /\ asked' = [asked EXCEPT ![s] = r]
    /\ stage' = [stage EXCEPT ![s] = "asked"]
    /\ UNCHANGED <<db, where, reply, login, filepath, fs>>

HttpAsks(s) == \E r \in HttpRequests : Asks(s, r)

FtpAsks(s) ==
    \E r \in FtpRequests : (r.do = "Cwd" => where[s] \o r.arg \in Directories) /\ Asks(s, r)

(* Where an FTP client takes itself to be, by the reply that has come. *)
Entered(s) ==
    CASE asked[s].do = "Cwd" /\ reply[s].code = 250 -> where[s] \o asked[s].arg
      [] asked[s].do = "Quit" -> Root
      [] OTHER -> where[s]

(* The client reads the reply, and what a download brings.  An HTTP client *)
(* that was refused goes on with another connection.                       *)
Reads(s) ==
    /\ stage[s] = "answered"
    /\ stage' = [stage EXCEPT ![s] = "idle"]
    /\ asked' = [asked EXCEPT ![s] = Nothing]
    /\ reply' = [reply EXCEPT ![s] = Code(0)]
    /\ where' = [where EXCEPT ![s] = Entered(s)]
    /\ UNCHANGED <<db, login, filepath, fs>>

addUser(t) ==
    /\ (\E u \in Users : add(t, u)) \/ Return(t)
    /\ UNCHANGED <<client, stage, reply, login, filepath, fs>>

(* A call of the database goes on. *)
InDatabase(t) ==
    /\ Within(t)
    /\ UNCHANGED <<client, stage, reply, login, filepath, fs>>

-----------------------------------------------------------------------------
Stored(k) == fs[k] # NoFile

Answer(s, r) ==
    /\ stage' = [stage EXCEPT ![s] = "answered"]
    /\ reply' = [reply EXCEPT ![s] = r]

List(s, code) ==
    /\ Answer(s, Reply(code, NoFile, {k \in Keys : Stored(k)}))
    /\ UNCHANGED fs

Get(s, k, found, notFound) ==
    /\ Answer(s, IF Stored(k) THEN Reply(found, fs[k], {}) ELSE Code(notFound))
    /\ UNCHANGED fs

Add(s, k, added, exists) ==
    /\ Answer(s, Code(IF Stored(k) THEN exists ELSE added))
    /\ fs' = IF Stored(k) THEN fs ELSE [fs EXCEPT ![k] = s]

Remove(s, k, removed, notFound) ==
    /\ Answer(s, Code(IF Stored(k) THEN removed ELSE notFound))
    /\ fs' = [fs EXCEPT ![k] = NoFile]

-----------------------------------------------------------------------------
(* HTTP.  authHttpUser asks the database; handleHttp goes on when it has   *)
(* answered.                                                               *)
authHttpUser(s) ==
    /\ stage[s] = "asked" /\ s \in HttpSessions
    /\ verify(s, asked[s].as)
    /\ stage' = [stage EXCEPT ![s] = "verifying"]
    /\ UNCHANGED <<client, reply, login, filepath, fs>>

handleHttp(s) ==
    /\ stage[s] = "verifying" /\ s \in HttpSessions
    /\ at[s] = "verified"
    /\ Return(s)
    /\ UNCHANGED <<client, login>>

Unauthorized(s) ==
    /\ handleHttp(s) /\ ~answer[s]
    /\ Answer(s, Code(401))
    /\ UNCHANGED <<filepath, fs>>

(* Mistake: what the database answers is not looked at. *)
AdmittedAnyway(s) == handleHttp(s)

Admitted(s) == handleHttp(s) /\ answer[s]

handleHttpGet(s) ==
    /\ Admitted(s) /\ asked[s].do = "GET"
    /\ IF asked[s].arg = Root THEN List(s, 200) ELSE Get(s, asked[s].arg, 200, 404)
    /\ UNCHANGED filepath

handleHttpDelete(s) ==
    /\ Admitted(s) /\ asked[s].do = "DELETE"
    /\ Remove(s, asked[s].arg, 200, 404)
    /\ UNCHANGED filepath

handleHttpPut(s) ==
    /\ Admitted(s) /\ asked[s].do = "PUT"
    /\ filepath' = [filepath EXCEPT ![s] = asked[s].arg]
    /\ stage' = [stage EXCEPT ![s] = "body"]
    /\ UNCHANGED <<reply, fs>>

(* The body has come, however long that takes. *)
PutDone(s) ==
    /\ stage[s] = "body" /\ s \in HttpSessions
    /\ Add(s, filepath[s], 201, 404)
    /\ filepath' = [filepath EXCEPT ![s] = Root]
    /\ UNCHANGED <<db, client, login>>

-----------------------------------------------------------------------------
(* FTP.  Only whether it was USER is ever asked of the last command.       *)
IsLast(s, c) ==
    last_ftp_command_' = [last_ftp_command_ EXCEPT ![s] = IF c = "User" THEN c ELSE "Other"]

handleFtp(s, c) ==
    /\ stage[s] = "asked" /\ s \in FtpSessions
    /\ asked[s].do = c
    /\ IsLast(s, c)
    /\ UNCHANGED client

LoggedIn(s) == logged_in_user_[s] # NoUser

Refuse(s, code) == Answer(s, Code(code)) /\ UNCHANGED fs

handleFtpUser(s) ==
    /\ handleFtp(s, "User")
    /\ logged_in_user_' = [logged_in_user_ EXCEPT ![s] = NoUser]
    /\ last_username_' = [last_username_ EXCEPT ![s] = asked[s].arg]
    /\ Answer(s, Code(331))
    /\ UNCHANGED <<db, current_working_dir_, filepath, fs>>

(* The handler up to its call of verify, and after its return. *)
handleFtpPass(s) ==
    \/ /\ handleFtp(s, "Pass") /\ last_ftp_command_[s] # "User"
       /\ Refuse(s, 503)
       /\ UNCHANGED <<db, last_username_, logged_in_user_, current_working_dir_, filepath>>
    \/ /\ stage[s] = "asked" /\ asked[s].do = "Pass" /\ last_ftp_command_[s] = "User"
       /\ verify(s, [username |-> last_username_[s], password |-> asked[s].arg])
       /\ stage' = [stage EXCEPT ![s] = "verifying"]
       /\ UNCHANGED <<client, reply, login, filepath, fs>>

PassVerified(s) ==
    /\ stage[s] = "verifying" /\ s \in FtpSessions
    /\ at[s] = "verified"
    /\ Return(s)
    /\ Answer(s, Code(IF answer[s] THEN 230 ELSE 530))
    /\ logged_in_user_' = IF answer[s] THEN [logged_in_user_ EXCEPT ![s] = user[s]] ELSE logged_in_user_
    /\ IsLast(s, "Pass")
    /\ UNCHANGED <<client, last_username_, current_working_dir_, filepath, fs>>

(* What leaves the login alone. *)
HandleFile(s, c) ==
    /\ handleFtp(s, c)
    /\ UNCHANGED <<db, last_username_, logged_in_user_, current_working_dir_>>

handleFtpCwd(s) ==
    /\ handleFtp(s, "Cwd")
    /\ current_working_dir_' =
          IF LoggedIn(s) THEN [current_working_dir_ EXCEPT ![s] = @ \o asked[s].arg]
                         ELSE current_working_dir_
    /\ Answer(s, Code(IF LoggedIn(s) THEN 250 ELSE 530))
    /\ UNCHANGED <<db, last_username_, logged_in_user_, filepath, fs>>

(* Mistake: QUIT keeps the working directory. *)
QuitKeepsDirectory(s) ==
    /\ handleFtp(s, "Quit")
    /\ logged_in_user_' = [logged_in_user_ EXCEPT ![s] = NoUser]
    /\ last_username_' = [last_username_ EXCEPT ![s] = ""]
    /\ Answer(s, Code(221))
    /\ UNCHANGED <<db, current_working_dir_, filepath, fs>>

(* The connection stays, and may be used for another login. *)
handleFtpQuit(s) ==
    /\ handleFtp(s, "Quit")
    /\ logged_in_user_' = [logged_in_user_ EXCEPT ![s] = NoUser]
    /\ current_working_dir_' = [current_working_dir_ EXCEPT ![s] = Root]
    /\ last_username_' = [last_username_ EXCEPT ![s] = ""]
    /\ Answer(s, Code(221))
    /\ UNCHANGED <<db, filepath, fs>>

PathOf(s) == current_working_dir_[s] \o asked[s].arg

handleFtpList(s) ==
    /\ HandleFile(s, "List")
    /\ IF LoggedIn(s) THEN List(s, 226) ELSE Refuse(s, 530)
    /\ UNCHANGED filepath

handleFtpRetr(s) ==
    /\ HandleFile(s, "Retr")
    /\ IF LoggedIn(s) THEN Get(s, PathOf(s), 226, 550) ELSE Refuse(s, 530)
    /\ UNCHANGED filepath

handleFtpStor(s) ==
    /\ HandleFile(s, "Stor")
    /\ \/ ~LoggedIn(s) /\ Refuse(s, 530) /\ UNCHANGED filepath
       \/ /\ LoggedIn(s)
          /\ filepath' = [filepath EXCEPT ![s] = PathOf(s)]
          /\ stage' = [stage EXCEPT ![s] = "body"]
          /\ UNCHANGED <<reply, fs>>

saveFile(s) ==
    /\ stage[s] = "body" /\ s \in FtpSessions
    /\ Add(s, filepath[s], 226, 450)
    /\ filepath' = [filepath EXCEPT ![s] = Root]
    /\ UNCHANGED <<db, client, login>>

(* DELE takes its path as it is. *)
handleFtpDele(s) ==
    /\ HandleFile(s, "Dele")
    /\ IF LoggedIn(s) THEN Remove(s, asked[s].arg, 250, 550) ELSE Refuse(s, 530)
    /\ UNCHANGED filepath

-----------------------------------------------------------------------------
Http(s) ==
    \/ HttpAsks(s) \/ authHttpUser(s) \/ Unauthorized(s)
    \/ handleHttpGet(s) \/ handleHttpDelete(s) \/ handleHttpPut(s) \/ PutDone(s)

Ftp(s) ==
    \/ FtpAsks(s) \/ handleFtpUser(s) \/ handleFtpPass(s) \/ PassVerified(s)
    \/ handleFtpCwd(s) \/ handleFtpQuit(s) \/ handleFtpList(s)
    \/ handleFtpRetr(s) \/ handleFtpStor(s) \/ saveFile(s) \/ handleFtpDele(s)

StorageNext ==
    \/ \E s \in HttpSessions : Http(s)
    \/ \E s \in FtpSessions : Ftp(s)
    \/ \E s \in Sessions : Reads(s)
    \/ \E t \in Administrators : addUser(t)
    \/ \E t \in Threads : InDatabase(t)

StorageSpec == StorageInit /\ [][StorageNext]_storage

-----------------------------------------------------------------------------
(* In whose name a session acts on the files. *)
Actor(s) == IF s \in HttpSessions THEN asked[s].as ELSE logged_in_user_[s]

(* The files change only when a session answers its client, and only in    *)
(* the name of a user whose credentials are right at that instant,         *)
(* although they were asked for earlier, in another handler or command,    *)
(* and users are added meanwhile.                                          *)
ChangesAreVerified ==
    [][fs' # fs => \E s \in Sessions : /\ stage[s] # "answered" /\ stage'[s] = "answered"
                                       /\ Actor(s) # NoUser /\ Right(Actor(s))]_storage

(* What a client has asked of the files, at the key it means: the one it   *)
(* names or, after STOR and RETR, the one in the directory it is in.       *)
Meant(s) ==
    LET r == asked[s] IN
    CASE r.do = "GET" /\ r.arg # Root -> [op |-> "get", path |-> r.arg]
      [] (r.do = "GET" /\ r.arg = Root) \/ r.do = "List" -> [op |-> "list"]
      [] r.do = "PUT" -> [op |-> "add", path |-> r.arg, file |-> s]
      [] r.do = "Retr" -> [op |-> "get", path |-> where[s] \o r.arg]
      [] r.do = "Stor" -> [op |-> "add", path |-> where[s] \o r.arg, file |-> s]
      [] r.do \in {"DELETE", "Dele"} -> [op |-> "remove", path |-> r.arg]
      [] OTHER -> NoUser

(* The client is in a call of the store once it has been let in, and until *)
(* it has read the reply.                                                  *)
Phase(s) ==
    IF Meant(s) = NoUser THEN "idle"
    ELSE IF stage[s] = "answered" THEN IF reply[s].code \in {401, 530} THEN "idle" ELSE "answered"
    ELSE IF \/ stage[s] = "body"
            \/ stage[s] = "asked" /\ s \in FtpSessions /\ LoggedIn(s)
            \/ stage[s] = "verifying" /\ at[s] = "verified" /\ answer[s]
         THEN "called" ELSE "idle"

(* How it reads the reply. *)
Outcome(s) ==
    LET r == reply[s] IN
    [status |-> CASE r.code \in {200, 201, 226, 250} -> "Success"
                  [] r.code = 450 \/ (r.code = 404 /\ asked[s].do = "PUT") -> "AlreadyExists"
                  [] OTHER -> "FileNotFound",
     file |-> r.file, list |-> r.list]

calls == [s \in Sessions |-> IF Phase(s) = "idle" THEN NoUser ELSE Meant(s)]

phases == [s \in Sessions |-> Phase(s)]

results == [s \in Sessions |-> IF Phase(s) = "answered" THEN Outcome(s)
                               ELSE [status |-> "Success", file |-> NoFile, list |-> {}]]

Shared == INSTANCE FileStore
    WITH Threads <- Sessions, Paths <- Keys, Files <- Sessions, NoOp <- NoUser,
         store <- fs, call <- calls, phase <- phases, result <- results

(* Clients of both protocols share one map from keys to files, in which    *)
(* what each of them asks takes effect at once between its question and    *)
(* the reply: a file stored with one protocol is found, listed and removed *)
(* with the other at the key its client means.                             *)
ImplementsSharedStore == Shared!Spec

(* A client that is in no call is not taken for one that is.               *)
ASSUME NoCallAssumption == NoUser \notin Shared!Operation

-----------------------------------------------------------------------------
(* The variables ChangesAreVerified rests on keep to their values.         *)
SessionTypes ==
    /\ stage \in [Sessions -> {"idle", "asked", "verifying", "body", "answered"}]
    /\ asked \in [Sessions -> HttpRequests \cup FtpRequests \cup {Nothing}]
    /\ \A s \in Sessions :
          stage[s] # "idle" => asked[s] \in IF s \in HttpSessions THEN HttpRequests ELSE FtpRequests
    /\ last_ftp_command_ \in [FtpSessions -> {"User", "Other"}]
    /\ last_username_ \in [FtpSessions -> Names \cup {""}]
    /\ \A s \in FtpSessions : last_ftp_command_[s] = "User" => last_username_[s] \in Names
    /\ logged_in_user_ \in [FtpSessions -> Users \cup {NoUser}]

(* Whoever may act on the files has been verified, and an HTTP session has *)
(* asked for the credentials it was sent.                                  *)
ActorsAreVerified ==
    /\ \A s \in HttpSessions :
          /\ stage[s] = "verifying" => user[s] = asked[s].as
          /\ stage[s] = "body" => Right(asked[s].as)
    /\ \A s \in FtpSessions :
          /\ LoggedIn(s) => Right(logged_in_user_[s])
          /\ stage[s] = "body" => LoggedIn(s)

StorageInv == IInv /\ SessionTypes /\ ActorsAreVerified

(* The directory of an FTP session is the one its client is in, but for a  *)
(* reply the client has not read yet.                                      *)
DirectoryAgrees(s) ==
    /\ where[s] \in Directories
    /\ s \in FtpSessions =>
          /\ asked[s].do = "Cwd" => where[s] \o asked[s].arg \in Directories
          /\ current_working_dir_[s] = IF stage[s] = "answered" THEN Entered(s) ELSE where[s]

(* A session that waits for a body stores it where the client meant.       *)
BodyHasItsKey(s) ==
    /\ stage[s] = "idle" => asked[s] = Nothing
    /\ stage[s] = "body" => /\ asked[s].do \in {"PUT", "Stor"}
                            /\ Meant(s) = [op |-> "add", path |-> filepath[s], file |-> s]

(* A session is in a call of the database only to verify, an FTP session   *)
(* only for PASS.                                                          *)
CallsToVerify(s) ==
    /\ at[s] # "idle" => stage[s] = "verifying"
    /\ stage[s] = "verifying" /\ s \in FtpSessions => asked[s].do = "Pass"

(* What the refinement rests on: the client and its session agree on what  *)
(* has been asked, and where.                                              *)
FilesInv ==
    /\ StorageInv
    /\ where = [s \in Sessions |-> where[s]] /\ reply = [s \in Sessions |-> reply[s]]
    /\ filepath = [s \in Sessions |-> filepath[s]]
    /\ current_working_dir_ = [s \in FtpSessions |-> current_working_dir_[s]]
    /\ \A s \in Sessions : DirectoryAgrees(s) /\ BodyHasItsKey(s) /\ CallsToVerify(s)
=============================================================================
