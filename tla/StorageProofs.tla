----------------------------- MODULE StorageProofs -----------------------------
(* The shared server, for any number of sessions, administrators and users. *)
EXTENDS Storage, UserDatabaseProofs

(* What sessions and the application do to the database is what its        *)
(* callers may do.                                                         *)
LEMMA StepsOfTheDatabase ==
    ASSUME StorageInv, [StorageNext]_storage
    PROVE [Next]_db
<1>1. CASE UNCHANGED storage
    BY <1>1 DEF storage
<1>2. Sessions \subseteq Threads /\ Administrators \subseteq Threads
    BY ThreadsOfTheServer
<1>3. ASSUME NEW s \in HttpSessions, Http(s) PROVE [Next]_db
  <2>1. s \in Threads
    BY <1>2 DEF Sessions
  <2>2. CASE authHttpUser(s)
    <3>1. asked[s].as \in Users
        BY <2>2, RequestsAssumption DEF authHttpUser, StorageInv, SessionTypes, Sessions
    <3>2. verify(s, asked[s].as)
        BY <2>2 DEF authHttpUser
    <3>. QED
        BY <2>1, <3>1, <3>2 DEF Next
  <2>3. CASE Unauthorized(s) \/ handleHttpGet(s) \/ handleHttpDelete(s) \/ handleHttpPut(s)
    <3>1. Return(s)
        BY <2>3 DEF Unauthorized, handleHttpGet, handleHttpDelete, handleHttpPut, Admitted, handleHttp
    <3>. QED
        BY <2>1, <3>1 DEF Next
  <2>4. CASE HttpAsks(s) \/ PutDone(s)
    BY <2>4 DEF HttpAsks, Asks, PutDone
  <2>. QED
    BY <1>3, <2>2, <2>3, <2>4 DEF Http
<1>4. ASSUME NEW s \in FtpSessions, Ftp(s) PROVE [Next]_db
  <2>1. s \in Threads /\ s \in Sessions /\ s \notin HttpSessions
    BY <1>2, ThreadsOfTheServer DEF Sessions
  <2>2. CASE handleFtpPass(s) /\ last_ftp_command_[s] = "User"
    <3>. DEFINE u == [username |-> last_username_[s], password |-> asked[s].arg]
    <3>1. verify(s, u) /\ stage[s] = "asked" /\ asked[s].do = "Pass"
        BY <2>2 DEF handleFtpPass
    <3>2. asked[s].arg \in Passwords
      <4>1. asked[s] \in FtpRequests
        BY <2>1, <3>1 DEF StorageInv, SessionTypes
      <4>. QED
        BY <3>1, <4>1, RequestsAssumption
    <3>3. last_username_[s] \in Names
        BY <2>2 DEF StorageInv, SessionTypes
    <3>4. u \in Users
        BY <3>2, <3>3 DEF Users
    <3>. QED
        BY <2>1, <3>1, <3>4 DEF Next
  <2>3. CASE PassVerified(s)
    BY <2>1, <2>3 DEF PassVerified, Next
  <2>4. CASE handleFtpPass(s) /\ last_ftp_command_[s] # "User"
    BY <2>4 DEF handleFtpPass
  <2>5. CASE FtpAsks(s) \/ handleFtpUser(s) \/ handleFtpCwd(s) \/ handleFtpQuit(s)
    BY <2>5 DEF FtpAsks, Asks, handleFtpUser, handleFtpCwd, handleFtpQuit
  <2>6. CASE handleFtpList(s) \/ handleFtpRetr(s) \/ handleFtpStor(s) \/ saveFile(s) \/ handleFtpDele(s)
    BY <2>6 DEF handleFtpList, handleFtpRetr, handleFtpStor, saveFile, handleFtpDele, HandleFile
  <2>. QED
    BY <1>4, <2>2, <2>3, <2>4, <2>5, <2>6 DEF Ftp
<1>5. ASSUME NEW s \in Sessions, Reads(s) PROVE [Next]_db
    BY <1>5 DEF Reads
<1>6. ASSUME NEW t \in Administrators, addUser(t) PROVE [Next]_db
    BY <1>2, <1>6 DEF addUser, Next
<1>7. ASSUME NEW t \in Threads, InDatabase(t) PROVE [Next]_db
    BY <1>7 DEF InDatabase, Next
<1>. QED
    BY <1>1, <1>3, <1>4, <1>5, <1>6, <1>7 DEF StorageNext

LEMMA StorageInitInv == StorageInit => StorageInv
<1> SUFFICES ASSUME StorageInit PROVE StorageInv
    OBVIOUS
<1>1. IInv
    BY InitInv DEF StorageInit
<1>2. SessionTypes
    BY DEF StorageInit, SessionTypes
<1>3. ActorsAreVerified
    BY DEF StorageInit, ActorsAreVerified, LoggedIn, Sessions
<1>. QED
    BY <1>1, <1>2, <1>3 DEF StorageInv

(* Each session's stage and request, and what an FTP session knows of its  *)
(* user, keep to their values.                                             *)
LEMMA SessionTypesStay ==
    ASSUME StorageInv, StorageNext
    PROVE SessionTypes'
<1>. USE DEF SessionTypes, Sessions
<1>1. SessionTypes /\ HttpSessions \cap FtpSessions = {}
    BY ThreadsOfTheServer DEF StorageInv
<1>2. TypeOK
    BY DEF StorageInv, IInv
<1>3. ASSUME NEW s \in HttpSessions, Http(s) PROVE SessionTypes'
  <2>1. CASE HttpAsks(s)
    <3>1. PICK r \in HttpRequests : Asks(s, r)
        BY <2>1 DEF HttpAsks
    <3>. QED
        BY <1>1, <3>1 DEF Asks, login
  <2>2. CASE authHttpUser(s)
    BY <1>1, <2>2 DEF authHttpUser, client, login
  <2>3. CASE Unauthorized(s)
    BY <1>1, <2>3 DEF Unauthorized, handleHttp, Answer, client, login
  <2>4. CASE handleHttpGet(s)
    BY <1>1, <2>4 DEF handleHttpGet, Admitted, handleHttp, List, Get, Answer, client, login
  <2>5. CASE handleHttpDelete(s)
    BY <1>1, <2>5 DEF handleHttpDelete, Admitted, handleHttp, Remove, Answer, client, login
  <2>6. CASE handleHttpPut(s)
    BY <1>1, <2>6 DEF handleHttpPut, Admitted, handleHttp, client, login
  <2>7. CASE PutDone(s)
    BY <1>1, <2>7 DEF PutDone, Add, Answer, client, login
  <2>. QED
    BY <1>3, <2>1, <2>2, <2>3, <2>4, <2>5, <2>6, <2>7 DEF Http
<1>4. ASSUME NEW s \in FtpSessions, Ftp(s) PROVE SessionTypes'
  <2>. USE DEF client, login, IsLast, handleFtp, HandleFile, Answer, Refuse
  <2>1. CASE FtpAsks(s)
    <3>1. PICK r \in FtpRequests : Asks(s, r)
        BY <2>1 DEF FtpAsks
    <3>. QED
        BY <1>1, <3>1 DEF Asks, login
  <2>2. CASE handleFtpUser(s)
    <3>1. asked[s] \in FtpRequests /\ asked[s].do = "User"
        BY <1>1, <2>2 DEF handleFtpUser
    <3>2. asked[s].arg \in Names
        BY <3>1, RequestsAssumption
    <3>. QED
        BY <1>1, <2>2, <3>2 DEF handleFtpUser
  <2>3. CASE handleFtpPass(s)
    <3>1. UNCHANGED <<asked, last_username_, logged_in_user_>>
        BY <2>3 DEF handleFtpPass
    <3>2. stage[s] = "asked" /\ \E x \in {"answered", "verifying"} : stage' = [stage EXCEPT ![s] = x]
        BY <2>3 DEF handleFtpPass
    <3>3. last_ftp_command_' \in {last_ftp_command_, [last_ftp_command_ EXCEPT ![s] = "Other"]}
        BY <2>3 DEF handleFtpPass
    <3>. QED
        BY <1>1, <3>1, <3>2, <3>3
  <2>4. CASE PassVerified(s)
    <3>1. user[s] \in Users
        BY <1>2, ThreadsOfTheServer DEF TypeOK
    <3>. QED
        BY <1>1, <2>4, <3>1 DEF PassVerified
  <2>5. CASE handleFtpCwd(s)
    BY <1>1, <2>5 DEF handleFtpCwd
  <2>6. CASE handleFtpQuit(s)
    BY <1>1, <2>6 DEF handleFtpQuit
  <2>7. CASE handleFtpList(s)
    BY <1>1, <2>7 DEF handleFtpList, List
  <2>8. CASE handleFtpRetr(s)
    BY <1>1, <2>8 DEF handleFtpRetr, Get
  <2>9. CASE handleFtpStor(s)
    <3>1. /\ UNCHANGED <<asked, last_username_, logged_in_user_>>
          /\ last_ftp_command_' = [last_ftp_command_ EXCEPT ![s] = "Other"]
        BY <2>9 DEF handleFtpStor
    <3>2. stage[s] = "asked" /\ \E x \in {"answered", "body"} : stage' = [stage EXCEPT ![s] = x]
        BY <2>9 DEF handleFtpStor
    <3>. QED
        BY <1>1, <3>1, <3>2
  <2>10. CASE saveFile(s)
    BY <1>1, <2>10 DEF saveFile, Add
  <2>11. CASE handleFtpDele(s)
    BY <1>1, <2>11 DEF handleFtpDele, Remove
  <2>. QED
    BY <1>4, <2>1, <2>2, <2>3, <2>4, <2>5, <2>6, <2>7, <2>8, <2>9, <2>10, <2>11 DEF Ftp
<1>5. ASSUME NEW s \in Sessions, Reads(s) PROVE SessionTypes'
    BY <1>1, <1>5 DEF Reads, login
<1>6. ASSUME NEW t \in Administrators, addUser(t) PROVE SessionTypes'
    BY <1>1, <1>6 DEF addUser, client, login
<1>7. ASSUME NEW t \in Threads, InDatabase(t) PROVE SessionTypes'
    BY <1>1, <1>7 DEF InDatabase, client, login
<1>. QED
    BY <1>3, <1>4, <1>5, <1>6, <1>7 DEF StorageNext

(* How an HTTP session comes to wait for the database, and to wait for a   *)
(* body: only what the database has answered yes to.                       *)
LEMMA HttpTransitions ==
    ASSUME StorageInv, StorageNext, NEW s \in HttpSessions
    PROVE /\ stage'[s] = "verifying" =>
               \/ user'[s] = asked'[s].as
               \/ stage[s] = "verifying" /\ user'[s] = user[s] /\ asked'[s] = asked[s]
          /\ stage'[s] = "body" =>
               /\ asked'[s] = asked[s] /\ stage[s] # "idle"
               /\ \/ stage[s] = "body"
                  \/ stage[s] = "verifying" /\ at[s] = "verified" /\ answer[s]
<1>. DEFINE Goal ==
       /\ stage'[s] = "verifying" =>
            \/ user'[s] = asked'[s].as
            \/ stage[s] = "verifying" /\ user'[s] = user[s] /\ asked'[s] = asked[s]
       /\ stage'[s] = "body" =>
            /\ asked'[s] = asked[s] /\ stage[s] # "idle"
            /\ \/ stage[s] = "body"
               \/ stage[s] = "verifying" /\ at[s] = "verified" /\ answer[s]
<1>1. /\ Threads = HttpSessions \cup FtpSessions \cup Administrators
      /\ HttpSessions \cap FtpSessions = {} /\ HttpSessions \cap Administrators = {}
    BY ThreadsOfTheServer DEF Sessions
<1>2. user \in [Threads -> Users] /\ stage \in [Sessions -> {"idle", "asked", "verifying", "body", "answered"}]
      /\ asked \in [Sessions -> HttpRequests \cup FtpRequests \cup {Nothing}]
    BY DEF StorageInv, IInv, TypeOK, SessionTypes
<1>. USE DEF Sessions
<1>3. ASSUME NEW r \in HttpSessions, Http(r) PROVE Goal
  <2>. USE DEF Return, Answer, Admitted, handleHttp, client, login, db
  <2>1. CASE HttpAsks(r)
    <3>1. PICK q \in HttpRequests : Asks(r, q)
        BY <2>1 DEF HttpAsks
    <3>. QED
        BY <1>1, <1>2, <3>1 DEF Asks
  <2>2. CASE authHttpUser(r)
    BY <1>1, <1>2, <2>2 DEF authHttpUser, verify, Call
  <2>3. CASE Unauthorized(r)
    BY <1>1, <1>2, <2>3 DEF Unauthorized
  <2>4. CASE handleHttpGet(r)
    BY <1>1, <1>2, <2>4 DEF handleHttpGet, List, Get
  <2>5. CASE handleHttpDelete(r)
    BY <1>1, <1>2, <2>5 DEF handleHttpDelete, Remove
  <2>6. CASE handleHttpPut(r)
    BY <1>1, <1>2, <2>6 DEF handleHttpPut
  <2>7. CASE PutDone(r)
    BY <1>1, <1>2, <2>7 DEF PutDone, Add
  <2>. QED
    BY <1>3, <2>1, <2>2, <2>3, <2>4, <2>5, <2>6, <2>7 DEF Http
<1>4. ASSUME NEW r \in FtpSessions, Ftp(r) PROVE Goal
  <2>1. r # s
    BY <1>1
  <2>2. stage'[s] = stage[s] /\ user'[s] = user[s] /\ asked'[s] = asked[s]
    <3>. USE DEF Answer, handleFtp, HandleFile, Refuse, client, login, db
    <3>1. CASE FtpAsks(r)
      <4>1. PICK q \in FtpRequests : Asks(r, q)
        BY <3>1 DEF FtpAsks
      <4>. QED
        BY <1>1, <1>2, <2>1, <4>1 DEF Asks
    <3>2. CASE handleFtpPass(r)
        BY <1>1, <1>2, <2>1, <3>2 DEF handleFtpPass, verify, Call
    <3>3. CASE PassVerified(r)
        BY <1>1, <1>2, <2>1, <3>3 DEF PassVerified, Return
    <3>4. CASE handleFtpUser(r) \/ handleFtpCwd(r) \/ handleFtpQuit(r)
        BY <1>1, <1>2, <2>1, <3>4 DEF handleFtpUser, handleFtpCwd, handleFtpQuit
    <3>5. CASE handleFtpList(r) \/ handleFtpRetr(r)
        BY <1>1, <1>2, <2>1, <3>5 DEF handleFtpList, List, handleFtpRetr, Get
    <3>6. CASE handleFtpStor(r) \/ saveFile(r) \/ handleFtpDele(r)
        BY <1>1, <1>2, <2>1, <3>6 DEF handleFtpStor, saveFile, Add, handleFtpDele, Remove
    <3>. QED
        BY <1>4, <3>1, <3>2, <3>3, <3>4, <3>5, <3>6 DEF Ftp
  <2>. QED
    BY <2>2
<1>5. ASSUME NEW r \in Sessions, Reads(r) PROVE Goal
    BY <1>1, <1>2, <1>5 DEF Reads, db
<1>6. ASSUME NEW t \in Administrators, addUser(t) PROVE Goal
  <2>1. user'[s] = user[s]
    BY <1>1, <1>2, <1>6 DEF addUser, add, Call, Return
  <2>. QED
    BY <2>1, <1>6 DEF addUser, client
<1>7. ASSUME NEW t \in Threads, InDatabase(t) PROVE Goal
  <2>1. user' = user
    BY <1>7 DEF InDatabase, Within, LockExclusive, Insert, LockShared, Find, At, Unlock
  <2>. QED
    BY <2>1, <1>7 DEF InDatabase, client
<1>. QED
    BY <1>3, <1>4, <1>5, <1>6, <1>7 DEF StorageNext

(* How an FTP session comes to know its user, and to wait for an upload.   *)
LEMMA FtpTransitions ==
    ASSUME StorageInv, StorageNext, NEW s \in FtpSessions
    PROVE /\ \/ logged_in_user_'[s] \in {logged_in_user_[s], NoUser}
             \/ at[s] = "verified" /\ answer[s] /\ logged_in_user_'[s] = user[s]
          /\ stage'[s] = "body" => logged_in_user_'[s] = logged_in_user_[s] /\ (stage[s] = "body" \/ LoggedIn(s))
<1>. DEFINE Goal ==
       /\ \/ logged_in_user_'[s] \in {logged_in_user_[s], NoUser}
          \/ at[s] = "verified" /\ answer[s] /\ logged_in_user_'[s] = user[s]
       /\ stage'[s] = "body" => logged_in_user_'[s] = logged_in_user_[s] /\ (stage[s] = "body" \/ LoggedIn(s))
<1>1. HttpSessions \cap FtpSessions = {}
    BY ThreadsOfTheServer
<1>2. /\ stage \in [Sessions -> {"idle", "asked", "verifying", "body", "answered"}]
      /\ logged_in_user_ \in [FtpSessions -> Users \cup {NoUser}]
    BY DEF StorageInv, SessionTypes
<1>3. stage[s] = "body" => LoggedIn(s)
    BY DEF StorageInv, ActorsAreVerified
<1>. USE DEF Sessions, Answer, login
<1>4. ASSUME NEW r \in HttpSessions, Http(r) PROVE Goal
  <2>1. logged_in_user_' = logged_in_user_
    BY <1>4 DEF Http, HttpAsks, Asks, authHttpUser, Unauthorized, handleHttpGet, handleHttpDelete,
                handleHttpPut, PutDone, Admitted, handleHttp
  <2>2. stage'[s] = stage[s]
    <3>1. CASE HttpAsks(r)
      <4>1. PICK q \in HttpRequests : Asks(r, q)
        BY <3>1 DEF HttpAsks
      <4>. QED
        BY <1>1, <1>2, <4>1 DEF Asks
    <3>2. CASE authHttpUser(r) \/ Unauthorized(r) \/ handleHttpPut(r) \/ PutDone(r)
        BY <1>1, <1>2, <3>2 DEF authHttpUser, Unauthorized, handleHttpPut, PutDone, Add
    <3>3. CASE handleHttpGet(r) \/ handleHttpDelete(r)
        BY <1>1, <1>2, <3>3 DEF handleHttpGet, List, Get, handleHttpDelete, Remove
    <3>. QED
        BY <1>4, <3>1, <3>2, <3>3 DEF Http
  <2>. QED
    BY <2>1, <2>2, <1>3
<1>5. ASSUME NEW r \in FtpSessions, Ftp(r) PROVE Goal
  <2>. USE DEF LoggedIn, handleFtp, HandleFile, Refuse
  <2>1. CASE FtpAsks(r)
    <3>1. PICK q \in FtpRequests : Asks(r, q)
        BY <2>1 DEF FtpAsks
    <3>. QED
        BY <1>2, <3>1 DEF Asks
  <2>2. CASE handleFtpUser(r)
    BY <1>2, <2>2 DEF handleFtpUser
  <2>3. CASE handleFtpPass(r)
    BY <1>2, <2>3 DEF handleFtpPass
  <2>4. CASE PassVerified(r)
    BY <1>2, <2>4 DEF PassVerified
  <2>5. CASE handleFtpCwd(r) \/ handleFtpQuit(r)
    BY <1>2, <2>5 DEF handleFtpCwd, handleFtpQuit
  <2>6. CASE handleFtpList(r) \/ handleFtpRetr(r) \/ handleFtpDele(r)
    BY <1>2, <2>6 DEF handleFtpList, List, handleFtpRetr, Get, handleFtpDele, Remove
  <2>7. CASE handleFtpStor(r)
    BY <1>2, <2>7 DEF handleFtpStor
  <2>8. CASE saveFile(r)
    BY <1>2, <2>8 DEF saveFile, Add
  <2>. QED
    BY <1>5, <2>1, <2>2, <2>3, <2>4, <2>5, <2>6, <2>7, <2>8 DEF Ftp
<1>6. ASSUME NEW r \in Sessions, Reads(r) PROVE Goal
    BY <1>2, <1>6 DEF Reads
<1>7. ASSUME NEW t \in Administrators, addUser(t) PROVE Goal
    BY <1>7 DEF addUser
<1>8. ASSUME NEW t \in Threads, InDatabase(t) PROVE Goal
    BY <1>8 DEF InDatabase
<1>. QED
    BY <1>4, <1>5, <1>6, <1>7, <1>8 DEF StorageNext

LEMMA ActorsStay ==
    ASSUME StorageInv, StorageNext
    PROVE ActorsAreVerified'
<1>1. \A u \in Users : Right(u) => Right(u)'
  <2>1. CASE Next
    BY <2>1, RightStays DEF StorageInv
  <2>2. CASE UNCHANGED db
    BY <2>2 DEF db, Right
  <2>. QED
    BY <2>1, <2>2, StepsOfTheDatabase
<1>2. TypeOK /\ CredentialsHold /\ SessionTypes /\ ActorsAreVerified
    BY DEF StorageInv, IInv
<1>3. HttpSessions \subseteq Threads /\ FtpSessions \subseteq Threads
    BY ThreadsOfTheServer DEF Sessions
<1>4. ASSUME NEW s \in HttpSessions
      PROVE /\ stage'[s] = "verifying" => user'[s] = asked'[s].as
            /\ stage'[s] = "body" => Right(asked[s].as)'
  <2>1. stage'[s] = "verifying" => user'[s] = asked'[s].as
    BY HttpTransitions, <1>2 DEF ActorsAreVerified
  <2>2. ASSUME stage'[s] = "body" PROVE Right(asked[s].as)'
    <3>1. asked'[s] = asked[s] /\ asked[s].as \in Users
        BY <2>2, HttpTransitions, <1>2, RequestsAssumption DEF SessionTypes, Sessions
    <3>2. Right(asked[s].as)
      <4>1. CASE stage[s] = "body"
        BY <4>1, <1>2 DEF ActorsAreVerified
      <4>2. CASE stage[s] = "verifying" /\ at[s] = "verified" /\ answer[s]
        BY <4>2, <1>2, <1>3 DEF ActorsAreVerified, CredentialsHold
      <4>. QED
        BY <2>2, <4>1, <4>2, HttpTransitions
    <3>. QED
        BY <1>1, <3>1, <3>2 DEF Right
  <2>. QED
    BY <2>1, <2>2
<1>5. ASSUME NEW s \in FtpSessions
      PROVE /\ LoggedIn(s)' => Right(logged_in_user_[s])'
            /\ stage'[s] = "body" => LoggedIn(s)'
  <2>1. ASSUME logged_in_user_'[s] # NoUser PROVE Right(logged_in_user_[s])'
    <3>1. CASE logged_in_user_'[s] = logged_in_user_[s]
      <4>1. logged_in_user_[s] \in Users /\ Right(logged_in_user_[s])
        BY <2>1, <3>1, <1>2 DEF SessionTypes, ActorsAreVerified, LoggedIn
      <4>. QED
        BY <1>1, <3>1, <4>1 DEF Right
    <3>2. CASE at[s] = "verified" /\ answer[s] /\ logged_in_user_'[s] = user[s]
      <4>1. user[s] \in Users /\ Right(user[s])
        BY <3>2, <1>2, <1>3 DEF TypeOK, CredentialsHold
      <4>. QED
        BY <1>1, <3>2, <4>1 DEF Right
    <3>. QED
        BY <2>1, <3>1, <3>2, FtpTransitions
  <2>2. ASSUME stage'[s] = "body" PROVE logged_in_user_'[s] # NoUser
    <3>1. logged_in_user_'[s] = logged_in_user_[s] /\ (stage[s] = "body" \/ LoggedIn(s))
        BY <2>2, FtpTransitions
    <3>. QED
        BY <1>2, <3>1 DEF ActorsAreVerified, LoggedIn
  <2>. QED
    BY <2>1, <2>2 DEF LoggedIn
<1>. QED
    BY <1>4, <1>5 DEF ActorsAreVerified

LEMMA StorageInductive == StorageInv /\ [StorageNext]_storage => StorageInv'
<1> SUFFICES ASSUME StorageInv, [StorageNext]_storage PROVE StorageInv'
    OBVIOUS
<1>1. IInv'
    BY StepsOfTheDatabase, Inductive DEF StorageInv
<1>2. CASE StorageNext
    BY <1>1, <1>2, SessionTypesStay, ActorsStay DEF StorageInv
<1>3. CASE UNCHANGED storage
  <2>1. SessionTypes' /\ ActorsAreVerified'
    BY <1>3 DEF StorageInv, storage, client, login, db, SessionTypes, ActorsAreVerified, LoggedIn, Right
  <2>. QED
    BY <1>1, <2>1 DEF StorageInv
<1>. QED
    BY <1>2, <1>3

(* Whoever may act on the files has been verified, and still would be.     *)
THEOREM StorageInvariance == StorageSpec => []StorageInv
<1>. QED
    BY StorageInitInv, StorageInductive, PTL DEF StorageSpec

(* The sessions and the application use the database as its callers may:   *)
(* what holds of UserDatabase holds in the server.                         *)
THEOREM ServerUsesTheDatabase == StorageSpec => Spec
<1>1. StorageInit => Init
    BY DEF StorageInit
<1>2. StorageInv /\ [StorageNext]_storage => [Next]_db
    BY StepsOfTheDatabase
<1>. QED
    BY <1>1, <1>2, StorageInvariance, PTL DEF StorageSpec, Spec

(* So in the server too nobody meets the table in flux, verify answers for *)
(* an instant between call and return, and a password stays.               *)
THEOREM DatabaseInTheServer ==
    StorageSpec => []NoDataRace /\ []AnswersAreRight /\ FirstPasswordStays
<1>. QED
    BY ServerUsesTheDatabase, DataRaceFreedom, AnswersHold, PasswordsAreFinal, PTL

(* The files change only in the name of a user whose credentials are right *)
(* at that instant, in an answer to a client.                              *)
THEOREM OnlyVerifiedChanges == StorageSpec => ChangesAreVerified
<1>. DEFINE Verified(s) == /\ stage[s] # "answered" /\ stage'[s] = "answered"
                           /\ Actor(s) # NoUser /\ Right(Actor(s))
<1>1. ASSUME StorageInv, StorageNext, fs' # fs PROVE \E s \in Sessions : Verified(s)
  <2>1. TypeOK /\ CredentialsHold /\ SessionTypes /\ ActorsAreVerified
    BY <1>1 DEF StorageInv, IInv
  <2>2. ASSUME NEW s \in HttpSessions, Http(s) PROVE Verified(s)
    <3>1. CASE handleHttpDelete(s)
      <4>1. stage[s] = "verifying" /\ at[s] = "verified" /\ answer[s]
        BY <3>1 DEF handleHttpDelete, Admitted, handleHttp
      <4>2. s \in Threads /\ s \in Sessions
        BY ThreadsOfTheServer DEF Sessions
      <4>3. asked[s].as \in Users /\ Right(asked[s].as)
        BY <2>1, <4>1, <4>2, RequestsAssumption DEF SessionTypes, ActorsAreVerified, CredentialsHold
      <4>4. stage'[s] = "answered"
        BY <2>1, <3>1, <4>2 DEF handleHttpDelete, Remove, Answer, SessionTypes
      <4>. QED
        BY <4>1, <4>3, <4>4, SentinelsAssumption DEF Actor
    <3>2. CASE PutDone(s)
      <4>1. s \in Sessions
        BY DEF Sessions
      <4>2. stage[s] = "body" /\ stage'[s] = "answered"
        BY <2>1, <3>2, <4>1 DEF PutDone, Add, Answer, SessionTypes
      <4>3. asked[s].as \in Users /\ Right(asked[s].as)
        BY <2>1, <4>1, <4>2, RequestsAssumption DEF SessionTypes, ActorsAreVerified
      <4>. QED
        BY <4>2, <4>3, SentinelsAssumption DEF Actor
    <3>3. CASE HttpAsks(s) \/ authHttpUser(s) \/ Unauthorized(s) \/ handleHttpGet(s) \/ handleHttpPut(s)
        BY <1>1, <3>3 DEF HttpAsks, Asks, authHttpUser, Unauthorized, handleHttpGet, List, Get, handleHttpPut
    <3>. QED
        BY <2>2, <3>1, <3>2, <3>3 DEF Http
  <2>3. ASSUME NEW s \in FtpSessions, Ftp(s) PROVE Verified(s)
    <3>1. s \in Sessions /\ s \notin HttpSessions
        BY ThreadsOfTheServer DEF Sessions
    <3>2. CASE saveFile(s)
      <4>1. stage[s] = "body" /\ stage'[s] = "answered"
        BY <2>1, <3>1, <3>2 DEF saveFile, Add, Answer, SessionTypes
      <4>. QED
        BY <2>1, <3>1, <4>1 DEF ActorsAreVerified, Actor, LoggedIn
    <3>3. CASE handleFtpDele(s)
      <4>1. LoggedIn(s)
        BY <1>1, <3>3 DEF handleFtpDele, Refuse
      <4>2. stage[s] = "asked" /\ stage'[s] = "answered"
        BY <2>1, <3>1, <3>3 DEF handleFtpDele, HandleFile, handleFtp, Remove, Refuse, Answer, SessionTypes
      <4>. QED
        BY <2>1, <3>1, <4>1, <4>2 DEF ActorsAreVerified, Actor, LoggedIn
    <3>4. CASE \/ FtpAsks(s) \/ handleFtpUser(s) \/ handleFtpPass(s) \/ PassVerified(s)
               \/ handleFtpCwd(s) \/ handleFtpQuit(s) \/ handleFtpList(s)
               \/ handleFtpRetr(s) \/ handleFtpStor(s)
        BY <1>1, <3>4 DEF FtpAsks, Asks, handleFtpUser, handleFtpPass, PassVerified, handleFtpCwd,
                          handleFtpQuit, handleFtpList, List, handleFtpRetr, Get, handleFtpStor, Refuse
    <3>. QED
        BY <2>3, <3>2, <3>3, <3>4 DEF Ftp
  <2>4. CASE (\E s \in Sessions : Reads(s)) \/ (\E t \in Administrators : addUser(t))
             \/ (\E t \in Threads : InDatabase(t))
    BY <1>1, <2>4 DEF Reads, addUser, InDatabase
  <2>. QED
    BY <1>1, <2>2, <2>3, <2>4 DEF StorageNext, Sessions
<1>2. StorageInv /\ [StorageNext]_storage
        => [fs' # fs => \E s \in Sessions : Verified(s)]_storage
    BY <1>1
<1>. QED
    BY <1>2, StorageInvariance, PTL DEF StorageSpec, ChangesAreVerified

-----------------------------------------------------------------------------
(* The clients share one store. *)

(* What a step of a thread leaves alone of a session. *)
Alone(s) ==
    /\ asked'[s] = asked[s] /\ where'[s] = where[s]
    /\ stage'[s] = stage[s] /\ reply'[s] = reply[s] /\ filepath'[s] = filepath[s]
    /\ at'[s] = at[s] /\ answer'[s] = answer[s]
    /\ s \in FtpSessions => /\ logged_in_user_'[s] = logged_in_user_[s]
                            /\ current_working_dir_'[s] = current_working_dir_[s]

(* The variables a session has a part of are functions of the sessions. *)
LEMMA Parts ==
    ASSUME FilesInv
    PROVE  /\ asked = [s \in Sessions |-> asked[s]] /\ stage = [s \in Sessions |-> stage[s]]
           /\ where = [s \in Sessions |-> where[s]] /\ reply = [s \in Sessions |-> reply[s]]
           /\ filepath = [s \in Sessions |-> filepath[s]]
           /\ logged_in_user_ = [s \in FtpSessions |-> logged_in_user_[s]]
           /\ current_working_dir_ = [s \in FtpSessions |-> current_working_dir_[s]]
           /\ at = [t \in Threads |-> at[t]] /\ answer = [t \in Threads |-> answer[t]]
           /\ Sessions \subseteq Threads /\ HttpSessions \cap FtpSessions = {}
BY ThreadsOfTheServer DEF FilesInv, StorageInv, IInv, TypeOK, SessionTypes, Sessions

LEMMA HttpAlone ==
    ASSUME FilesInv, NEW t \in HttpSessions, Http(t), NEW s \in Sessions, s # t
    PROVE  Alone(s)
<1>. USE Parts DEF Alone, Sessions, client, login, db
<1>1. CASE HttpAsks(t)
  <2>1. PICK r \in HttpRequests : Asks(t, r)
    BY <1>1 DEF HttpAsks
  <2>. QED
    BY <2>1 DEF Asks
<1>2. CASE authHttpUser(t)
    BY <1>2 DEF authHttpUser, verify, Call, Goes, Answers
<1>3. CASE Unauthorized(t)
    BY <1>3 DEF Unauthorized, handleHttp, Answer, Return, Goes, Answers
<1>4. CASE handleHttpGet(t)
    BY <1>4 DEF handleHttpGet, Admitted, handleHttp, List, Get, Answer, Return, Goes, Answers
<1>5. CASE handleHttpDelete(t)
    BY <1>5 DEF handleHttpDelete, Admitted, handleHttp, Remove, Answer, Return, Goes, Answers
<1>6. CASE handleHttpPut(t)
    BY <1>6 DEF handleHttpPut, Admitted, handleHttp, Return, Goes, Answers
<1>7. CASE PutDone(t)
    BY <1>7 DEF PutDone, Add, Answer
<1>. QED
    BY <1>1, <1>2, <1>3, <1>4, <1>5, <1>6, <1>7 DEF Http

LEMMA FtpAlone ==
    ASSUME FilesInv, NEW t \in FtpSessions, Ftp(t), NEW s \in Sessions, s # t
    PROVE  Alone(s)
<1>. USE Parts DEF Alone, Sessions, client, login, db, handleFtp, HandleFile, Answer, Refuse
<1>1. CASE FtpAsks(t)
  <2>1. PICK r \in FtpRequests : Asks(t, r)
    BY <1>1 DEF FtpAsks
  <2>. QED
    BY <2>1 DEF Asks
<1>2. CASE handleFtpUser(t)
    BY <1>2 DEF handleFtpUser
<1>3. CASE handleFtpPass(t)
    BY <1>3 DEF handleFtpPass, verify, Call, Goes, Answers
<1>4. CASE PassVerified(t)
    BY <1>4 DEF PassVerified, Return, Goes, Answers
<1>5. CASE handleFtpCwd(t)
    BY <1>5 DEF handleFtpCwd
<1>6. CASE handleFtpQuit(t)
    BY <1>6 DEF handleFtpQuit
<1>7. CASE handleFtpList(t)
    BY <1>7 DEF handleFtpList, List
<1>8. CASE handleFtpRetr(t)
    BY <1>8 DEF handleFtpRetr, Get
<1>9. CASE handleFtpStor(t)
    BY <1>9 DEF handleFtpStor
<1>10. CASE saveFile(t)
    BY <1>10 DEF saveFile, Add
<1>11. CASE handleFtpDele(t)
    BY <1>11 DEF handleFtpDele, Remove
<1>. QED
    BY <1>1, <1>2, <1>3, <1>4, <1>5, <1>6, <1>7, <1>8, <1>9, <1>10, <1>11 DEF Ftp

LEMMA ReadsAlone ==
    ASSUME FilesInv, NEW t \in Sessions, Reads(t), NEW s \in Sessions, s # t
    PROVE  Alone(s)
BY Parts DEF Alone, Reads, login, db

LEMMA DatabaseAlone ==
    ASSUME FilesInv, NEW t \in Threads, InDatabase(t) \/ (t \in Administrators /\ addUser(t)),
           NEW s \in Sessions, s # t
    PROVE  Alone(s)
<1>1. at'[s] = at[s] /\ answer'[s] = answer[s]
  <2>. USE Parts DEF Goes, Answers
  <2>1. CASE InDatabase(t)
    BY <2>1 DEF InDatabase, Within, LockExclusive, Insert, LockShared, Find, At, Unlock
  <2>2. CASE addUser(t)
    BY <2>2 DEF addUser, add, Call, Return
  <2>. QED
    BY <2>1, <2>2
<1>. QED
    BY <1>1 DEF Alone, InDatabase, addUser, client, login

FileRequests == {"GET", "PUT", "DELETE", "List", "Retr", "Stor", "Dele"}

(* What a client asks of the files is an operation of the store, and       *)
(* nothing else it asks is one.                                            *)
LEMMA MeantIs ==
    ASSUME FilesInv, NEW s \in Sessions
    PROVE  /\ asked[s].do \in FileRequests => Meant(s) \in Shared!Operation /\ Meant(s) # NoUser
           /\ asked[s].do \notin FileRequests => Meant(s) = NoUser /\ Phase(s) = "idle"
<1>. DEFINE r == asked[s]
<1>1. where[s] \in Directories
    BY DEF FilesInv, DirectoryAgrees
<1>2. r.do \in FileRequests => Meant(s) \in Shared!Operation
  <2>1. CASE r = Nothing
    BY <2>1 DEF Nothing, Request, FileRequests
  <2>2. CASE r \in HttpRequests
    <3>1. r.do \in {"GET", "PUT", "DELETE"} /\ (r.arg \in Keys \/ (r.do = "GET" /\ r.arg = Root))
        BY <2>2, KeysAssumption
    <3>. QED
        BY <3>1 DEF Meant, Shared!Operation
  <2>3. CASE r \in FtpRequests
    <3>1. /\ r.do \in {"User", "Pass", "Cwd", "Quit", "List", "Retr", "Stor", "Dele"}
          /\ r.do = "Dele" => r.arg \in Keys
          /\ r.do \in {"Retr", "Stor"} => where[s] \o r.arg \in Keys
        BY <1>1, <2>3, KeysAssumption
    <3>. QED
        BY <3>1 DEF Meant, FileRequests, Shared!Operation
  <2>. QED
    BY <2>1, <2>2, <2>3 DEF FilesInv, StorageInv, SessionTypes
<1>3. r.do \notin FileRequests => Meant(s) = NoUser
    BY DEF Meant, FileRequests
<1>. QED
    BY <1>2, <1>3, NoCallAssumption DEF Phase

(* A session that is left alone is in the same call of the store. *)
LEMMA AloneSame ==
    ASSUME NEW s \in Sessions, Alone(s)
    PROVE  Meant(s)' = Meant(s) /\ Phase(s)' = Phase(s) /\ Outcome(s)' = Outcome(s)
<1>1. Meant(s)' = Meant(s)
    BY DEF Alone, Meant
<1>2. Outcome(s)' = Outcome(s)
    BY DEF Alone, Outcome
<1>3. s \in FtpSessions => LoggedIn(s)' = LoggedIn(s)
    BY DEF Alone, LoggedIn
<1>4. Phase(s)' = Phase(s)
    BY <1>1, <1>3 DEF Alone, Phase
<1>. QED
    BY <1>1, <1>2, <1>4

LEMMA AloneInOrder ==
    ASSUME FilesInv, NEW s \in Sessions, Alone(s)
    PROVE  (DirectoryAgrees(s) /\ BodyHasItsKey(s) /\ CallsToVerify(s))'
<1>1. DirectoryAgrees(s) /\ BodyHasItsKey(s) /\ CallsToVerify(s)
    BY DEF FilesInv
<1>2. Meant(s)' = Meant(s)
    BY AloneSame
<1>3. Entered(s)' = Entered(s)
    BY DEF Alone, Entered
<1>4. DirectoryAgrees(s)'
    BY <1>1, <1>3 DEF Alone, DirectoryAgrees
<1>5. BodyHasItsKey(s)'
    BY <1>1, <1>2 DEF Alone, BodyHasItsKey
<1>6. CallsToVerify(s)'
    BY <1>1 DEF Alone, CallsToVerify
<1>. QED
    BY <1>4, <1>5, <1>6

(* The parts stay functions of the sessions. *)
LEMMA PartsStay ==
    ASSUME FilesInv, StorageNext
    PROVE  /\ where' = [s \in Sessions |-> where'[s]] /\ reply' = [s \in Sessions |-> reply'[s]]
           /\ filepath' = [s \in Sessions |-> filepath'[s]]
           /\ current_working_dir_' = [s \in FtpSessions |-> current_working_dir_'[s]]
<1>. DEFINE Goal == /\ where' = [s \in Sessions |-> where'[s]] /\ reply' = [s \in Sessions |-> reply'[s]]
                    /\ filepath' = [s \in Sessions |-> filepath'[s]]
                    /\ current_working_dir_' = [s \in FtpSessions |-> current_working_dir_'[s]]
<1>. USE Parts DEF client, login, Answer
<1>1. ASSUME NEW t \in HttpSessions, Http(t) PROVE Goal
    BY <1>1 DEF Http, HttpAsks, Asks, authHttpUser, Unauthorized, handleHttpGet, handleHttpDelete,
                handleHttpPut, PutDone, Admitted, handleHttp, List, Get, Add, Remove
<1>2. ASSUME NEW t \in FtpSessions, Ftp(t) PROVE Goal
  <2>. USE DEF handleFtp, HandleFile, Refuse
  <2>1. CASE FtpAsks(t) \/ handleFtpUser(t) \/ handleFtpPass(t) \/ PassVerified(t)
    BY <2>1 DEF FtpAsks, Asks, handleFtpUser, handleFtpPass, PassVerified
  <2>2. CASE handleFtpCwd(t) \/ handleFtpQuit(t)
    <3>1. UNCHANGED <<where, filepath>> /\ \E r : reply' = [reply EXCEPT ![t] = r]
        BY <2>2 DEF handleFtpCwd, handleFtpQuit
    <3>2. \/ current_working_dir_' = current_working_dir_
          \/ \E d : current_working_dir_' = [current_working_dir_ EXCEPT ![t] = d]
        BY <2>2 DEF handleFtpCwd, handleFtpQuit
    <3>. QED
        BY <3>1, <3>2
  <2>3. CASE handleFtpList(t) \/ handleFtpRetr(t)
    BY <2>3 DEF handleFtpList, List, handleFtpRetr, Get
  <2>4. CASE handleFtpStor(t) \/ saveFile(t)
    BY <2>4 DEF handleFtpStor, saveFile, Add
  <2>5. CASE handleFtpDele(t)
    BY <2>5 DEF handleFtpDele, Remove
  <2>. QED
    BY <1>2, <2>1, <2>2, <2>3, <2>4, <2>5 DEF Ftp
<1>3. ASSUME NEW t \in Sessions, Reads(t) PROVE Goal
    BY <1>3 DEF Reads
<1>4. ASSUME NEW t \in Threads, addUser(t) \/ InDatabase(t) PROVE Goal
    BY <1>4 DEF addUser, InDatabase
<1>. QED
    BY <1>1, <1>2, <1>3, <1>4, ThreadsOfTheServer DEF StorageNext

(* What an HTTP session does keeps it in order. *)
LEMMA HttpInOrder ==
    ASSUME FilesInv, NEW s \in HttpSessions, Http(s)
    PROVE  (DirectoryAgrees(s) /\ BodyHasItsKey(s) /\ CallsToVerify(s))'
<1>1. s \in Sessions /\ s \notin FtpSessions /\ s \in Threads
    BY Parts DEF Sessions
<1>2. where[s] \in Directories /\ (at[s] # "idle" => stage[s] = "verifying")
      /\ (stage[s] = "idle" => asked[s] = Nothing)
    BY <1>1 DEF FilesInv, DirectoryAgrees, BodyHasItsKey, CallsToVerify
<1>. USE <1>1, <1>2, Parts DEF client, login, db
<1>3. where' = where
    BY DEF Http, HttpAsks, Asks, authHttpUser, Unauthorized, handleHttpGet, handleHttpDelete,
           handleHttpPut, PutDone, Admitted, handleHttp
<1>4. DirectoryAgrees(s)'
    BY <1>3 DEF DirectoryAgrees
<1>5. stage'[s] # "idle" /\ (at'[s] # "idle" => stage'[s] = "verifying")
  <2>1. CASE HttpAsks(s)
    <3>1. PICK r \in HttpRequests : Asks(s, r)
        BY <2>1 DEF HttpAsks
    <3>. QED
        BY <3>1 DEF Asks
  <2>2. CASE authHttpUser(s)
    BY <2>2 DEF authHttpUser, verify, Call, Goes
  <2>3. CASE Unauthorized(s)
    BY <2>3 DEF Unauthorized, handleHttp, Answer, Return, Goes
  <2>4. CASE handleHttpGet(s)
    BY <2>4 DEF handleHttpGet, Admitted, handleHttp, List, Get, Answer, Return, Goes
  <2>5. CASE handleHttpDelete(s)
    BY <2>5 DEF handleHttpDelete, Admitted, handleHttp, Remove, Answer, Return, Goes
  <2>6. CASE handleHttpPut(s)
    BY <2>6 DEF handleHttpPut, Admitted, handleHttp, Return, Goes
  <2>7. CASE PutDone(s)
    BY <2>7 DEF PutDone, Add, Answer
  <2>. QED
    BY <2>1, <2>2, <2>3, <2>4, <2>5, <2>6, <2>7 DEF Http
<1>6. BodyHasItsKey(s)'
  <2>1. CASE handleHttpPut(s)
    <3>1. /\ asked[s].do = "PUT" /\ asked'[s] = asked[s]
          /\ filepath'[s] = asked[s].arg
        BY <2>1 DEF handleHttpPut, Admitted, handleHttp
    <3>2. Meant(s)' = [op |-> "add", path |-> asked[s].arg, file |-> s]
        BY <3>1 DEF Meant
    <3>. QED
        BY <1>5, <3>1, <3>2 DEF BodyHasItsKey
  <2>2. CASE ~handleHttpPut(s)
    <3>1. stage'[s] # "body"
      <4>1. CASE HttpAsks(s)
        <5>1. PICK r \in HttpRequests : Asks(s, r)
            BY <4>1 DEF HttpAsks
        <5>. QED
            BY <5>1 DEF Asks
      <4>2. CASE authHttpUser(s)
        BY <4>2 DEF authHttpUser
      <4>3. CASE Unauthorized(s) \/ PutDone(s)
        BY <4>3 DEF Unauthorized, PutDone, Add, Answer
      <4>4. CASE handleHttpGet(s) \/ handleHttpDelete(s)
        BY <4>4 DEF handleHttpGet, handleHttpDelete, List, Get, Remove, Answer
      <4>. QED
        BY <2>2, <4>1, <4>2, <4>3, <4>4 DEF Http
    <3>. QED
        BY <1>5, <3>1 DEF BodyHasItsKey
  <2>. QED
    BY <2>1, <2>2
<1>7. CallsToVerify(s)'
    BY <1>5 DEF CallsToVerify
<1>. QED
    BY <1>4, <1>6, <1>7

(* How the stage of an FTP session goes on, and what it does to its        *)
(* directory.                                                              *)
LEMMA FtpGoesOn ==
    ASSUME FilesInv, NEW s \in FtpSessions, Ftp(s)
    PROVE  \/ /\ stage[s] = "idle" /\ stage'[s] = "asked" /\ asked'[s] \in FtpRequests
              /\ asked'[s].do = "Cwd" => where[s] \o asked'[s].arg \in Directories
              /\ at'[s] = at[s] /\ current_working_dir_'[s] = current_working_dir_[s]
           \/ /\ stage[s] = "asked" /\ stage'[s] = "verifying" /\ asked[s].do = "Pass"
              /\ asked'[s] = asked[s] /\ current_working_dir_'[s] = current_working_dir_[s]
           \/ /\ stage[s] = "asked" /\ stage'[s] = "body" /\ asked[s].do = "Stor"
              /\ filepath'[s] = PathOf(s)
              /\ asked'[s] = asked[s] /\ at'[s] = at[s]
              /\ current_working_dir_'[s] = current_working_dir_[s]
           \/ /\ stage[s] # "answered" /\ stage'[s] = "answered" /\ asked'[s] = asked[s]
              /\ at'[s] \in {"idle", at[s]} /\ (stage[s] = "verifying" => at'[s] = "idle")
              /\ current_working_dir_'[s] =
                    IF asked[s].do = "Cwd" /\ reply'[s].code = 250 THEN current_working_dir_[s] \o asked[s].arg
                    ELSE IF asked[s].do = "Quit" THEN Root ELSE current_working_dir_[s]
<1>1. s \in Sessions /\ s \notin HttpSessions /\ s \in Threads
    BY Parts DEF Sessions
<1>2. stage[s] = "verifying" => asked[s].do = "Pass"
    BY <1>1 DEF FilesInv, CallsToVerify
<1>3. stage[s] = "body" => asked[s].do = "Stor"
  <2>1. ASSUME stage[s] = "body" PROVE asked[s].do = "Stor"
    <3>1. asked[s].do \in {"PUT", "Stor"}
        BY <1>1, <2>1 DEF FilesInv, BodyHasItsKey
    <3>2. asked[s] \in FtpRequests
        BY <1>1, <2>1 DEF FilesInv, StorageInv, SessionTypes
    <3>. QED
        BY <3>1, <3>2, KeysAssumption
  <2>. QED
    BY <2>1
<1>. USE <1>1, <1>2, <1>3, Parts DEF client, login, db, handleFtp, HandleFile, Answer, Refuse
<1>4. CASE FtpAsks(s)
  <2>1. PICK r \in FtpRequests : (r.do = "Cwd" => where[s] \o r.arg \in Directories) /\ Asks(s, r)
    BY <1>4 DEF FtpAsks
  <2>. QED
    BY <2>1 DEF Asks
<1>5. CASE handleFtpUser(s)
    BY <1>5 DEF handleFtpUser
<1>6. CASE handleFtpPass(s)
    BY <1>6 DEF handleFtpPass, Code, Reply
<1>7. CASE PassVerified(s)
    BY <1>7 DEF PassVerified, Return, Goes
<1>8. CASE handleFtpCwd(s)
    BY <1>8 DEF handleFtpCwd, Code, Reply
<1>9. CASE handleFtpQuit(s)
    BY <1>9 DEF handleFtpQuit
<1>10. CASE handleFtpList(s)
    BY <1>10 DEF handleFtpList, List
<1>11. CASE handleFtpRetr(s)
    BY <1>11 DEF handleFtpRetr, Get
<1>12. CASE handleFtpStor(s)
    BY <1>12 DEF handleFtpStor
<1>13. CASE saveFile(s)
    BY <1>13 DEF saveFile, Add
<1>14. CASE handleFtpDele(s)
    BY <1>14 DEF handleFtpDele, Remove
<1>. QED
    BY <1>4, <1>5, <1>6, <1>7, <1>8, <1>9, <1>10, <1>11, <1>12, <1>13, <1>14 DEF Ftp

LEMMA FtpInOrder ==
    ASSUME FilesInv, NEW s \in FtpSessions, Ftp(s)
    PROVE  (DirectoryAgrees(s) /\ BodyHasItsKey(s) /\ CallsToVerify(s))'
<1>1. s \in Sessions
    BY DEF Sessions
<1>2. DirectoryAgrees(s) /\ BodyHasItsKey(s) /\ CallsToVerify(s)
    BY <1>1 DEF FilesInv
<1>3. where'[s] = where[s]
    BY DEF Ftp, FtpAsks, Asks, handleFtpUser, handleFtpPass, PassVerified, handleFtpCwd, handleFtpQuit,
           handleFtpList, handleFtpRetr, handleFtpStor, saveFile, handleFtpDele, HandleFile, handleFtp, client
<1>4. CASE stage'[s] = "asked"
    BY <1>2, <1>3, <1>4, FtpGoesOn DEF DirectoryAgrees, BodyHasItsKey, CallsToVerify
<1>5. CASE stage'[s] = "verifying"
    BY <1>1, <1>2, <1>3, <1>5, FtpGoesOn DEF DirectoryAgrees, BodyHasItsKey, CallsToVerify
<1>6. CASE stage'[s] = "body"
  <2>1. /\ stage[s] = "asked" /\ asked[s].do = "Stor" /\ asked'[s] = asked[s]
        /\ filepath'[s] = PathOf(s) /\ at'[s] = at[s] /\ current_working_dir_'[s] = current_working_dir_[s]
    BY <1>6, FtpGoesOn
  <2>2. Meant(s)' = [op |-> "add", path |-> where[s] \o asked[s].arg, file |-> s]
    BY <1>3, <2>1 DEF Meant
  <2>3. filepath'[s] = where[s] \o asked[s].arg
    BY <1>2, <2>1 DEF PathOf, DirectoryAgrees
  <2>4. BodyHasItsKey(s)'
    BY <1>6, <2>1, <2>2, <2>3 DEF BodyHasItsKey
  <2>. QED
    BY <1>2, <1>3, <1>6, <2>1, <2>4 DEF DirectoryAgrees, CallsToVerify
<1>7. CASE stage'[s] = "answered"
  <2>1. /\ stage[s] # "answered" /\ asked'[s] = asked[s]
        /\ at'[s] \in {"idle", at[s]} /\ (stage[s] = "verifying" => at'[s] = "idle")
        /\ current_working_dir_'[s] =
              IF asked[s].do = "Cwd" /\ reply'[s].code = 250 THEN current_working_dir_[s] \o asked[s].arg
              ELSE IF asked[s].do = "Quit" THEN Root ELSE current_working_dir_[s]
    BY <1>7, FtpGoesOn
  <2>2. current_working_dir_[s] = where[s]
    BY <1>2, <2>1 DEF DirectoryAgrees
  <2>3. current_working_dir_'[s] = Entered(s)'
    BY <1>3, <2>1, <2>2 DEF Entered
  <2>. QED
    BY <1>2, <1>3, <1>7, <2>1, <2>3 DEF DirectoryAgrees, BodyHasItsKey, CallsToVerify
<1>. QED
    BY <1>4, <1>5, <1>6, <1>7, FtpGoesOn

LEMMA ReadsInOrder ==
    ASSUME FilesInv, NEW s \in Sessions, Reads(s)
    PROVE  (DirectoryAgrees(s) /\ BodyHasItsKey(s) /\ CallsToVerify(s))'
<1>1. DirectoryAgrees(s) /\ BodyHasItsKey(s) /\ CallsToVerify(s)
    BY DEF FilesInv
<1>2. /\ stage[s] = "answered" /\ stage'[s] = "idle" /\ asked'[s] = Nothing /\ at'[s] = at[s]
      /\ where'[s] = Entered(s) /\ current_working_dir_' = current_working_dir_
    BY Parts DEF Reads, login, db
<1>3. Entered(s) \in Directories
  <2>1. s \in HttpSessions => asked[s] \in HttpRequests
    BY <1>2 DEF FilesInv, StorageInv, SessionTypes
  <2>2. s \in FtpSessions \/ asked[s].do \notin {"Cwd", "Quit"}
    BY <2>1, KeysAssumption DEF Sessions
  <2>3. asked[s].do = "Cwd" => where[s] \o asked[s].arg \in Directories
    BY <1>1, <2>2 DEF DirectoryAgrees
  <2>. QED
    BY <1>1, <2>3, KeysAssumption DEF Entered, DirectoryAgrees
<1>4. DirectoryAgrees(s)'
    BY <1>1, <1>2, <1>3 DEF DirectoryAgrees, Nothing, Request
<1>. QED
    BY <1>1, <1>2, <1>4 DEF BodyHasItsKey, CallsToVerify

(* What goes on in the database keeps a session in order. *)
LEMMA DatabaseInOrder ==
    ASSUME FilesInv, NEW s \in Sessions, InDatabase(s)
    PROVE  (DirectoryAgrees(s) /\ BodyHasItsKey(s) /\ CallsToVerify(s))'
<1>1. DirectoryAgrees(s) /\ BodyHasItsKey(s) /\ CallsToVerify(s)
    BY DEF FilesInv
<1>2. UNCHANGED <<asked, where, stage, reply, filepath, logged_in_user_, current_working_dir_>>
    BY DEF InDatabase, client, login
<1>3. at[s] # "idle"
    BY DEF InDatabase, Within, LockExclusive, Insert, LockShared, Find, At, Unlock
<1>4. Meant(s)' = Meant(s) /\ Entered(s)' = Entered(s)
    BY <1>2 DEF Meant, Entered
<1>. QED
    BY <1>1, <1>2, <1>3, <1>4 DEF DirectoryAgrees, BodyHasItsKey, CallsToVerify

LEMMA FilesInitInv == StorageInit => FilesInv
<1> SUFFICES ASSUME StorageInit PROVE FilesInv
    OBVIOUS
<1>1. StorageInv
    BY StorageInitInv
<1>2. ASSUME NEW s \in Sessions PROVE DirectoryAgrees(s) /\ BodyHasItsKey(s) /\ CallsToVerify(s)
  <2>1. /\ stage[s] = "idle" /\ asked[s] = Nothing /\ where[s] = Root
        /\ s \in FtpSessions => current_working_dir_[s] = Root
    BY DEF StorageInit
  <2>2. at[s] = "idle"
    BY ThreadsOfTheServer DEF StorageInit, Init
  <2>. QED
    BY <2>1, <2>2, KeysAssumption DEF DirectoryAgrees, BodyHasItsKey, CallsToVerify, Nothing, Request
<1>3. /\ where = [s \in Sessions |-> where[s]] /\ reply = [s \in Sessions |-> reply[s]]
      /\ filepath = [s \in Sessions |-> filepath[s]]
      /\ current_working_dir_ = [s \in FtpSessions |-> current_working_dir_[s]]
    BY DEF StorageInit
<1>. QED
    BY <1>1, <1>2, <1>3 DEF FilesInv

LEMMA FilesInductive == FilesInv /\ [StorageNext]_storage => FilesInv'
<1> SUFFICES ASSUME FilesInv, [StorageNext]_storage PROVE FilesInv'
    OBVIOUS
<1>1. StorageInv'
    BY StorageInductive DEF FilesInv
<1>2. CASE StorageNext
  <2>1. ASSUME NEW s \in Sessions PROVE (DirectoryAgrees(s) /\ BodyHasItsKey(s) /\ CallsToVerify(s))'
    <3>1. CASE \E t \in HttpSessions : Http(t)
        BY <3>1, HttpAlone, HttpInOrder, AloneInOrder
    <3>2. CASE \E t \in FtpSessions : Ftp(t)
        BY <3>2, FtpAlone, FtpInOrder, AloneInOrder
    <3>3. CASE \E t \in Sessions : Reads(t)
        BY <3>3, ReadsAlone, ReadsInOrder, AloneInOrder
    <3>4. CASE \E t \in Administrators : addUser(t)
        BY <3>4, DatabaseAlone, AloneInOrder, ThreadsOfTheServer
    <3>5. CASE \E t \in Threads : InDatabase(t)
        BY <3>5, DatabaseAlone, DatabaseInOrder, AloneInOrder
    <3>. QED
        BY <1>2, <3>1, <3>2, <3>3, <3>4, <3>5 DEF StorageNext
  <2>. QED
    BY <1>1, <1>2, <2>1, PartsStay DEF FilesInv
<1>3. CASE UNCHANGED storage
  <2>1. ASSUME NEW s \in Sessions PROVE (DirectoryAgrees(s) /\ BodyHasItsKey(s) /\ CallsToVerify(s))'
    BY <1>3, AloneInOrder DEF Alone, storage, client, login, db
  <2>2. UNCHANGED <<where, reply, filepath, current_working_dir_>>
    BY <1>3 DEF storage, client, login
  <2>. QED
    BY <1>1, <2>1, <2>2 DEF FilesInv
<1>. QED
    BY <1>2, <1>3

(* A session and its client agree on what has been asked, and where. *)
THEOREM FilesInvariance == StorageSpec => []FilesInv
<1>. QED
    BY FilesInitInv, FilesInductive, PTL DEF StorageSpec

-----------------------------------------------------------------------------
(* The steps of the shared store. *)

LEMMA MeantStays ==
    FilesInv' => \A s \in Sessions :
        /\ (asked[s].do \in FileRequests)' => (Meant(s) \in Shared!Operation)' /\ (Meant(s) # NoUser)'
        /\ ~(asked[s].do \in FileRequests)' => (Meant(s) = NoUser /\ Phase(s) = "idle")'
<1>1. FilesInv => \A s \in Sessions :
        /\ asked[s].do \in FileRequests => Meant(s) \in Shared!Operation /\ Meant(s) # NoUser
        /\ asked[s].do \notin FileRequests => Meant(s) = NoUser /\ Phase(s) = "idle"
    BY MeantIs
<1>2. (FilesInv => \A s \in Sessions :
        /\ asked[s].do \in FileRequests => Meant(s) \in Shared!Operation /\ Meant(s) # NoUser
        /\ asked[s].do \notin FileRequests => Meant(s) = NoUser /\ Phase(s) = "idle")'
    BY <1>1, PTL
<1>. QED
    BY <1>2

(* A step of one session changes its part of the abstract variables only. *)
LEMMA OwnPart ==
    ASSUME NEW s \in Sessions, \A u \in Sessions : u # s => Alone(u)
    PROVE  /\ calls' = [calls EXCEPT ![s] = calls'[s]]
           /\ phases' = [phases EXCEPT ![s] = phases'[s]]
           /\ results' = [results EXCEPT ![s] = results'[s]]
<1>1. ASSUME NEW u \in Sessions, u # s
      PROVE  Meant(u)' = Meant(u) /\ Phase(u)' = Phase(u) /\ Outcome(u)' = Outcome(u)
    BY <1>1, AloneSame
<1>2. calls' = [calls EXCEPT ![s] = calls'[s]]
    BY <1>1 DEF calls
<1>3. phases' = [phases EXCEPT ![s] = phases'[s]]
    BY <1>1 DEF phases
<1>4. results' = [results EXCEPT ![s] = results'[s]]
    BY <1>1 DEF results
<1>. QED
    BY <1>2, <1>3, <1>4

(* A step after which its session is where it was in its call. *)
LEMMA Stutters ==
    ASSUME NEW s \in Sessions, \A u \in Sessions : u # s => Alone(u), fs' = fs,
           \/ Phase(s) = "idle" /\ Phase(s)' = "idle"
           \/ Phase(s) = "called" /\ Phase(s)' = "called" /\ Meant(s)' = Meant(s)
    PROVE  UNCHANGED Shared!vars
<1>1. calls'[s] = calls[s] /\ phases'[s] = phases[s] /\ results'[s] = results[s]
    BY DEF calls, phases, results
<1>2. calls' = calls
    BY <1>1, OwnPart DEF calls
<1>3. phases' = phases
    BY <1>1, OwnPart DEF phases
<1>4. results' = results
    BY <1>1, OwnPart DEF results
<1>. QED
    BY <1>2, <1>3, <1>4 DEF Shared!vars

(* A client is let in with what it asks. *)
LEMMA Calls ==
    ASSUME FilesInv', NEW s \in Sessions, \A u \in Sessions : u # s => Alone(u), fs' = fs,
           Phase(s) = "idle", Phase(s)' = "called"
    PROVE  Shared!Call(s)
<1>1. (Meant(s) \in Shared!Operation)'
    BY MeantStays
<1>2. Meant(s)' \in Shared!Operation
    BY <1>1 DEF Shared!Operation
<1>3. phases[s] = "idle" /\ phases'[s] = "called" /\ calls'[s] = Meant(s)' /\ results'[s] = results[s]
    BY DEF calls, phases, results
<1>4. results' = results
    BY <1>3, OwnPart DEF results
<1>. QED
    BY <1>2, <1>3, <1>4, OwnPart DEF Shared!Call

(* A client has read its reply. *)
LEMMA Returns ==
    ASSUME NEW s \in Sessions, \A u \in Sessions : u # s => Alone(u), fs' = fs,
           Phase(s) = "answered", Phase(s)' = "idle"
    PROVE  Shared!Return(s)
<1>1. phases[s] = "answered" /\ phases'[s] = "idle" /\ calls'[s] = NoUser /\ results'[s] = Shared!NoResult
    BY DEF calls, phases, results, Shared!NoResult
<1>. QED
    BY <1>1, OwnPart DEF Shared!Return

(* A session has asked the filesystem, and answers. *)
LEMMA AnswersAsStore ==
    ASSUME FilesInv, NEW s \in Sessions, \A u \in Sessions : u # s => Alone(u),
           Phase(s) = "called", Meant(s)' = Meant(s), Phase(s)' = "answered",
           \/ /\ Meant(s).op = "get"
              /\ Outcome(s)' = Shared!Get(Meant(s).path) /\ fs' = fs
           \/ /\ Meant(s).op = "add"
              /\ Outcome(s)' = Shared!Add(Meant(s).path)
              /\ fs' = IF fs[Meant(s).path] = NoFile THEN [fs EXCEPT ![Meant(s).path] = Meant(s).file] ELSE fs
           \/ /\ Meant(s).op = "list"
              /\ Outcome(s)' = Shared!List /\ fs' = fs
           \/ /\ Meant(s).op = "remove"
              /\ Outcome(s)' = Shared!Remove(Meant(s).path)
              /\ fs' = [fs EXCEPT ![Meant(s).path] = NoFile]
    PROVE  Shared!Answer(s)
<1>1. /\ phases[s] = "called" /\ phases'[s] = "answered"
      /\ calls[s] = Meant(s) /\ calls'[s] = calls[s] /\ results'[s] = Outcome(s)'
    BY DEF calls, phases, results
<1>2. calls' = calls
    BY <1>1, OwnPart DEF calls
<1>3. phases' = [phases EXCEPT ![s] = "answered"] /\ results' = [results EXCEPT ![s] = Outcome(s)']
    BY <1>1, OwnPart
<1>. QED
    BY <1>1, <1>2, <1>3 DEF Shared!Answer

(* What a client reads out of a reply. *)
LEMMA OutcomeIs ==
    ASSUME NEW s \in Sessions, NEW c, NEW f, NEW l, reply'[s] = Reply(c, f, l)
    PROVE  Outcome(s)' =
             [status |-> IF c \in {200, 201, 226, 250} THEN "Success"
                         ELSE IF c = 450 \/ (c = 404 /\ asked'[s].do = "PUT") THEN "AlreadyExists"
                         ELSE "FileNotFound",
              file |-> f, list |-> l]
<1>1. reply'[s].code = c /\ reply'[s].file = f /\ reply'[s].list = l
    BY DEF Reply
<1>. QED
    BY <1>1 DEF Outcome

(* The answers of the store, field by field. *)
LEMMA StoreAnswers ==
    /\ Shared!List = [status |-> "Success", file |-> NoFile, list |-> {k \in Keys : Stored(k)}]
    /\ \A k : /\ Shared!Get(k) = [status |-> IF Stored(k) THEN "Success" ELSE "FileNotFound",
                                  file |-> fs[k], list |-> {}]
              /\ Shared!Add(k) = [status |-> IF Stored(k) THEN "AlreadyExists" ELSE "Success",
                                  file |-> NoFile, list |-> {}]
              /\ Shared!Remove(k) = [status |-> IF Stored(k) THEN "Success" ELSE "FileNotFound",
                                     file |-> NoFile, list |-> {}]
<1>1. Shared!Stored(fs) = {k \in Keys : Stored(k)}
    BY DEF Shared!Stored, Stored
<1>2. Shared!List = [status |-> "Success", file |-> NoFile, list |-> {k \in Keys : Stored(k)}]
    BY <1>1 DEF Shared!List, Shared!NoResult
<1>3. ASSUME NEW k
      PROVE  /\ Shared!Get(k) = [status |-> IF Stored(k) THEN "Success" ELSE "FileNotFound",
                                 file |-> fs[k], list |-> {}]
             /\ Shared!Add(k) = [status |-> IF Stored(k) THEN "AlreadyExists" ELSE "Success",
                                 file |-> NoFile, list |-> {}]
             /\ Shared!Remove(k) = [status |-> IF Stored(k) THEN "Success" ELSE "FileNotFound",
                                    file |-> NoFile, list |-> {}]
    BY DEF Shared!Get, Shared!Add, Shared!Remove, Shared!NoResult, Stored
<1>. QED
    BY <1>2, <1>3

(* The four operations of the filesystem, as either protocol replies.      *)
LEMMA ListImplements ==
    ASSUME FilesInv, NEW s \in Sessions, \A u \in Sessions : u # s => Alone(u),
           Phase(s) = "called", Meant(s)' = Meant(s), Meant(s) # NoUser, Meant(s) = [op |-> "list"],
           NEW code \in {200, 226}, List(s, code)
    PROVE  Shared!Answer(s)
<1>1. /\ stage'[s] = "answered" /\ reply'[s] = Reply(code, NoFile, {k \in Keys : Stored(k)})
      /\ fs' = fs
    BY Parts DEF List, Answer
<1>2. Phase(s)' = "answered"
    BY <1>1 DEF Phase, Reply
<1>3. Outcome(s)' = [status |-> "Success", file |-> NoFile, list |-> {k \in Keys : Stored(k)}]
    BY <1>1, OutcomeIs
<1>4. Outcome(s)' = Shared!List
    BY <1>3, StoreAnswers
<1>. QED
    BY <1>1, <1>2, <1>4, AnswersAsStore

LEMMA GetImplements ==
    ASSUME FilesInv, NEW s \in Sessions, \A u \in Sessions : u # s => Alone(u),
           Phase(s) = "called", Meant(s)' = Meant(s), Meant(s) # NoUser,
           NEW k, Meant(s) = [op |-> "get", path |-> k], asked'[s].do # "PUT",
           NEW found \in {200, 226}, NEW missing \in {404, 550}, Get(s, k, found, missing)
    PROVE  Shared!Answer(s)
<1>1. /\ stage'[s] = "answered" /\ fs' = fs
      /\ reply'[s] = Reply(IF Stored(k) THEN found ELSE missing, fs[k], {})
    BY Parts DEF Get, Answer, Code, Stored
<1>2. Phase(s)' = "answered"
    BY <1>1 DEF Phase, Reply
<1>3. Outcome(s)' = [status |-> IF Stored(k) THEN "Success" ELSE "FileNotFound",
                     file |-> fs[k], list |-> {}]
    BY <1>1, OutcomeIs
<1>4. Outcome(s)' = Shared!Get(k)
    BY <1>3, StoreAnswers
<1>5. Meant(s).op = "get" /\ Meant(s).path = k
    OBVIOUS
<1>. QED
    BY <1>1, <1>2, <1>4, <1>5, AnswersAsStore

LEMMA AddImplements ==
    ASSUME FilesInv, NEW s \in Sessions, \A u \in Sessions : u # s => Alone(u),
           Phase(s) = "called", Meant(s)' = Meant(s), Meant(s) # NoUser,
           NEW k, Meant(s) = [op |-> "add", path |-> k, file |-> s],
           NEW added \in {201, 226}, NEW exists, Add(s, k, added, exists),
           exists = 450 \/ (exists = 404 /\ asked'[s].do = "PUT")
    PROVE  Shared!Answer(s)
<1>1. /\ stage'[s] = "answered" /\ reply'[s] = Reply(IF Stored(k) THEN exists ELSE added, NoFile, {})
      /\ fs' = IF fs[k] = NoFile THEN [fs EXCEPT ![k] = s] ELSE fs
    BY Parts DEF Add, Answer, Code, Stored
<1>2. Phase(s)' = "answered"
    BY <1>1 DEF Phase, Reply
<1>3. Outcome(s)' = [status |-> IF Stored(k) THEN "AlreadyExists" ELSE "Success",
                     file |-> NoFile, list |-> {}]
    BY <1>1, OutcomeIs
<1>4. Outcome(s)' = Shared!Add(k)
    BY <1>3, StoreAnswers
<1>5. Meant(s).op = "add" /\ Meant(s).path = k /\ Meant(s).file = s
    OBVIOUS
<1>. QED
    BY <1>1, <1>2, <1>4, <1>5, AnswersAsStore

LEMMA RemoveImplements ==
    ASSUME FilesInv, NEW s \in Sessions, \A u \in Sessions : u # s => Alone(u),
           Phase(s) = "called", Meant(s)' = Meant(s), Meant(s) # NoUser,
           NEW k, Meant(s) = [op |-> "remove", path |-> k], asked'[s].do # "PUT",
           NEW removed \in {200, 250}, NEW missing \in {404, 550}, Remove(s, k, removed, missing)
    PROVE  Shared!Answer(s)
<1>1. /\ stage'[s] = "answered" /\ fs' = [fs EXCEPT ![k] = NoFile]
      /\ reply'[s] = Reply(IF Stored(k) THEN removed ELSE missing, NoFile, {})
    BY Parts DEF Remove, Answer, Code
<1>2. Phase(s)' = "answered"
    BY <1>1 DEF Phase, Reply
<1>3. Outcome(s)' = [status |-> IF Stored(k) THEN "Success" ELSE "FileNotFound",
                     file |-> NoFile, list |-> {}]
    BY <1>1, OutcomeIs
<1>4. Outcome(s)' = Shared!Remove(k)
    BY <1>3, StoreAnswers
<1>5. Meant(s).op = "remove" /\ Meant(s).path = k
    OBVIOUS
<1>. QED
    BY <1>1, <1>2, <1>4, <1>5, AnswersAsStore

(* The steps of an HTTP session: what it answers is what the store         *)
(* answers, and everything else it does is none of the store.              *)
LEMMA HttpImplements ==
    ASSUME FilesInv, FilesInv', NEW s \in HttpSessions, Http(s)
    PROVE  Shared!Call(s) \/ Shared!Answer(s) \/ UNCHANGED Shared!vars
<1>1. s \in Sessions /\ s \notin FtpSessions /\ s \in Threads
    BY Parts DEF Sessions
<1>2. \A u \in Sessions : u # s => Alone(u)
    BY HttpAlone
<1>. USE <1>1, Parts DEF client, login, db
<1>3. CASE HttpAsks(s)
  <2>1. stage[s] = "idle" /\ stage'[s] = "asked" /\ fs' = fs
    BY <1>3 DEF HttpAsks, Asks
  <2>2. Phase(s) = "idle" /\ Phase(s)' = "idle"
    BY <2>1 DEF Phase
  <2>. QED
    BY <1>2, <2>1, <2>2, Stutters
<1>4. CASE authHttpUser(s)
  <2>1. stage[s] = "asked" /\ stage'[s] = "verifying" /\ fs' = fs
    BY <1>4 DEF authHttpUser
  <2>2. Phase(s) = "idle" /\ Phase(s)' \in {"idle", "called"}
    BY <2>1 DEF Phase
  <2>. QED
    BY <1>2, <2>1, <2>2, Stutters, Calls
<1>5. CASE Unauthorized(s)
  <2>1. stage[s] = "verifying" /\ ~answer[s] /\ stage'[s] = "answered" /\ reply'[s] = Code(401) /\ fs' = fs
    BY <1>5 DEF Unauthorized, handleHttp, Answer
  <2>2. Phase(s) = "idle" /\ Phase(s)' = "idle"
    BY <2>1 DEF Phase, Code, Reply
  <2>. QED
    BY <1>2, <2>1, <2>2, Stutters
<1>6. ASSUME Admitted(s), asked[s].do \in FileRequests
      PROVE  /\ Phase(s) = "called" /\ Meant(s)' = Meant(s) /\ Meant(s) # NoUser
             /\ asked'[s] = asked[s]
  <2>1. stage[s] = "verifying" /\ at[s] = "verified" /\ answer[s] /\ asked' = asked /\ where' = where
    BY <1>6 DEF Admitted, handleHttp
  <2>2. Meant(s)' = Meant(s)
    BY <2>1 DEF Meant
  <2>. QED
    BY <1>6, <2>1, <2>2, MeantIs DEF Phase
<1>7. CASE handleHttpGet(s)
  <2>1. /\ Phase(s) = "called" /\ Meant(s)' = Meant(s) /\ Meant(s) # NoUser
        /\ asked'[s] = asked[s] /\ asked[s].do = "GET"
    BY <1>6, <1>7 DEF handleHttpGet, FileRequests
  <2>2. CASE asked[s].arg = Root
    <3>1. List(s, 200) /\ Meant(s) = [op |-> "list"]
        BY <1>7, <2>1, <2>2 DEF handleHttpGet, Meant
    <3>. QED
        BY <1>2, <2>1, <3>1, ListImplements
  <2>3. CASE asked[s].arg # Root
    <3>1. Get(s, asked[s].arg, 200, 404) /\ Meant(s) = [op |-> "get", path |-> asked[s].arg]
        BY <1>7, <2>1, <2>3 DEF handleHttpGet, Meant
    <3>. QED
        BY <1>2, <2>1, <3>1, GetImplements
  <2>. QED
    BY <2>2, <2>3
<1>8. CASE handleHttpDelete(s)
  <2>1. /\ Phase(s) = "called" /\ Meant(s)' = Meant(s) /\ Meant(s) # NoUser
        /\ asked'[s] = asked[s] /\ asked[s].do = "DELETE"
    BY <1>6, <1>8 DEF handleHttpDelete, FileRequests
  <2>2. Remove(s, asked[s].arg, 200, 404) /\ Meant(s) = [op |-> "remove", path |-> asked[s].arg]
    BY <1>8, <2>1 DEF handleHttpDelete, Meant
  <2>. QED
    BY <1>2, <2>1, <2>2, RemoveImplements
<1>9. CASE handleHttpPut(s)
  <2>1. /\ Phase(s) = "called" /\ Meant(s)' = Meant(s) /\ Meant(s) # NoUser
        /\ stage'[s] = "body" /\ fs' = fs
    BY <1>6, <1>9 DEF handleHttpPut, FileRequests
  <2>2. Phase(s)' = "called"
    BY <2>1 DEF Phase
  <2>. QED
    BY <1>2, <2>1, <2>2, Stutters
<1>10. CASE PutDone(s)
  <2>1. /\ stage[s] = "body" /\ asked'[s] = asked[s] /\ where'[s] = where[s]
        /\ Add(s, filepath[s], 201, 404)
    BY <1>10 DEF PutDone
  <2>2. asked[s].do = "PUT" /\ Meant(s) = [op |-> "add", path |-> filepath[s], file |-> s]
    <3>1. asked[s] \in HttpRequests
        BY <2>1 DEF FilesInv, StorageInv, SessionTypes
    <3>. QED
        BY <2>1, <3>1, KeysAssumption DEF FilesInv, BodyHasItsKey
  <2>3. Meant(s)' = Meant(s) /\ Meant(s) # NoUser
    BY <2>1, <2>2, MeantIs DEF Meant, FileRequests
  <2>4. Phase(s) = "called"
    BY <2>1, <2>3 DEF Phase
  <2>. QED
    BY <1>2, <2>1, <2>2, <2>3, <2>4, AddImplements
<1>. QED
    BY <1>3, <1>4, <1>5, <1>7, <1>8, <1>9, <1>10 DEF Http

(* Those of an FTP session: a client is in a call of the store from the    *)
(* command it gives once it is logged in.                                  *)
LEMMA FtpImplements ==
    ASSUME FilesInv, FilesInv', NEW s \in FtpSessions, Ftp(s)
    PROVE  Shared!Call(s) \/ Shared!Answer(s) \/ UNCHANGED Shared!vars
<1>1. s \in Sessions /\ s \notin HttpSessions /\ s \in Threads
    BY Parts DEF Sessions
<1>2. \A u \in Sessions : u # s => Alone(u)
    BY FtpAlone
<1>. USE <1>1, Parts DEF client, login, db, handleFtp, HandleFile
<1>3. CASE FtpAsks(s)
  <2>1. stage[s] = "idle" /\ stage'[s] = "asked" /\ fs' = fs
    BY <1>3 DEF FtpAsks, Asks
  <2>2. Phase(s) = "idle" /\ Phase(s)' \in {"idle", "called"}
    BY <2>1 DEF Phase
  <2>. QED
    BY <1>2, <2>1, <2>2, Stutters, Calls
<1>4. CASE handleFtpUser(s) \/ handleFtpPass(s) \/ PassVerified(s) \/ handleFtpCwd(s) \/ handleFtpQuit(s)
  <2>1. asked'[s] = asked[s] /\ fs' = fs
    BY <1>4 DEF handleFtpUser, handleFtpPass, PassVerified, handleFtpCwd, handleFtpQuit, Refuse
  <2>2. asked[s].do \in {"User", "Pass", "Cwd", "Quit"}
    <3>1. stage[s] = "verifying" => asked[s].do = "Pass"
        BY DEF FilesInv, CallsToVerify
    <3>. QED
        BY <1>4, <3>1 DEF handleFtpUser, handleFtpPass, PassVerified, handleFtpCwd, handleFtpQuit
  <2>3. Phase(s) = "idle" /\ Phase(s)' = "idle"
    BY <2>1, <2>2, MeantIs, MeantStays DEF FileRequests
  <2>. QED
    BY <1>2, <2>1, <2>3, Stutters
<1>5. ASSUME NEW c \in {"List", "Retr", "Stor", "Dele"}, HandleFile(s, c)
      PROVE  /\ stage[s] = "asked" /\ asked[s].do = c /\ asked'[s] = asked[s]
             /\ Meant(s)' = Meant(s) /\ Meant(s) # NoUser
             /\ current_working_dir_[s] = where[s]
             /\ Phase(s) = IF LoggedIn(s) THEN "called" ELSE "idle"
  <2>1. stage[s] = "asked" /\ asked[s].do = c /\ asked' = asked /\ where' = where
    BY <1>5
  <2>2. Meant(s)' = Meant(s)
    BY <2>1 DEF Meant
  <2>3. Meant(s) # NoUser
    BY <2>1, MeantIs DEF FileRequests
  <2>4. current_working_dir_[s] = where[s]
    BY <2>1 DEF FilesInv, DirectoryAgrees
  <2>. QED
    BY <2>1, <2>2, <2>3, <2>4 DEF Phase
<1>6. ASSUME NEW c \in {"List", "Retr", "Stor", "Dele"}, HandleFile(s, c), ~LoggedIn(s), Refuse(s, 530)
      PROVE  UNCHANGED Shared!vars
  <2>1. stage'[s] = "answered" /\ reply'[s] = Code(530) /\ fs' = fs
    BY <1>6 DEF Refuse, Answer
  <2>2. Phase(s)' = "idle"
    BY <2>1 DEF Phase, Code, Reply
  <2>3. Phase(s) = "idle"
    BY <1>5, <1>6
  <2>. QED
    BY <1>2, <2>1, <2>2, <2>3, Stutters
<1>7. CASE handleFtpList(s)
  <2>1. HandleFile(s, "List")
    BY <1>7 DEF handleFtpList
  <2>2. CASE LoggedIn(s)
    <3>1. List(s, 226) /\ Meant(s) = [op |-> "list"]
        BY <1>5, <1>7, <2>1, <2>2 DEF handleFtpList, Meant
    <3>. QED
        BY <1>2, <1>5, <2>1, <2>2, <3>1, ListImplements
  <2>3. CASE ~LoggedIn(s)
    BY <1>6, <1>7, <2>1, <2>3 DEF handleFtpList
  <2>. QED
    BY <2>2, <2>3
<1>8. CASE handleFtpRetr(s)
  <2>1. HandleFile(s, "Retr")
    BY <1>8 DEF handleFtpRetr
  <2>2. CASE LoggedIn(s)
    <3>1. Get(s, PathOf(s), 226, 550) /\ Meant(s) = [op |-> "get", path |-> PathOf(s)]
        BY <1>5, <1>8, <2>1, <2>2 DEF handleFtpRetr, Meant, PathOf
    <3>2. asked'[s].do # "PUT"
        BY <1>5, <2>1
    <3>. QED
        BY <1>2, <1>5, <2>1, <2>2, <3>1, <3>2, GetImplements
  <2>3. CASE ~LoggedIn(s)
    BY <1>6, <1>8, <2>1, <2>3 DEF handleFtpRetr
  <2>. QED
    BY <2>2, <2>3
<1>9. CASE handleFtpDele(s)
  <2>1. HandleFile(s, "Dele")
    BY <1>9 DEF handleFtpDele
  <2>2. CASE LoggedIn(s)
    <3>1. Remove(s, asked[s].arg, 250, 550) /\ Meant(s) = [op |-> "remove", path |-> asked[s].arg]
        BY <1>5, <1>9, <2>1, <2>2 DEF handleFtpDele, Meant
    <3>2. asked'[s].do # "PUT"
        BY <1>5, <2>1
    <3>. QED
        BY <1>2, <1>5, <2>1, <2>2, <3>1, <3>2, RemoveImplements
  <2>3. CASE ~LoggedIn(s)
    BY <1>6, <1>9, <2>1, <2>3 DEF handleFtpDele
  <2>. QED
    BY <2>2, <2>3
<1>10. CASE handleFtpStor(s)
  <2>1. HandleFile(s, "Stor")
    BY <1>10 DEF handleFtpStor
  <2>2. CASE LoggedIn(s)
    <3>1. stage'[s] = "body" /\ fs' = fs
        BY <1>10, <2>2 DEF handleFtpStor
    <3>2. Phase(s) = "called" /\ Phase(s)' = "called" /\ Meant(s)' = Meant(s)
        BY <1>5, <2>1, <2>2, <3>1 DEF Phase
    <3>. QED
        BY <1>2, <3>1, <3>2, Stutters
  <2>3. CASE ~LoggedIn(s)
    BY <1>6, <1>10, <2>1, <2>3 DEF handleFtpStor
  <2>. QED
    BY <2>2, <2>3
<1>11. CASE saveFile(s)
  <2>1. /\ stage[s] = "body" /\ asked'[s] = asked[s] /\ where'[s] = where[s]
        /\ Add(s, filepath[s], 226, 450)
    BY <1>11 DEF saveFile
  <2>2. /\ asked[s].do \in {"PUT", "Stor"}
        /\ Meant(s) = [op |-> "add", path |-> filepath[s], file |-> s]
    BY <2>1 DEF FilesInv, BodyHasItsKey
  <2>3. Meant(s)' = Meant(s) /\ Meant(s) # NoUser
    BY <2>1, <2>2, MeantIs DEF Meant, FileRequests
  <2>4. Phase(s) = "called"
    BY <2>1, <2>3 DEF Phase
  <2>. QED
    BY <1>2, <2>1, <2>2, <2>3, <2>4, AddImplements
<1>. QED
    BY <1>3, <1>4, <1>7, <1>8, <1>9, <1>10, <1>11 DEF Ftp

(* A client that was let in returns from its call when it reads the reply. *)
LEMMA ReadsImplements ==
    ASSUME FilesInv, NEW s \in Sessions, Reads(s)
    PROVE  Shared!Return(s) \/ UNCHANGED Shared!vars
<1>1. \A u \in Sessions : u # s => Alone(u)
    BY ReadsAlone
<1>2. stage[s] = "answered" /\ asked'[s] = Nothing /\ fs' = fs
    BY Parts DEF Reads
<1>3. Phase(s) \in {"idle", "answered"}
    BY <1>2 DEF Phase
<1>4. Phase(s)' = "idle"
    BY <1>2 DEF Phase, Meant, Nothing, Request
<1>. QED
    BY <1>1, <1>2, <1>3, <1>4, Returns, Stutters

(* The end of verify may let a client in; nothing else in the database     *)
(* shows.                                                                  *)
LEMMA DatabaseImplements ==
    ASSUME FilesInv, FilesInv', NEW t \in Threads, InDatabase(t) \/ (t \in Administrators /\ addUser(t))
    PROVE  (t \in Sessions /\ Shared!Call(t)) \/ UNCHANGED Shared!vars
<1>1. fs' = fs
    BY DEF InDatabase, addUser
<1>2. CASE t \notin Sessions
  <2>1. \A u \in Sessions : Alone(u)
    BY <1>2, DatabaseAlone
  <2>2. \A u \in Sessions : Meant(u)' = Meant(u) /\ Phase(u)' = Phase(u) /\ Outcome(u)' = Outcome(u)
    BY <2>1, AloneSame
  <2>3. calls' = calls /\ phases' = phases /\ results' = results
    BY <2>2 DEF calls, phases, results
  <2>. QED
    BY <1>1, <2>3 DEF Shared!vars
<1>3. CASE t \in Sessions
  <2>1. InDatabase(t)
    BY <1>3, ThreadsOfTheServer
  <2>2. \A u \in Sessions : u # t => Alone(u)
    BY <1>3, DatabaseAlone
  <2>3. at[t] \notin {"idle", "verified"} /\ stage' = stage
    BY <2>1 DEF InDatabase, Within, LockExclusive, Insert, LockShared, Find, At, Unlock
  <2>4. stage[t] = "verifying"
    BY <1>3, <2>3 DEF FilesInv, CallsToVerify
  <2>5. Phase(t) = "idle" /\ Phase(t)' \in {"idle", "called"}
    BY <2>3, <2>4 DEF Phase
  <2>. QED
    BY <1>1, <1>3, <2>2, <2>5, Stutters, Calls
<1>. QED
    BY <1>2, <1>3

LEMMA StorageInitImplements == StorageInit => Shared!Init
<1> SUFFICES ASSUME StorageInit PROVE Shared!Init
    OBVIOUS
<1>1. \A s \in Sessions : Phase(s) = "idle"
    BY DEF StorageInit, Phase, Meant, Nothing, Request
<1>2. /\ calls = [s \in Sessions |-> NoUser] /\ phases = [s \in Sessions |-> "idle"]
      /\ results = [s \in Sessions |-> Shared!NoResult]
    BY <1>1 DEF calls, phases, results, Shared!NoResult
<1>. QED
    BY <1>2 DEF StorageInit, Shared!Init

LEMMA StorageNextImplements ==
    FilesInv /\ FilesInv' /\ [StorageNext]_storage => [Shared!Next]_Shared!vars
<1> SUFFICES ASSUME FilesInv, FilesInv', [StorageNext]_storage
             PROVE  Shared!Next \/ UNCHANGED Shared!vars
    OBVIOUS
<1>1. CASE \E s \in HttpSessions : Http(s)
    BY <1>1, HttpImplements DEF Shared!Next, Sessions
<1>2. CASE \E s \in FtpSessions : Ftp(s)
    BY <1>2, FtpImplements DEF Shared!Next, Sessions
<1>3. CASE \E s \in Sessions : Reads(s)
    BY <1>3, ReadsImplements DEF Shared!Next
<1>4. CASE \E t \in Administrators : addUser(t)
    BY <1>4, DatabaseImplements, ThreadsOfTheServer DEF Shared!Next
<1>5. CASE \E t \in Threads : InDatabase(t)
    BY <1>5, DatabaseImplements DEF Shared!Next
<1>6. CASE UNCHANGED storage
  <2>1. ASSUME NEW s \in Sessions
        PROVE  Meant(s)' = Meant(s) /\ Phase(s)' = Phase(s) /\ Outcome(s)' = Outcome(s)
    BY <1>6, AloneSame DEF Alone, storage, client, login, db
  <2>2. calls' = calls /\ phases' = phases /\ results' = results
    BY <2>1 DEF calls, phases, results
  <2>. QED
    BY <1>6, <2>2 DEF Shared!vars, storage
<1>. QED
    BY <1>1, <1>2, <1>3, <1>4, <1>5, <1>6 DEF StorageNext

(* Clients of HTTP and FTP share one map from keys to files: what each     *)
(* asks of the files takes effect at once, at the key it means, between    *)
(* the moment it is let in and the reply, whatever other sessions do.      *)
THEOREM OneStore == StorageSpec => ImplementsSharedStore
<1>. QED
    BY StorageInitImplements, StorageNextImplements, FilesInvariance, PTL
       DEF StorageSpec, ImplementsSharedStore, Shared!Spec
=============================================================================
