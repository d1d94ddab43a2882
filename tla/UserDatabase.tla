----------------------------- MODULE UserDatabase -----------------------------
(***************************************************************************)
(* user::UserDatabase: the table of users, which every session reads to    *)
(* verify credentials while the application adds users.  A step is one     *)
(* access to the lock or the table.                                        *)
(***************************************************************************)
CONSTANTS Threads,     \* threads that call the database
          Names,       \* usernames
          Passwords,
          NoPassword,  \* a user that is not in the table has no password
          NoThread     \* no thread holds the lock alone

ASSUME PasswordsAssumption == NoPassword \notin Passwords

ASSUME SomeAssumption == Names # {} /\ Passwords # {}

ASSUME ThreadsAssumption == NoThread \notin Threads

Users == [username : Names, password : Passwords]

VARIABLES users_,            \* the password of every user, or NoPassword
          readers, writer,   \* mutex_
          at,                \* what a thread does next in the database
          user,              \* the user it has called add or verify with
          answer,            \* what the call returns
          knew               \* whether the credentials were right at the call

db == <<users_, readers, writer, at, user, answer, knew>>

(* Between two calls a thread has no user: the value says nothing.         *)
Someone == CHOOSE u \in Users : TRUE

Init ==
    /\ users_ = [n \in Names |-> NoPassword]
    /\ readers = {} /\ writer = NoThread
    /\ at = [t \in Threads |-> "idle"]
    /\ user = [t \in Threads |-> Someone]
    /\ answer = [t \in Threads |-> FALSE]
    /\ knew = [t \in Threads |-> FALSE]

kUsersWithoutPassword == {"anonymous"}

requirePassword(u) == u.username \notin kUsersWithoutPassword

(* What the database is asked: are these the credentials of a user?        *)
Right(u) == ~requirePassword(u) \/ users_[u.username] = u.password

Goes(t, next) == at' = [at EXCEPT ![t] = next]

Answers(t, x) == answer' = [answer EXCEPT ![t] = x]

-----------------------------------------------------------------------------
(* add and verify up to the lock: users without password have no entry.    *)
Call(t, u, first, otherwise) ==
    /\ at[t] = "idle"
    /\ user' = [user EXCEPT ![t] = u]
    /\ knew' = [knew EXCEPT ![t] = Right(u)]
    /\ Goes(t, IF requirePassword(u) THEN first ELSE otherwise)
    /\ UNCHANGED <<users_, readers, writer>>

add(t, u) == Call(t, u, "add", "added") /\ Answers(t, FALSE)

verify(t, u) == Call(t, u, "verify", "verified") /\ Answers(t, ~requirePassword(u))

(* Mistake: the lock is taken while others read. *)
LockExclusiveAmongReaders(t) ==
    /\ at[t] = "add"
    /\ writer = NoThread
    /\ writer' = t
    /\ Goes(t, "insert")
    /\ UNCHANGED <<users_, readers, user, answer, knew>>

LockExclusive(t) ==
    /\ at[t] = "add"
    /\ writer = NoThread /\ readers = {}
    /\ writer' = t
    /\ Goes(t, "insert")
    /\ UNCHANGED <<users_, readers, user, answer, knew>>

(* Mistake: the password of a user that is there is replaced. *)
InsertOrAssign(t) ==
    /\ at[t] = "insert"
    /\ Answers(t, TRUE)
    /\ users_' = [users_ EXCEPT ![user[t].username] = user[t].password]
    /\ Goes(t, "addEnds")
    /\ UNCHANGED <<readers, writer, user, knew>>

(* insert(), which leaves a user alone that is there. *)
Insert(t) ==
    /\ at[t] = "insert"
    /\ Answers(t, users_[user[t].username] = NoPassword)
    /\ users_' = IF users_[user[t].username] = NoPassword
                 THEN [users_ EXCEPT ![user[t].username] = user[t].password] ELSE users_
    /\ Goes(t, "addEnds")
    /\ UNCHANGED <<readers, writer, user, knew>>

LockShared(t) ==
    /\ at[t] = "verify"
    /\ writer = NoThread
    /\ readers' = readers \cup {t}
    /\ Goes(t, "find")
    /\ UNCHANGED <<users_, writer, user, answer, knew>>

Find(t) ==
    /\ at[t] = "find"
    /\ \/ /\ users_[user[t].username] = NoPassword
          /\ Goes(t, "verifyEnds")
       \/ /\ users_[user[t].username] # NoPassword
          /\ Goes(t, "at")
    /\ UNCHANGED <<users_, readers, writer, user, answer, knew>>

(* Mistake: any password will do. *)
AtIgnored(t) ==
    /\ at[t] = "at"
    /\ Answers(t, TRUE)
    /\ Goes(t, "verifyEnds")
    /\ UNCHANGED <<users_, readers, writer, user, knew>>

At(t) ==
    /\ at[t] = "at"
    /\ Answers(t, users_[user[t].username] = user[t].password)
    /\ Goes(t, "verifyEnds")
    /\ UNCHANGED <<users_, readers, writer, user, knew>>

(* The destructor of the lock. *)
Unlock(t) ==
    /\ \/ /\ at[t] = "addEnds" /\ Goes(t, "added")
          /\ writer' = NoThread /\ UNCHANGED readers
       \/ /\ at[t] = "verifyEnds" /\ Goes(t, "verified")
          /\ readers' = readers \ {t} /\ UNCHANGED writer
    /\ UNCHANGED <<users_, user, answer, knew>>

Return(t) ==
    /\ at[t] \in {"added", "verified"}
    /\ Goes(t, "idle")
    /\ user' = [user EXCEPT ![t] = Someone]
    /\ Answers(t, FALSE)
    /\ knew' = [knew EXCEPT ![t] = FALSE]
    /\ UNCHANGED <<users_, readers, writer>>

(* What a thread does on its own between call and return. *)
Within(t) ==
    LockExclusive(t) \/ Insert(t) \/ LockShared(t) \/ Find(t) \/ At(t) \/ Unlock(t)

Next == \E t \in Threads : (\E u \in Users : add(t, u) \/ verify(t, u)) \/ Within(t) \/ Return(t)

Spec == Init /\ [][Next]_db

-----------------------------------------------------------------------------
(* No thread inserts while another one inserts or searches: neither may    *)
(* meet a table in flux.                                                   *)
NoDataRace ==
    \A t, s \in Threads :
        t # s /\ at[t] = "insert" => at[s] \notin {"insert", "find", "at"}

(* verify answers for one instant between its call and its return: yes if  *)
(* the credentials were right when it was called, and never yes if they    *)
(* are not right now.                                                      *)
AnswersAreRight ==
    \A t \in Threads :
        at[t] = "verified" => (knew[t] => answer[t]) /\ (answer[t] => Right(user[t]))

(* The password a user was first added with stays, whoever adds the name   *)
(* again.                                                                  *)
FirstPasswordStays ==
    [][\A n \in Names : users_[n] # NoPassword => users_'[n] = users_[n]]_db

-----------------------------------------------------------------------------
(* Every variable keeps to its values.                                     *)
TypeOK ==
    /\ users_ \in [Names -> Passwords \cup {NoPassword}]
    /\ readers \in SUBSET Threads /\ writer \in Threads \cup {NoThread}
    /\ at \in [Threads -> {"idle", "add", "insert", "addEnds", "added",
                           "verify", "find", "at", "verifyEnds", "verified"}]
    /\ user \in [Threads -> Users]
    /\ answer \in [Threads -> BOOLEAN] /\ knew \in [Threads -> BOOLEAN]

(* What a thread does next tells which lock it holds.                      *)
LockDiscipline ==
    /\ \A t \in Threads : t \in readers <=> at[t] \in {"find", "at", "verifyEnds"}
    /\ \A t \in Threads : writer = t <=> at[t] \in {"insert", "addEnds"}
    /\ writer # NoThread => readers = {}

(* Credentials that were right at the call of verify still are, and it has *)
(* not answered before it has compared the passwords.                      *)
CredentialsHold ==
    \A t \in Threads :
        /\ at[t] \in {"verify", "find", "at"} =>
             ~answer[t] /\ requirePassword(user[t]) /\ (knew[t] => Right(user[t]))
        /\ at[t] \in {"verifyEnds", "verified"} =>
             (knew[t] => answer[t]) /\ (answer[t] => Right(user[t]))

IInv == TypeOK /\ LockDiscipline /\ CredentialsHold
=============================================================================
