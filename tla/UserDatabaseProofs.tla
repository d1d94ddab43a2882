-------------------------- MODULE UserDatabaseProofs --------------------------
(* The database, for any number of threads and users. *)
EXTENDS UserDatabase, TLAPS

USE DEF Users, requirePassword, kUsersWithoutPassword

LEMMA SomeoneIsUser == Someone \in Users
<1>. PICK n \in Names, p \in Passwords : TRUE
    BY SomeAssumption
<1>1. [username |-> n, password |-> p] \in Users
    OBVIOUS
<1>. QED
    BY <1>1 DEF Someone

LEMMA InitInv == Init => IInv
<1> SUFFICES ASSUME Init PROVE IInv
    OBVIOUS
<1>1. Someone \in Users
    BY SomeoneIsUser
<1>2. TypeOK
    BY <1>1 DEF Init, TypeOK
<1>3. LockDiscipline
    BY ThreadsAssumption DEF Init, LockDiscipline
<1>4. CredentialsHold
    BY DEF Init, CredentialsHold
<1>. QED
    BY <1>2, <1>3, <1>4 DEF IInv

(* Whatever a thread does, a password that is there stays. *)
LEMMA PasswordsStay ==
    ASSUME IInv, Next
    PROVE \A n \in Names : users_[n] # NoPassword => users_'[n] = users_[n]
<1>. PICK t \in Threads : (\E u \in Users : add(t, u) \/ verify(t, u)) \/ Within(t) \/ Return(t)
    BY DEF Next
<1>1. CASE \E u \in Users : add(t, u) \/ verify(t, u)
    BY <1>1 DEF add, verify, Call
<1>2. CASE Insert(t)
  <2>1. users_ \in [Names -> Passwords \cup {NoPassword}]
    BY DEF IInv, TypeOK
  <2>. QED
    BY <1>2, <2>1 DEF Insert
<1>3. CASE LockExclusive(t) \/ LockShared(t) \/ Find(t) \/ At(t) \/ Unlock(t) \/ Return(t)
    BY <1>3 DEF LockExclusive, LockShared, Find, At, Unlock, Return
<1>. QED
    BY <1>1, <1>2, <1>3 DEF Within

LEMMA RightStays ==
    ASSUME IInv, Next, NEW u \in Users, Right(u)
    PROVE Right(u)'
<1>1. u.username \in Names /\ u.password \in Passwords
    OBVIOUS
<1>2. CASE ~requirePassword(u)
    BY <1>2 DEF Right
<1>3. CASE requirePassword(u)
  <2>1. users_[u.username] = u.password /\ u.password # NoPassword
    BY <1>1, <1>3, PasswordsAssumption DEF Right
  <2>. QED
    BY <1>1, <2>1, PasswordsStay DEF Right
<1>. QED
    BY <1>2, <1>3

LEMMA TypesStay == ASSUME IInv, Next PROVE TypeOK'
<1>. USE DEF TypeOK, Goes, Answers
<1>1. TypeOK /\ Someone \in Users
    BY SomeoneIsUser DEF IInv
<1>. PICK t \in Threads : (\E u \in Users : add(t, u) \/ verify(t, u)) \/ Within(t) \/ Return(t)
    BY DEF Next
<1>2. ASSUME NEW u \in Users, add(t, u) \/ verify(t, u) PROVE TypeOK'
  <2>1. PICK b \in BOOLEAN : knew' = [knew EXCEPT ![t] = b]
    <3>1. Right(u) \in BOOLEAN
        BY DEF Right
    <3>. QED
        BY <1>2, <3>1 DEF add, verify, Call
  <2>2. PICK c \in BOOLEAN : answer' = [answer EXCEPT ![t] = c]
    <3>1. CASE requirePassword(u)
      <4>1. (~requirePassword(u)) = FALSE
        BY <3>1
      <4>. QED
        BY <1>2, <4>1 DEF add, verify
    <3>2. CASE ~requirePassword(u)
      <4>1. (~requirePassword(u)) = TRUE
        BY <3>2
      <4>. QED
        BY <1>2, <4>1 DEF add, verify
    <3>. QED
        BY <3>1, <3>2
  <2>3. PICK a \in {"add", "added", "verify", "verified"} : at' = [at EXCEPT ![t] = a]
    BY <1>2 DEF add, verify, Call
  <2>4. user' = [user EXCEPT ![t] = u] /\ UNCHANGED <<users_, readers, writer>>
    BY <1>2 DEF add, verify, Call
  <2>. QED
    BY <1>1, <2>1, <2>2, <2>3, <2>4
<1>3. CASE LockExclusive(t)
    BY <1>1, <1>3 DEF LockExclusive
<1>4. CASE Insert(t)
  <2>1. user[t].username \in Names /\ user[t].password \in Passwords
    BY <1>1
  <2>. QED
    BY <1>1, <1>4, <2>1 DEF Insert
<1>5. CASE LockShared(t)
    BY <1>1, <1>5 DEF LockShared
<1>6. CASE Find(t)
    BY <1>1, <1>6 DEF Find
<1>7. CASE At(t)
    BY <1>1, <1>7 DEF At
<1>8. CASE Unlock(t)
    BY <1>1, <1>8 DEF Unlock
<1>9. CASE Return(t)
    BY <1>1, <1>9 DEF Return
<1>. QED
    BY <1>2, <1>3, <1>4, <1>5, <1>6, <1>7, <1>8, <1>9 DEF Within

LEMMA DisciplineStays == ASSUME IInv, Next PROVE LockDiscipline'
<1>. USE DEF TypeOK, LockDiscipline, Goes, Answers
<1>1. TypeOK /\ LockDiscipline /\ NoThread \notin Threads
    BY ThreadsAssumption DEF IInv
<1>. PICK t \in Threads : (\E u \in Users : add(t, u) \/ verify(t, u)) \/ Within(t) \/ Return(t)
    BY DEF Next
<1>2. ASSUME NEW u \in Users, add(t, u) \/ verify(t, u) PROVE LockDiscipline'
    BY <1>1, <1>2 DEF add, verify, Call
<1>3. CASE LockExclusive(t)
    BY <1>1, <1>3 DEF LockExclusive
<1>4. CASE Insert(t)
    BY <1>1, <1>4 DEF Insert
<1>5. CASE LockShared(t)
    BY <1>1, <1>5 DEF LockShared
<1>6. CASE Find(t)
    BY <1>1, <1>6 DEF Find
<1>7. CASE At(t)
    BY <1>1, <1>7 DEF At
<1>8. CASE Unlock(t)
    BY <1>1, <1>8 DEF Unlock
<1>9. CASE Return(t)
    BY <1>1, <1>9 DEF Return
<1>. QED
    BY <1>2, <1>3, <1>4, <1>5, <1>6, <1>7, <1>8, <1>9 DEF Within

(* Of the thread that acts its own step speaks; the others have what they  *)
(* had, and what was right stays right.                                    *)
LEMMA CredentialsStay == ASSUME IInv, Next PROVE CredentialsHold'
<1>. USE DEF TypeOK, Goes, Answers
<1>1. TypeOK /\ CredentialsHold
    BY DEF IInv
<1>. PICK t \in Threads : (\E u \in Users : add(t, u) \/ verify(t, u)) \/ Within(t) \/ Return(t)
    BY DEF Next
<1>. DEFINE Waits(s) == at[s] \in {"verify", "find", "at"} =>
                          ~answer[s] /\ requirePassword(user[s]) /\ (knew[s] => Right(user[s]))
            Ends(s) == at[s] \in {"verifyEnds", "verified"} =>
                          (knew[s] => answer[s]) /\ (answer[s] => Right(user[s]))
<1>2. \A s \in Threads : Waits(s) /\ Ends(s)
    BY <1>1 DEF CredentialsHold
<1>3. \A u \in Users : Right(u) => Right(u)'
    BY RightStays
<1>4. \A s \in Threads \ {t} : at'[s] = at[s] /\ user'[s] = user[s] /\ answer'[s] = answer[s] /\ knew'[s] = knew[s]
    BY <1>1 DEF add, verify, Call, Within, LockExclusive, Insert, LockShared, Find, At, Unlock, Return
<1>5. ASSUME NEW s \in Threads \ {t} PROVE (Waits(s) /\ Ends(s))'
  <2>1. user[s] \in Users /\ user'[s] = user[s]
    BY <1>1, <1>4
  <2>2. Right(user[s]) => Right(user[s])'
    BY <1>3, <2>1, <1>4 DEF Right
  <2>. QED
    BY <1>2, <1>4, <1>5, <2>1, <2>2 DEF Right
<1>6. (Waits(t) /\ Ends(t))'
  <2>1. ASSUME NEW u \in Users, add(t, u) PROVE (Waits(t) /\ Ends(t))'
    BY <1>1, <2>1 DEF add, Call
  <2>2. ASSUME NEW u \in Users, verify(t, u) PROVE (Waits(t) /\ Ends(t))'
    BY <1>1, <2>2 DEF verify, Call, Right
  <2>3. CASE LockExclusive(t) \/ Insert(t) \/ Return(t)
    BY <1>1, <2>3 DEF LockExclusive, Insert, Return
  <2>4. CASE LockShared(t)
    BY <1>1, <1>2, <2>4 DEF LockShared, Right
  <2>5. CASE Find(t)
    <3>1. user[t].password # NoPassword
        BY <1>1, PasswordsAssumption
    <3>. QED
        BY <1>1, <1>2, <2>5, <3>1 DEF Find, Right
  <2>6. CASE At(t)
    BY <1>1, <1>2, <2>6 DEF At, Right
  <2>7. CASE Unlock(t)
    BY <1>1, <1>2, <2>7 DEF Unlock, Right
  <2>. QED
    BY <2>1, <2>2, <2>3, <2>4, <2>5, <2>6, <2>7 DEF Within
<1>. QED
    BY <1>5, <1>6 DEF CredentialsHold

LEMMA Inductive == IInv /\ [Next]_db => IInv'
<1>. SUFFICES ASSUME IInv, [Next]_db PROVE IInv'
    OBVIOUS
<1>1. CASE Next
    BY <1>1, TypesStay, DisciplineStays, CredentialsStay DEF IInv
<1>2. CASE UNCHANGED db
    BY <1>2 DEF db, IInv, TypeOK, LockDiscipline, CredentialsHold, Right
<1>. QED
    BY <1>1, <1>2

(* The invariant is inductive: the locks are held as the code says, and no *)
(* answer differs from what the table has said since the call.             *)
THEOREM Invariance == Spec => []IInv
    BY InitInv, Inductive, PTL DEF Spec

(* UserDatabase is "thread-safe": nobody inserts while another thread      *)
(* inserts or searches.                                                    *)
THEOREM DataRaceFreedom == Spec => []NoDataRace
<1>1. IInv => NoDataRace
    BY ThreadsAssumption DEF IInv, TypeOK, LockDiscipline, NoDataRace
<1>. QED
    BY <1>1, Invariance, PTL

(* verify answers for an instant between its call and its return.          *)
THEOREM AnswersHold == Spec => []AnswersAreRight
<1>1. IInv => AnswersAreRight
    BY DEF IInv, CredentialsHold, AnswersAreRight
<1>. QED
    BY <1>1, Invariance, PTL

(* add never replaces a password.                                          *)
THEOREM PasswordsAreFinal == Spec => FirstPasswordStays
<1>1. IInv /\ [Next]_db => [\A n \in Names : users_[n] # NoPassword => users_'[n] = users_[n]]_db
    BY PasswordsStay
<1>. QED
    BY <1>1, Invariance, PTL DEF Spec, FirstPasswordStays
=============================================================================
