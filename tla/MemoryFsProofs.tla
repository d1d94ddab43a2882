---------------------------- MODULE MemoryFsProofs ----------------------------
(***************************************************************************)
(* MemoryFs for any number of threads, paths and files: its inductive      *)
(* invariant, the safety properties that follow, and that it implements    *)
(* the atomic store of FileStore.                                          *)
(***************************************************************************)
EXTENDS MemoryFs, TLAPS

(* The fields an operation has, whatever the record it comes in. *)
LEMMA OperationFields ==
    ASSUME NEW o \in Operation
    PROVE  /\ o.op \in {"get", "add", "list", "remove"}
           /\ o.op # "list" => o.path \in Paths
           /\ o.op = "add" => o.file \in Files
  BY DEF Operation

(* The answers the operations give are answers. *)
LEMMA ResultFields ==
    /\ NoResult \in Result
    /\ \A s \in Status : [NoResult EXCEPT !.status = s] \in Result
    /\ \A f \in Files \cup {NoFile} : [NoResult EXCEPT !.file = f] \in Result
    /\ \A r \in Result : \A p \in Paths : [r EXCEPT !.list = @ \cup {p}] \in Result
  BY DEF NoResult, Result, Status

(* A thread in a call is in one of the four operations, on a path unless   *)
(* it lists them.                                                          *)
LEMMA CallFields ==
    ASSUME TypeOK, NEW t \in Threads, pc[t] # "idle"
    PROVE  /\ call[t] \in Operation
           /\ call[t].op \in {"get", "add", "list", "remove"}
           /\ call[t].op # "list" => call[t].path \in Paths
           /\ call[t].op = "add" => call[t].file \in Files
<1>1. call[t] \in Operation
  BY DEF TypeOK
<1> QED
  BY <1>1, OperationFields

LEMMA InitInvariant == Init => IInv
<1> SUFFICES ASSUME Init PROVE IInv
  OBVIOUS
<1>1. TypeOK
  BY ResultFields DEF Init, TypeOK
<1>2. LockDiscipline
  BY NobodyAssumption DEF Init, LockDiscipline, Reading, Writing
<1>3. SeenIsSo
  BY DEF Init, SeenIsSo
<1> QED
  BY <1>1, <1>2, <1>3 DEF IInv

(* Every step keeps the types. *)
LEMMA NextKeepsTypes == IInv /\ [Next]_vars => TypeOK'
<1> SUFFICES ASSUME IInv, [Next]_vars PROVE TypeOK'
  OBVIOUS
<1>0. TypeOK /\ LockDiscipline
  BY DEF IInv
<1> USE DEF Goto, Answers
<1>a. CASE UNCHANGED vars
  BY <1>0, <1>a DEF vars, TypeOK
<1>1. ASSUME NEW t \in Threads, Call(t) PROVE TypeOK'
  BY <1>0, <1>1 DEF Call, TypeOK, Reading, Writing
<1>2. ASSUME NEW t \in Threads, LockShared(t) PROVE TypeOK'
  BY <1>0, <1>2 DEF LockShared, TypeOK, Reading, Writing
<1>3. ASSUME NEW t \in Threads, LockExclusive(t) PROVE TypeOK'
  BY <1>0, <1>3 DEF LockExclusive, TypeOK, Reading, Writing
<1>4. ASSUME NEW t \in Threads, Search(t) PROVE TypeOK'
  BY <1>0, <1>4, CallFields, ResultFields DEF Search, TypeOK, Reading, Writing, Status
<1>5. ASSUME NEW t \in Threads, Dereference(t) PROVE TypeOK'
  BY <1>0, <1>5, CallFields, ResultFields DEF Dereference, TypeOK, Reading, Writing, LockDiscipline
<1>6. ASSUME NEW t \in Threads, Insert(t) PROVE TypeOK'
  BY <1>0, <1>6, CallFields, ResultFields, EmptyFileAssumption DEF Insert, TypeOK, Reading, Writing, LockDiscipline
<1>7. ASSUME NEW t \in Threads, Assign(t) PROVE TypeOK'
  BY <1>0, <1>7, CallFields, ResultFields DEF Assign, TypeOK, Reading, Writing, LockDiscipline
<1>8. ASSUME NEW t \in Threads, Iterate(t) PROVE TypeOK'
  BY <1>0, <1>8, CallFields, ResultFields DEF Iterate, TypeOK, Reading, Writing, Stored
<1>9. ASSUME NEW t \in Threads, Erase(t) PROVE TypeOK'
  BY <1>0, <1>9, CallFields, ResultFields DEF Erase, TypeOK, Reading, Writing, LockDiscipline, Status
<1>10. ASSUME NEW t \in Threads, Unlock(t) PROVE TypeOK'
  BY <1>0, <1>10 DEF Unlock, TypeOK, Reading, Writing
<1>11. ASSUME NEW t \in Threads, Return(t) PROVE TypeOK'
  BY <1>0, <1>11, CallFields, ResultFields DEF Return, TypeOK, Reading, Writing, Result
<1> QED
  BY <1>a, <1>1, <1>2, <1>3, <1>4, <1>5, <1>6, <1>7, <1>8, <1>9, <1>10, <1>11 DEF Next

(* Every step keeps to the lock. *)
LEMMA NextKeepsLockDiscipline == IInv /\ [Next]_vars => LockDiscipline'
<1> SUFFICES ASSUME IInv, [Next]_vars PROVE LockDiscipline'
  OBVIOUS
<1>0. TypeOK /\ LockDiscipline /\ SeenIsSo
  BY DEF IInv
<1> USE DEF Goto, Answers, TypeOK, LockDiscipline, Reading, Writing
<1>a. CASE UNCHANGED vars
  BY <1>0, <1>a DEF vars
<1>1. ASSUME NEW t \in Threads, Call(t) PROVE LockDiscipline'
  BY <1>0, <1>1, CallFields, NobodyAssumption DEF Call
<1>2. ASSUME NEW t \in Threads, LockShared(t) PROVE LockDiscipline'
  BY <1>0, <1>2, CallFields, NobodyAssumption DEF LockShared
<1>3. ASSUME NEW t \in Threads, LockExclusive(t) PROVE LockDiscipline'
  BY <1>0, <1>3, CallFields, NobodyAssumption DEF LockExclusive
<1>4. ASSUME NEW t \in Threads, Search(t) PROVE LockDiscipline'
  <2>1. PICK l \in {"dereferencing", "inserting", "unlocking"} :
           /\ pc' = [pc EXCEPT ![t] = l]
           /\ l = "dereferencing" => call[t].op = "get"
           /\ l = "inserting" => call[t].op = "add"
    BY <1>4 DEF Search
  <2> QED
    BY <1>0, <1>4, <2>1 DEF Search
<1>5. ASSUME NEW t \in Threads, Dereference(t) PROVE LockDiscipline'
  BY <1>0, <1>5, CallFields, NobodyAssumption DEF Dereference
<1>6. ASSUME NEW t \in Threads, Insert(t) PROVE LockDiscipline'
  BY <1>0, <1>6, CallFields, NobodyAssumption DEF Insert
<1>7. ASSUME NEW t \in Threads, Assign(t) PROVE LockDiscipline'
  BY <1>0, <1>7, CallFields, NobodyAssumption DEF Assign
<1>8. ASSUME NEW t \in Threads, Iterate(t) PROVE LockDiscipline'
  BY <1>0, <1>8, CallFields, NobodyAssumption DEF Iterate
<1>9. ASSUME NEW t \in Threads, Erase(t) PROVE LockDiscipline'
  BY <1>0, <1>9, CallFields, NobodyAssumption DEF Erase
<1>10. ASSUME NEW t \in Threads, Unlock(t) PROVE LockDiscipline'
  BY <1>0, <1>10, CallFields, NobodyAssumption DEF Unlock
<1>11. ASSUME NEW t \in Threads, Return(t) PROVE LockDiscipline'
  BY <1>0, <1>11, CallFields, NobodyAssumption DEF Return
<1> QED
  BY <1>a, <1>1, <1>2, <1>3, <1>4, <1>5, <1>6, <1>7, <1>8, <1>9, <1>10, <1>11 DEF Next

(* What one thread has seen under the lock no other thread changes. *)
LEMMA NextKeepsSeen == IInv /\ [Next]_vars => SeenIsSo'
<1> SUFFICES ASSUME IInv, [Next]_vars PROVE SeenIsSo'
  OBVIOUS
<1>0. TypeOK /\ LockDiscipline /\ SeenIsSo
  BY DEF IInv
<1> USE DEF Goto, Answers, TypeOK, LockDiscipline, Reading, Writing, SeenIsSo
<1>a. CASE UNCHANGED vars
  BY <1>0, <1>a DEF vars, exists, Stored
<1>1. ASSUME NEW t \in Threads, Call(t) PROVE SeenIsSo'
  BY <1>0, <1>1, CallFields, NoFileAssumption, NobodyAssumption DEF Call, exists, Stored, NoResult
<1>2. ASSUME NEW t \in Threads, LockShared(t) PROVE SeenIsSo'
  BY <1>0, <1>2, CallFields, NoFileAssumption, NobodyAssumption DEF LockShared, exists, Stored, NoResult
<1>3. ASSUME NEW t \in Threads, LockExclusive(t) PROVE SeenIsSo'
  BY <1>0, <1>3, CallFields, NoFileAssumption, NobodyAssumption DEF LockExclusive, exists, Stored
<1>4. ASSUME NEW t \in Threads, Search(t) PROVE SeenIsSo'
  BY <1>0, <1>4, CallFields, NoFileAssumption, NobodyAssumption DEF Search, exists, Stored
<1>5. ASSUME NEW t \in Threads, Dereference(t) PROVE SeenIsSo'
  BY <1>0, <1>5, CallFields, NoFileAssumption, NobodyAssumption DEF Dereference, exists, Stored
<1>6. ASSUME NEW t \in Threads, Insert(t) PROVE SeenIsSo'
  BY <1>0, <1>6, CallFields, NoFileAssumption, NobodyAssumption DEF Insert, exists, Stored
<1>7. ASSUME NEW t \in Threads, Assign(t) PROVE SeenIsSo'
  BY <1>0, <1>7, CallFields, NoFileAssumption, NobodyAssumption DEF Assign, exists, Stored
<1>8. ASSUME NEW t \in Threads, Iterate(t) PROVE SeenIsSo'
  BY <1>0, <1>8, CallFields, NoFileAssumption, NobodyAssumption DEF Iterate, exists, Stored
<1>9. ASSUME NEW t \in Threads, Erase(t) PROVE SeenIsSo'
  BY <1>0, <1>9, CallFields, NoFileAssumption, NobodyAssumption DEF Erase, exists, Stored
<1>10. ASSUME NEW t \in Threads, Unlock(t) PROVE SeenIsSo'
  BY <1>0, <1>10, CallFields, NoFileAssumption, NobodyAssumption DEF Unlock, exists, Stored
<1>11. ASSUME NEW t \in Threads, Return(t) PROVE SeenIsSo'
  BY <1>0, <1>11, CallFields, NoFileAssumption, NobodyAssumption DEF Return, exists, Stored, NoResult
<1> QED
  BY <1>a, <1>1, <1>2, <1>3, <1>4, <1>5, <1>6, <1>7, <1>8, <1>9, <1>10, <1>11 DEF Next

-----------------------------------------------------------------------------
(* The inductive invariant holds in every execution. *)
THEOREM Invariance == Spec => []IInv
<1>1. IInv /\ [Next]_vars => IInv'
  BY NextKeepsTypes, NextKeepsLockDiscipline, NextKeepsSeen DEF IInv
<1> QED
  BY InitInvariant, <1>1, PTL DEF Spec

(* No two threads are ever about to access the map, one of them to modify  *)
(* it: the lock of memory_fs.cpp leaves no data race on fs_.               *)
THEOREM DataRaceFreedom == Spec => []NoDataRace
<1>1. IInv => NoDataRace
  <2> SUFFICES ASSUME IInv, NEW t \in Threads, NEW u \in Threads,
                      t # u, pc[t] \in Writing, pc[u] \in Writing \cup Reading
               PROVE  FALSE
    BY DEF NoDataRace
  <2>1. writer = t /\ writer # Nobody
    BY NobodyAssumption DEF IInv, LockDiscipline
  <2>2. u \notin readers /\ writer # u
    BY <2>1 DEF IInv, LockDiscipline
  <2>3. call[u].op \in {"get", "add", "list", "remove"}
    BY CallFields DEF IInv, Reading, Writing
  <2> QED
    BY <2>2, <2>3 DEF IInv, LockDiscipline, Reading, Writing
<1> QED
  BY Invariance, <1>1, PTL

(* The path exists() has found is still there for fs_.at(): the noexcept   *)
(* get() of memory_fs.cpp never ends the process.                          *)
THEOREM AtIsSafe == Spec => []AtNeverThrows
<1>1. IInv => AtNeverThrows
  BY DEF IInv, SeenIsSo, AtNeverThrows
<1> QED
  BY Invariance, <1>1, PTL

-----------------------------------------------------------------------------
(* While a thread holds the lock in either mode no other is creating a     *)
(* path, so what it sees of the map is what the abstract store holds.      *)
LEMMA HoldersSeeTheStore ==
    ASSUME IInv, NEW t \in Threads,
           pc[t] \in Reading \cup {"inserting", "erasing"}
    PROVE  visible = fs_
<1>1. ASSUME NEW u \in Threads, pc[u] = "assigning" PROVE FALSE
  <2>1. writer = u /\ readers = {}
    BY <1>1, NobodyAssumption DEF IInv, LockDiscipline, Writing
  <2>2. t \notin readers /\ writer # t
    BY <1>1, <2>1 DEF Reading
  <2> QED
    BY <2>2, CallFields DEF IInv, LockDiscipline, Reading, Writing
<1>2. \A p \in Paths : ~Assigning(p)
  BY <1>1 DEF Assigning
<1> QED
  BY <1>2 DEF visible, IInv, TypeOK

(* The steps that leave the map, the answers and "assigning" alone leave   *)
(* the abstract store as it is.                                            *)
LEMMA VisibleKept ==
    ASSUME UNCHANGED fs_, \A p \in Paths : Assigning(p)' <=> Assigning(p)
    PROVE  visible' = visible
  BY DEF visible

(* How the phase of the abstract store follows a thread's pc. *)
Phase(l) == IF l = "idle" THEN "idle" ELSE IF l \in Answered THEN "answered" ELSE "called"

LEMMA PhaseFollows ==
    ASSUME TypeOK, NEW t \in Threads, NEW l, pc' = [pc EXCEPT ![t] = l]
    PROVE  phase' = [phase EXCEPT ![t] = Phase(l)]
  BY DEF TypeOK, phase, Phase

(* A step between the call and the answer, or after it, is none of the     *)
(* abstract store: it stutters if it keeps the visible files.              *)
LEMMA Silent ==
    ASSUME TypeOK, NEW t \in Threads, NEW l, pc' = [pc EXCEPT ![t] = l],
           Phase(l) = Phase(pc[t]), UNCHANGED call,
           \A u \in Threads : pc[u] \in Answered => result'[u] = result[u],
           visible' = visible
    PROVE  UNCHANGED FS!vars
<1>1. phase' = phase
  BY PhaseFollows DEF TypeOK, phase, Phase
<1>2. answer' = answer
  BY DEF TypeOK, answer, Phase, Answered
<1> QED
  BY <1>1, <1>2 DEF FS!vars

(* A step that gives the answer r changes the abstract answers likewise. *)
LEMMA AnswerGiven ==
    ASSUME TypeOK, NEW t \in Threads, NEW l \in Answered, NEW r, pc' = [pc EXCEPT ![t] = l],
           result' = [result EXCEPT ![t] = r]
    PROVE  answer' = [answer EXCEPT ![t] = r]
  BY DEF TypeOK, answer, Answered

LEMMA InitImplements == Init => FS!Init
  BY DEF Init, FS!Init, visible, phase, answer, Assigning, NoResult, FS!NoResult, Answered

(* Every step of MemoryFs is one of the abstract store, or none. *)
LEMMA NextImplements == IInv /\ IInv' /\ [Next]_vars => [FS!Next]_FS!vars
<1> SUFFICES ASSUME IInv, IInv', [Next]_vars PROVE FS!Next \/ UNCHANGED FS!vars
  OBVIOUS
<1>0. TypeOK /\ LockDiscipline /\ SeenIsSo
  BY DEF IInv
<1> USE DEF Goto, Answers
<1>a. CASE UNCHANGED vars
  <2>1. UNCHANGED <<visible, phase, answer, call>>
    BY <1>a DEF vars, visible, Assigning, phase, answer
  <2> QED
    BY <2>1 DEF FS!vars
<1>1. ASSUME NEW t \in Threads, Call(t) PROVE FS!Next
  <2>0. pc[t] = "idle" /\ pc' = [pc EXCEPT ![t] = "locking"]
    BY <1>1 DEF Call
  <2>1. phase[t] = "idle" /\ phase' = [phase EXCEPT ![t] = "called"]
    BY <1>0, <2>0, PhaseFollows DEF Phase, phase, Answered
  <2>2. visible' = visible
    BY <1>0, <1>1, VisibleKept DEF Call, Assigning, TypeOK
  <2>3. answer' = answer
    BY <1>0, <1>1 DEF Call, TypeOK, answer, Answered
  <2>4. \E o \in FS!Operation : call' = [call EXCEPT ![t] = o]
    BY <1>1 DEF Call, Operation, FS!Operation
  <2> QED
    BY <2>1, <2>2, <2>3, <2>4 DEF FS!Call, FS!Next
<1>2. ASSUME NEW t \in Threads, LockShared(t) \/ LockExclusive(t) PROVE UNCHANGED FS!vars
  <2>1. PICK l \in {"searching", "iterating", "erasing"} : pc' = [pc EXCEPT ![t] = l]
    BY <1>2 DEF LockShared, LockExclusive
  <2>2. visible' = visible
    BY <1>0, <1>2, <2>1, VisibleKept DEF LockShared, LockExclusive, Assigning, TypeOK
  <2> QED
    BY <1>0, <1>2, <2>1, <2>2, Silent DEF LockShared, LockExclusive, Phase, Answered
<1>3. ASSUME NEW t \in Threads, Search(t) PROVE FS!Next \/ UNCHANGED FS!vars
  <2>1. visible = fs_
    BY <1>3, HoldersSeeTheStore DEF Search, Reading
  <2>2. call[t].op \in {"get", "add"} /\ call[t].path \in Paths
    BY <1>0, <1>3, CallFields DEF Search, LockDiscipline
  <2>3. visible' = visible
    BY <1>0, <1>3, VisibleKept DEF Search, Assigning, TypeOK
  <2>4. CASE call[t].op = "get" <=> exists(call[t].path)
    <3>1. PICK l \in {"dereferencing", "inserting"} : pc' = [pc EXCEPT ![t] = l]
      BY <1>3, <2>2, <2>4 DEF Search
    <3>2. UNCHANGED <<result, call>>
      BY <1>3, <2>2, <2>4 DEF Search
    <3>3. Phase(l) = Phase(pc[t])
      BY <1>3 DEF Search, Phase, Answered
    <3> QED
      BY <1>0, <2>3, <3>1, <3>2, <3>3, Silent
  <2>5. CASE ~(call[t].op = "get" <=> exists(call[t].path))
    <3> DEFINE r == [NoResult EXCEPT !.status = IF call[t].op = "get" THEN "FileNotFound"
                                                ELSE "AlreadyExists"]
    <3>1. /\ pc' = [pc EXCEPT ![t] = "unlocking"]
          /\ result' = [result EXCEPT ![t] = r]
          /\ UNCHANGED call
      BY <1>3, <2>2, <2>5 DEF Search
    <3>2. phase[t] = "called" /\ phase' = [phase EXCEPT ![t] = "answered"]
      BY <1>0, <1>3, <3>1, PhaseFollows DEF Search, phase, Phase, Answered
    <3>3. answer' = [answer EXCEPT ![t] = r]
      BY <1>0, <3>1, AnswerGiven DEF Answered
    <3>4. CASE call[t].op = "get"
      <4>1. r = FS!Get(call[t].path)
        BY <2>1, <2>5, <3>4 DEF FS!Get, exists, NoResult, FS!NoResult
      <4> QED
        BY <2>3, <3>1, <3>2, <3>3, <3>4, <4>1 DEF FS!Answer, FS!Next
    <3>5. CASE call[t].op = "add"
      <4>1. r = FS!Add(call[t].path) /\ visible[call[t].path] # NoFile
        BY <2>1, <2>5, <3>5 DEF FS!Add, exists, NoResult, FS!NoResult
      <4> QED
        BY <2>3, <3>1, <3>2, <3>3, <3>5, <4>1 DEF FS!Answer, FS!Next
    <3> QED
      BY <2>2, <3>4, <3>5
  <2> QED
    BY <2>4, <2>5
<1>4. ASSUME NEW t \in Threads, Dereference(t) PROVE FS!Next
  <2> DEFINE r == [NoResult EXCEPT !.file = fs_[call[t].path]]
  <2>1. visible = fs_
    BY <1>4, HoldersSeeTheStore DEF Dereference, Reading
  <2>2. call[t].op = "get" /\ fs_[call[t].path] # NoFile
    BY <1>0, <1>4 DEF Dereference, LockDiscipline, SeenIsSo, exists
  <2>3. visible' = visible
    BY <1>0, <1>4, VisibleKept DEF Dereference, Assigning, TypeOK
  <2>4. phase[t] = "called" /\ phase' = [phase EXCEPT ![t] = "answered"]
    BY <1>0, <1>4, PhaseFollows DEF Dereference, phase, Phase, Answered
  <2>5. answer' = [answer EXCEPT ![t] = r]
    BY <1>0, <1>4, AnswerGiven DEF Dereference, Answered
  <2>6. r = FS!Get(call[t].path)
    BY <2>1, <2>2 DEF FS!Get, NoResult, FS!NoResult
  <2> QED
    BY <1>4, <2>2, <2>3, <2>4, <2>5, <2>6 DEF Dereference, FS!Answer, FS!Next
<1>5. ASSUME NEW t \in Threads, Insert(t) PROVE UNCHANGED FS!vars
  <2>1. visible = fs_
    BY <1>5, HoldersSeeTheStore DEF Insert
  <2>2. fs_[call[t].path] = NoFile
    BY <1>0, <1>5 DEF Insert, SeenIsSo, exists
  <2>3. \A p \in Paths : Assigning(p)' <=> Assigning(p) \/ p = call[t].path
    BY <1>0, <1>5 DEF Insert, Assigning, TypeOK
  <2>4. visible' = visible
    BY <1>0, <1>5, <2>1, <2>2, <2>3 DEF Insert, visible, TypeOK
  <2> QED
    BY <1>0, <1>5, <2>4, Silent DEF Insert, Phase, Answered
<1>6. ASSUME NEW t \in Threads, Assign(t) PROVE FS!Next
  <2> DEFINE p == call[t].path
  <2>1. call[t].op = "add" /\ p \in Paths /\ call[t].file \in Files
    BY <1>0, <1>6, CallFields DEF Assign, LockDiscipline
  <2>2. writer = t
    BY <1>0, <1>6 DEF Assign, LockDiscipline, Writing
  <2>3. \A u \in Threads : pc[u] = "assigning" => u = t
    BY <1>0, <2>2 DEF LockDiscipline, Writing
  <2>4. \A q \in Paths : (Assigning(q) <=> q = p) /\ ~Assigning(q)'
    BY <1>0, <1>6, <2>3 DEF Assign, Assigning, TypeOK
  <2>5. visible[p] = NoFile /\ visible' = [visible EXCEPT ![p] = call[t].file]
    BY <1>0, <1>6, <2>1, <2>4 DEF Assign, visible, TypeOK
  <2>6. phase[t] = "called" /\ phase' = [phase EXCEPT ![t] = "answered"]
    BY <1>0, <1>6, PhaseFollows DEF Assign, phase, Phase, Answered
  <2>7. result' = [result EXCEPT ![t] = NoResult]
    BY <1>0, <1>6 DEF Assign, SeenIsSo, TypeOK
  <2>8. answer' = [answer EXCEPT ![t] = NoResult]
    BY <1>0, <1>6, <2>7, AnswerGiven DEF Assign, Answered
  <2>9. FS!Add(p) = NoResult
    BY <2>5 DEF FS!Add, NoResult, FS!NoResult
  <2> QED
    BY <1>6, <2>1, <2>5, <2>6, <2>8, <2>9 DEF Assign, FS!Answer, FS!Next
<1>7. ASSUME NEW t \in Threads, Iterate(t) PROVE FS!Next \/ UNCHANGED FS!vars
  <2>1. visible = fs_
    BY <1>7, HoldersSeeTheStore DEF Iterate, Reading
  <2>2. visible' = visible
    BY <1>0, <1>7, VisibleKept DEF Iterate, Assigning, TypeOK
  <2>3. CASE UNCHANGED pc
    <3>1. UNCHANGED call /\ pc' = [pc EXCEPT ![t] = "iterating"]
      BY <1>0, <1>7, <2>3 DEF Iterate, TypeOK
    <3>2. \A u \in Threads : pc[u] \in Answered => result'[u] = result[u]
      BY <1>0, <1>7 DEF Iterate, Answered, TypeOK
    <3>3. Phase("iterating") = Phase(pc[t])
      BY <1>7 DEF Iterate
    <3> QED
      BY <1>0, <2>2, <3>1, <3>2, <3>3, Silent
  <2>4. CASE Stored(fs_) \ result[t].list = {} /\ Goto(t, "unlocking") /\ UNCHANGED result
    <3>1. call[t].op = "list"
      BY <1>0, <1>7 DEF Iterate, LockDiscipline
    <3>2. result[t] = FS!List
      <4>1. /\ result[t].list \subseteq Stored(fs_)
            /\ result[t] = [NoResult EXCEPT !.list = result[t].list]
        BY <1>0, <1>7 DEF Iterate, SeenIsSo
      <4>2. result[t].list = Stored(fs_)
        BY <4>1, <2>4
      <4>3. FS!Stored(visible) = Stored(fs_)
        BY <2>1 DEF FS!Stored, Stored
      <4> QED
        BY <4>1, <4>2, <4>3 DEF FS!List, NoResult, FS!NoResult
    <3>3. phase[t] = "called" /\ phase' = [phase EXCEPT ![t] = "answered"]
      BY <1>0, <1>7, <2>4, PhaseFollows DEF Iterate, phase, Phase, Answered
    <3>4. result' = [result EXCEPT ![t] = FS!List]
      BY <1>0, <2>4, <3>2 DEF TypeOK
    <3>5. answer' = [answer EXCEPT ![t] = FS!List]
      BY <1>0, <2>4, <3>4, AnswerGiven DEF Answered
    <3> QED
      BY <1>7, <2>2, <3>1, <3>3, <3>5 DEF Iterate, FS!Answer, FS!Next
  <2> QED
    BY <1>7, <2>3, <2>4 DEF Iterate
<1>8. ASSUME NEW t \in Threads, Erase(t) PROVE FS!Next
  <2> DEFINE p == call[t].path
             r == [NoResult EXCEPT !.status = IF exists(p) THEN "Success" ELSE "FileNotFound"]
  <2>1. visible = fs_
    BY <1>8, HoldersSeeTheStore DEF Erase
  <2>2. call[t].op = "remove" /\ p \in Paths
    BY <1>0, <1>8, CallFields DEF Erase, LockDiscipline
  <2>3. \A q \in Paths : Assigning(q)' <=> Assigning(q)
    BY <1>0, <1>8 DEF Erase, Assigning, TypeOK
  <2>4. visible' = [visible EXCEPT ![p] = NoFile]
    BY <1>0, <1>8, <2>1, <2>2, <2>3 DEF Erase, visible, TypeOK
  <2>5. phase[t] = "called" /\ phase' = [phase EXCEPT ![t] = "answered"]
    BY <1>0, <1>8, PhaseFollows DEF Erase, phase, Phase, Answered
  <2>6. answer' = [answer EXCEPT ![t] = r]
    BY <1>0, <1>8, AnswerGiven DEF Erase, Answered
  <2>7. r = FS!Remove(p)
    BY <2>1 DEF FS!Remove, exists, NoResult, FS!NoResult
  <2> QED
    BY <1>8, <2>2, <2>4, <2>5, <2>6, <2>7 DEF Erase, FS!Answer, FS!Next
<1>9. ASSUME NEW t \in Threads, Unlock(t) PROVE UNCHANGED FS!vars
  <2>1. visible' = visible
    BY <1>0, <1>9, VisibleKept DEF Unlock, Assigning, TypeOK
  <2> QED
    BY <1>0, <1>9, <2>1, Silent DEF Unlock, Phase, Answered
<1>10. ASSUME NEW t \in Threads, Return(t) PROVE FS!Next
  <2>1. visible' = visible
    BY <1>0, <1>10, VisibleKept DEF Return, Assigning, TypeOK
  <2>2. phase[t] = "answered" /\ phase' = [phase EXCEPT ![t] = "idle"]
    BY <1>0, <1>10, PhaseFollows DEF Return, phase, Phase, Answered
  <2>3. answer' = [answer EXCEPT ![t] = NoResult]
    BY <1>0, <1>10 DEF Return, answer, Answered, TypeOK
  <2> QED
    BY <1>10, <2>1, <2>2, <2>3 DEF Return, FS!Return, FS!Next, NoResult, FS!NoResult
<1> QED
  BY <1>a, <1>1, <1>2, <1>3, <1>4, <1>5, <1>6, <1>7, <1>8, <1>9, <1>10 DEF Next

(* MemoryFs implements the atomic store its interface promises: every      *)
(* get, add, list and remove of memory_fs.cpp takes effect in one step     *)
(* between its call and its return, whatever the other threads do.         *)
THEOREM Linearizability == Spec => ImplementsFileStore
<1> QED
  BY InitImplements, NextImplements, Invariance, PTL DEF Spec, ImplementsFileStore, FS!Spec

(* Contents once stored change only when a remove() of their path takes    *)
(* effect: so it is in FileStore, of which every step is one.              *)
THEOREM StoredFilesStay == Spec => NoOverwrite
<1> DEFINE Kept == \A p \in Paths :
              visible[p] \in Files /\ visible'[p] # visible[p] => visible'[p] = NoFile /\ Removing(p)
<1>1. IInv /\ [FS!Next]_FS!vars => Kept
  <2> SUFFICES ASSUME IInv, [FS!Next]_FS!vars, NEW p \in Paths,
                      visible[p] \in Files, visible'[p] # visible[p]
               PROVE  visible'[p] = NoFile /\ Removing(p)
    OBVIOUS
  <2>1. PICK t \in Threads : FS!Answer(t)
    BY DEF FS!Next, FS!Call, FS!Return, FS!vars
  <2>2. phase[t] = "called" /\ phase'[t] = "answered"
    BY <2>1 DEF FS!Answer, phase
  <2>3. visible \in [Paths -> Files \cup {NoFile}]
    BY DEF IInv, TypeOK, visible
  <2>4. CASE call[t].op = "add"
    BY <2>1, <2>3, <2>4, NoFileAssumption DEF FS!Answer
  <2>5. CASE call[t].op = "remove"
    <3>1. visible' = [visible EXCEPT ![call[t].path] = NoFile]
      BY <2>1, <2>5 DEF FS!Answer
    <3>2. call[t].path = p /\ visible'[p] = NoFile
      BY <2>3, <3>1
    <3> QED
      BY <2>2, <2>5, <3>2 DEF Removing
  <2>6. CASE call[t].op \in {"get", "list"}
    BY <2>1, <2>6 DEF FS!Answer
  <2> QED
    BY <2>1, <2>4, <2>5, <2>6 DEF FS!Answer
<1>2. IInv /\ IInv' /\ [Next]_vars => [Kept]_vars
  BY <1>1, NextImplements
<1> QED
  BY <1>2, Invariance, PTL DEF Spec, NoOverwrite
=============================================================================
