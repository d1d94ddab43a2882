------------------------------- MODULE MemoryFs -------------------------------
(***************************************************************************)
(* fs::MemoryFs: an unordered_map behind a std::shared_mutex, called by    *)
(* the worker threads of the io_service.  Every access to the map is a     *)
(* step of its own, so that what the lock protects is protected by the     *)
(* lock and not by the grain of the model.  get() answers a reference into *)
(* the map, which the caller copies after the lock has been released.      *)
(***************************************************************************)
EXTENDS Naturals

CONSTANTS Threads, Paths, Files,
          EmptyFile,   \* the std::string that fs_[path] default-constructs
          NoFile, NoOp,
          Nobody,      \* no thread holds the lock in exclusive mode
          Garbage      \* what a dangling reference reads

ASSUME EmptyFileAssumption == EmptyFile \in Files

ASSUME NoFileAssumption == NoFile \notin Files

ASSUME NobodyAssumption == Nobody \notin Threads

VARIABLES fs_,       \* the unordered_map: file at every path, or NoFile
          writer,    \* the thread that holds mutex_ in exclusive mode
          readers,   \* the threads that hold it in shared mode
          pc,        \* the next thing a thread does
          call,      \* the operation it is in
          result,    \* what the operation answers
          alive,     \* the reference it holds, if any, still refers to an element
          copied     \* the copy of a file its caller made after the last get()

vars == <<fs_, writer, readers, pc, call, result, alive, copied>>

Operation == [op : {"get", "remove"}, path : Paths]
                \cup [op : {"add"}, path : Paths, file : Files]
                \cup [op : {"list"}]

Status == {"Success", "FileNotFound", "AlreadyExists"}

Result == [status : Status, file : Files \cup {NoFile}, list : SUBSET Paths]

NoResult == [status |-> "Success", file |-> NoFile, list |-> {}]

Stored(s) == {p \in Paths : s[p] # NoFile}

(* A thread's program counter names the next access it makes to the map. *)
Writing == {"inserting", "assigning", "erasing"}
Reading == {"searching", "dereferencing", "iterating"}

exists(p) == fs_[p] # NoFile

Goto(t, l) == pc' = [pc EXCEPT ![t] = l]

Answers(t, r) == result' = [result EXCEPT ![t] = r]

Init ==
    /\ fs_ = [p \in Paths |-> NoFile]
    /\ writer = Nobody
    /\ readers = {}
    /\ pc = [t \in Threads |-> "idle"]
    /\ call = [t \in Threads |-> NoOp]
    /\ result = [t \in Threads |-> NoResult]
    /\ alive = [t \in Threads |-> TRUE]
    /\ copied = [t \in Threads |-> NoFile]

-----------------------------------------------------------------------------
Call(t) ==
    /\ pc[t] = "idle"
    /\ \E o \in Operation : call' = [call EXCEPT ![t] = o]
    /\ Goto(t, "locking")
    /\ copied' = [copied EXCEPT ![t] = NoFile]
    /\ UNCHANGED <<fs_, writer, readers, result, alive>>

(* Mistake: get() and list() take no lock. *)
LockSharedNot(t) ==
    /\ pc[t] = "locking"
    /\ call[t].op \in {"get", "list"}
    /\ readers' = readers \cup {t}
    /\ Goto(t, IF call[t].op = "get" THEN "searching" ELSE "iterating")
    /\ UNCHANGED <<fs_, writer, call, result, alive, copied>>

(* std::shared_lock in get() and list() *)
LockShared(t) ==
    /\ pc[t] = "locking"
    /\ call[t].op \in {"get", "list"}
    /\ writer = Nobody
    /\ readers' = readers \cup {t}
    /\ Goto(t, IF call[t].op = "get" THEN "searching" ELSE "iterating")
    /\ UNCHANGED <<fs_, writer, call, result, alive, copied>>

(* Mistake: add() and remove() take the lock in shared mode. *)
LockExclusiveShared(t) ==
    /\ pc[t] = "locking"
    /\ call[t].op \in {"add", "remove"}
    /\ writer = Nobody
    /\ readers' = readers \cup {t}
    /\ Goto(t, IF call[t].op = "add" THEN "searching" ELSE "erasing")
    /\ UNCHANGED <<fs_, writer, call, result, alive, copied>>

(* std::unique_lock in add() and remove() *)
LockExclusive(t) ==
    /\ pc[t] = "locking"
    /\ call[t].op \in {"add", "remove"}
    /\ writer = Nobody /\ readers = {}
    /\ writer' = t
    /\ Goto(t, IF call[t].op = "add" THEN "searching" ELSE "erasing")
    /\ UNCHANGED <<fs_, readers, call, result, alive, copied>>

(* Mistake: add() does not look for the path. *)
SearchOnlyInGet(t) ==
    /\ pc[t] = "searching"
    /\ LET found == exists(call[t].path) IN
       /\ Goto(t, IF call[t].op = "add" THEN "inserting"
                  ELSE IF found THEN "dereferencing" ELSE "unlocking")
       /\ IF call[t].op = "get" /\ ~found
          THEN Answers(t, [NoResult EXCEPT !.status = "FileNotFound"]) ELSE UNCHANGED result
    /\ UNCHANGED <<fs_, writer, readers, call, alive, copied>>

(* if (!exists(path)) of get(), if (exists(path)) of add() *)
Search(t) ==
    /\ pc[t] = "searching"
    /\ LET found == exists(call[t].path) IN
       \/ /\ call[t].op = "get" /\ found
          /\ Goto(t, "dereferencing")
          /\ UNCHANGED result
       \/ /\ call[t].op = "get" /\ ~found
          /\ Goto(t, "unlocking")
          /\ Answers(t, [NoResult EXCEPT !.status = "FileNotFound"])
       \/ /\ call[t].op = "add" /\ ~found
          /\ Goto(t, "inserting")
          /\ UNCHANGED result
       \/ /\ call[t].op = "add" /\ found
          /\ Goto(t, "unlocking")
          /\ Answers(t, [NoResult EXCEPT !.status = "AlreadyExists"])
    /\ UNCHANGED <<fs_, writer, readers, call, alive, copied>>

(* {Status::Success, fs_.at(path)}: the answer refers to the element *)
Dereference(t) ==
    /\ pc[t] = "dereferencing"
    /\ Answers(t, [NoResult EXCEPT !.file = fs_[call[t].path]])
    /\ Goto(t, "unlocking")
    /\ UNCHANGED <<fs_, writer, readers, call, alive, copied>>

(* fs_[path] = file: operator[] inserts an empty string ... *)
Insert(t) ==
    /\ pc[t] = "inserting"
    /\ fs_' = [fs_ EXCEPT ![call[t].path] = EmptyFile]
    /\ Goto(t, "assigning")
    /\ UNCHANGED <<writer, readers, call, result, alive, copied>>

(* ... which is then assigned *)
Assign(t) ==
    /\ pc[t] = "assigning"
    /\ fs_' = [fs_ EXCEPT ![call[t].path] = call[t].file]
    /\ Goto(t, "unlocking")
    /\ UNCHANGED <<writer, readers, call, result, alive, copied>>

(* Mistake: list() stops at the first element. *)
IterateOnce(t) ==
    /\ pc[t] = "iterating"
    /\ \/ \E p \in Stored(fs_) : Answers(t, [result[t] EXCEPT !.list = {p}])
       \/ Stored(fs_) = {} /\ UNCHANGED result
    /\ Goto(t, "unlocking")
    /\ UNCHANGED <<fs_, writer, readers, call, alive, copied>>

(* the range for of list(), in no particular order *)
Iterate(t) ==
    /\ pc[t] = "iterating"
    /\ LET rest == Stored(fs_) \ result[t].list IN
       \/ /\ \E p \in rest : Answers(t, [result[t] EXCEPT !.list = @ \cup {p}])
          /\ UNCHANGED pc
       \/ /\ rest = {}
          /\ Goto(t, "unlocking")
          /\ UNCHANGED result
    /\ UNCHANGED <<fs_, writer, readers, call, alive, copied>>

(* A get() that found its path has answered a reference into the map. *)
HoldsReference(t) == call[t].op = "get" /\ result[t].status = "Success"

RefersTo(t, p) ==
    pc[t] \in {"unlocking", "returned"} /\ HoldsReference(t) /\ call[t].path = p

(* fs_.erase(path): references into the erased element dangle *)
Erase(t) ==
    /\ pc[t] = "erasing"
    /\ LET p == call[t].path IN
       /\ fs_' = [fs_ EXCEPT ![p] = NoFile]
       /\ Answers(t, [NoResult EXCEPT !.status = IF exists(p) THEN "Success" ELSE "FileNotFound"])
       /\ alive' = [u \in Threads |-> alive[u] /\ ~RefersTo(u, p)]
    /\ Goto(t, "unlocking")
    /\ UNCHANGED <<writer, readers, call, copied>>

(* The lock's destructor, and the return. *)
Unlock(t) ==
    /\ pc[t] = "unlocking"
    /\ writer' = IF writer = t THEN Nobody ELSE writer
    /\ readers' = readers \ {t}
    /\ Goto(t, "returned")
    /\ UNCHANGED <<fs_, call, result, alive, copied>>

(* The caller uses the answer: handleFtpRetr and handleHttpGet copy the    *)
(* file a get() has found, through the reference.                          *)
Return(t) ==
    /\ pc[t] = "returned"
    /\ \E file \in {result[t].file} \cup (IF HoldsReference(t) /\ ~alive[t] THEN {Garbage} ELSE {}) :
           copied' = [copied EXCEPT ![t] = file]
    /\ Goto(t, "idle")
    /\ call' = [call EXCEPT ![t] = NoOp]
    /\ result' = [result EXCEPT ![t] = NoResult]
    /\ alive' = [alive EXCEPT ![t] = TRUE]
    /\ UNCHANGED <<fs_, writer, readers>>

Next == \E t \in Threads :
            \/ Call(t) \/ LockShared(t) \/ LockExclusive(t) \/ Search(t)
            \/ Dereference(t) \/ Insert(t) \/ Assign(t) \/ Iterate(t)
            \/ Erase(t) \/ Unlock(t) \/ Return(t)

Spec == Init /\ [][Next]_vars

-----------------------------------------------------------------------------
(* Every variable keeps to its values; a thread outside a call has none.   *)
TypeOK ==
    /\ fs_ \in [Paths -> Files \cup {NoFile}]
    /\ writer \in Threads \cup {Nobody}
    /\ readers \subseteq Threads
    /\ pc \in [Threads -> {"idle", "locking", "unlocking", "returned"} \cup Reading \cup Writing]
    /\ result \in [Threads -> Result]
    /\ alive \in [Threads -> BOOLEAN]
    /\ copied \in [Threads -> Files \cup {NoFile, Garbage}]
    /\ call \in [Threads -> Operation \cup {NoOp}]
    /\ \A t \in Threads : IF pc[t] = "idle" THEN call[t] = NoOp ELSE call[t] \in Operation

(* While a thread is about to modify the map no other thread is about to   *)
(* access it: MemoryFs has no data race on fs_ (memory_fs.hpp, "thread-    *)
(* safe", "only one thread to modify").                                    *)
NoDataRace ==
    \A t, u \in Threads :
        t # u /\ pc[t] \in Writing => pc[u] \notin Writing \cup Reading

(* fs_.at(path) in the noexcept get() finds the path exists() has found:   *)
(* it never throws, which would end the process.                           *)
AtNeverThrows ==
    \A t \in Threads : pc[t] = "dereferencing" => exists(call[t].path)

-----------------------------------------------------------------------------
(* Why it holds: who holds the lock in which mode where, ...               *)
LockDiscipline ==
    /\ writer # Nobody => readers = {}
    /\ \A t \in Threads :
          /\ t \in readers <=> /\ pc[t] \in Reading \cup {"unlocking"}
                              /\ call[t].op \in {"get", "list"}
          /\ writer = t <=> \/ pc[t] \in Writing
                            \/ /\ pc[t] \in {"searching", "unlocking"}
                               /\ call[t].op \in {"add", "remove"}
          /\ pc[t] = "searching" => call[t].op \in {"get", "add"}
          /\ pc[t] = "dereferencing" => call[t].op = "get"
          /\ pc[t] = "iterating" => call[t].op = "list"
          /\ pc[t] \in {"inserting", "assigning"} => call[t].op = "add"
          /\ pc[t] = "erasing" => call[t].op = "remove"

(* ... what exists() and the loop of list() have seen so far is still so,  *)
(* and there is no answer before it is given.                              *)
SeenIsSo ==
    \A t \in Threads :
        /\ pc[t] = "dereferencing" => exists(call[t].path)
        /\ pc[t] = "inserting" => ~exists(call[t].path)
        /\ pc[t] = "iterating" =>
              /\ result[t].list \subseteq Stored(fs_)
              /\ result[t] = [NoResult EXCEPT !.list = result[t].list]
        /\ pc[t] \notin {"iterating", "unlocking", "returned"} => result[t] = NoResult

(* The inductive invariant of MemoryFs: the lock is what makes the map     *)
(* searched, dereferenced and listed as if no other thread were there.     *)
IInv == TypeOK /\ LockDiscipline /\ SeenIsSo

-----------------------------------------------------------------------------
(* MemoryFs is the atomic store of FileStore: get() and list() take effect *)
(* when they leave the map, add() when it has assigned or found the path,  *)
(* remove() when it has erased it.  A path being created counts as stored  *)
(* once its contents are assigned.                                         *)
Assigning(p) == \E t \in Threads : pc[t] = "assigning" /\ call[t].path = p

visible == [p \in Paths |-> IF Assigning(p) THEN NoFile ELSE fs_[p]]

Answered == {"unlocking", "returned"}

phase == [t \in Threads |-> IF pc[t] = "idle" THEN "idle"
                            ELSE IF pc[t] \in Answered THEN "answered" ELSE "called"]

answer == [t \in Threads |-> IF pc[t] \in Answered THEN result[t] ELSE NoResult]

FS == INSTANCE FileStore WITH store <- visible, result <- answer

ImplementsFileStore == FS!Spec

(* The contents stored at a path never change but by a remove() of that    *)
(* path: add() of a path that is there replaces nothing.                   *)
Removing(p) ==
    \E t \in Threads :
        /\ phase[t] = "called" /\ phase'[t] = "answered"
        /\ call[t].op = "remove" /\ call[t].path = p

NoOverwrite ==
    [][\A p \in Paths :
          visible[p] \in Files /\ visible'[p] # visible[p] => visible'[p] = NoFile /\ Removing(p)]_vars

(* What a caller copies out of a get() is a file that was stored, never    *)
(* the memory of an element removed meanwhile: "thread-safe" as a caller   *)
(* of get() needs it.                                                      *)
CopiesAreFiles == \A t \in Threads : copied[t] # Garbage
=============================================================================
