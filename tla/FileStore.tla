------------------------------ MODULE FileStore ------------------------------
(***************************************************************************)
(* What fs::IFilesystem (filesystem/ifilesystem.hpp) promises its callers: *)
(* a map from paths to files on which every thread's get, add, list and    *)
(* remove happens in one indivisible step between its call and its return. *)
(***************************************************************************)
CONSTANTS Threads,   \* the io_service workers that call the filesystem
          Paths, Files,
          NoFile,    \* no file is stored at a path
          NoOp       \* the thread is in no call

VARIABLES store,     \* the file stored at every path
          call,      \* the operation a thread is in
          phase,     \* "idle", "called" or "answered"
          result     \* what the operation answered

vars == <<store, call, phase, result>>

Operation == [op : {"get", "remove"}, path : Paths]
                \cup [op : {"add"}, path : Paths, file : Files]
                \cup [op : {"list"}]

(* enum class Status; a get also carries the file, a list the paths. *)
Status == {"Success", "FileNotFound", "AlreadyExists"}

Result == [status : Status, file : Files \cup {NoFile}, list : SUBSET Paths]

NoResult == [status |-> "Success", file |-> NoFile, list |-> {}]

Stored(s) == {p \in Paths : s[p] # NoFile}

TypeOK ==
    /\ store \in [Paths -> Files \cup {NoFile}]
    /\ call \in [Threads -> Operation \cup {NoOp}]
    /\ phase \in [Threads -> {"idle", "called", "answered"}]
    /\ result \in [Threads -> Result]

Init ==
    /\ store = [p \in Paths |-> NoFile]
    /\ call = [t \in Threads |-> NoOp]
    /\ phase = [t \in Threads |-> "idle"]
    /\ result = [t \in Threads |-> NoResult]

Call(t) ==
    /\ phase[t] = "idle"
    /\ \E o \in Operation : call' = [call EXCEPT ![t] = o]
    /\ phase' = [phase EXCEPT ![t] = "called"]
    /\ UNCHANGED <<store, result>>

-----------------------------------------------------------------------------
(* The four operations: the answer and the map after it. *)

Get(p) == [status |-> IF store[p] # NoFile THEN "Success" ELSE "FileNotFound",
           file |-> store[p], list |-> {}]

Add(p) == [NoResult EXCEPT !.status = IF store[p] # NoFile THEN "AlreadyExists" ELSE "Success"]

List == [NoResult EXCEPT !.list = Stored(store)]

Remove(p) == [NoResult EXCEPT !.status = IF store[p] # NoFile THEN "Success" ELSE "FileNotFound"]

Answer(t) ==
    /\ phase[t] = "called"
    /\ phase' = [phase EXCEPT ![t] = "answered"]
    /\ UNCHANGED call
    /\ LET o == call[t] IN
       \/ /\ o.op = "get"
          /\ result' = [result EXCEPT ![t] = Get(o.path)]
          /\ UNCHANGED store
       \/ /\ o.op = "add"
          /\ result' = [result EXCEPT ![t] = Add(o.path)]
          /\ store' = IF store[o.path] = NoFile THEN [store EXCEPT ![o.path] = o.file] ELSE store
       \/ /\ o.op = "list"
          /\ result' = [result EXCEPT ![t] = List]
          /\ UNCHANGED store
       \/ /\ o.op = "remove"
          /\ result' = [result EXCEPT ![t] = Remove(o.path)]
          /\ store' = [store EXCEPT ![o.path] = NoFile]

Return(t) ==
    /\ phase[t] = "answered"
    /\ phase' = [phase EXCEPT ![t] = "idle"]
    /\ call' = [call EXCEPT ![t] = NoOp]
    /\ result' = [result EXCEPT ![t] = NoResult]
    /\ UNCHANGED store

Next == \E t \in Threads : Call(t) \/ Answer(t) \/ Return(t)

Spec == Init /\ [][Next]_vars
=============================================================================
