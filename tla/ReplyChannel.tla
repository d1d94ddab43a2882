----------------------------- MODULE ReplyChannel -----------------------------
(***************************************************************************)
(* The outgoing half of a session's control connection (session.cpp):      *)
(* sendMessage posts to the strand serializer_, which keeps output_queue_  *)
(* and at most one asynchronous write of its front.  Messages come from    *)
(* start() on the accepting thread, from the command handlers on the       *)
(* strand and from the handlers of the data strand on any other thread.    *)
(* A handler of a strand is one step.  The handlers sendMessage posts run  *)
(* in their order; a completion handler may run before or after them.      *)
(***************************************************************************)
EXTENDS Naturals, Sequences

CONSTANTS Messages,
          Greeting,      \* 220, "Welcome to ObjectStorage server"
          MaxSent        \* bound: messages given to sendMessage

ASSUME GreetingAssumption == Greeting \in Messages

VARIABLES client,          \* see Clients
          starting,        \* how far Session::start is
          posts,           \* messages posted to serializer_, not yet enqueued
          output_queue_,
          writing,         \* async_writes of output_queue_.front() in progress
          wrote,           \* successful writes whose handler has not run
          failed,          \* a write has failed: the queue is never sent again
          posted, delivered

vars == <<client, starting, posts, output_queue_, writing, wrote, failed, posted, delivered>>

(* A client whose port is in the FTP port range is greeted. *)
Clients == {"http", "ftp"}

Init ==
    /\ client \in Clients
    /\ starting = "accepted"
    /\ posts = <<>> /\ output_queue_ = <<>>
    /\ writing = 0 /\ wrote = 0 /\ failed = FALSE
    /\ posted = <<>> /\ delivered = <<>>

sendMessage(m) ==
    /\ Len(posted) < MaxSent
    /\ posts' = Append(posts, m)
    /\ posted' = Append(posted, m)
    /\ UNCHANGED <<output_queue_, writing, wrote, failed, delivered>>

(* Session::start: first receiveMessage is posted ... *)
StartReceiving ==
    /\ starting = "accepted"
    /\ starting' = "reading"
    /\ UNCHANGED <<client, posts, output_queue_, writing, wrote, failed, posted, delivered>>

(* ... then an FTP client is greeted. *)
Greet ==
    /\ starting = "reading"
    /\ starting' = "started"
    /\ UNCHANGED client
    /\ IF client = "ftp"
       THEN sendMessage(Greeting)
       ELSE UNCHANGED <<posts, output_queue_, writing, wrote, failed, posted, delivered>>

(* A handler of a command or of the data connection replies.  A client     *)
(* that does not wait for the greeting may have its first reply before it. *)
Reply ==
    /\ starting # "accepted"
    /\ \E m \in Messages \ {Greeting} : sendMessage(m)
    /\ UNCHANGED <<client, starting>>

-----------------------------------------------------------------------------
(* Mistake: every message starts a write. *)
EnqueueAndSend ==
    /\ posts # <<>>
    /\ posts' = Tail(posts)
    /\ output_queue_' = Append(output_queue_, Head(posts))
    /\ writing' = writing + 1
    /\ UNCHANGED <<client, starting, wrote, failed, posted, delivered>>

(* Mistake: the queue is looked at after the message has joined it. *)
EnqueueAndLook ==
    /\ posts # <<>>
    /\ posts' = Tail(posts)
    /\ output_queue_' = Append(output_queue_, Head(posts))
    /\ UNCHANGED <<client, starting, writing, wrote, failed, posted, delivered>>

(* The handler sendMessage posts. *)
Enqueue ==
    /\ posts # <<>>
    /\ posts' = Tail(posts)
    /\ output_queue_' = Append(output_queue_, Head(posts))
    /\ writing' = IF output_queue_ = <<>> THEN writing + 1 ELSE writing
    /\ UNCHANGED <<client, starting, wrote, failed, posted, delivered>>

(* async_write has sent the whole of output_queue_.front(). *)
Write ==
    /\ writing > 0
    /\ writing' = writing - 1
    /\ wrote' = wrote + 1
    /\ delivered' = Append(delivered, Head(output_queue_))
    /\ UNCHANGED <<client, starting, posts, output_queue_, failed, posted>>

(* Mistake: the message that was sent stays at the front. *)
WrittenKept ==
    /\ wrote > 0
    /\ wrote' = wrote - 1
    /\ writing' = writing + 1
    /\ UNCHANGED <<client, starting, posts, output_queue_, failed, posted, delivered>>

(* Mistake: the rest of the queue waits for the next message. *)
WrittenStops ==
    /\ wrote > 0
    /\ wrote' = wrote - 1
    /\ output_queue_' = Tail(output_queue_)
    /\ UNCHANGED <<client, starting, posts, writing, failed, posted, delivered>>

(* The completion handler of sendMessageHandler: pop, send the next. *)
Written ==
    /\ wrote > 0
    /\ wrote' = wrote - 1
    /\ output_queue_' = Tail(output_queue_)
    /\ writing' = IF Tail(output_queue_) # <<>> THEN writing + 1 ELSE writing
    /\ UNCHANGED <<client, starting, posts, failed, posted, delivered>>

(* The client is gone.  The completion handler only logs the message.      *)
FailToWrite ==
    /\ writing > 0
    /\ writing' = writing - 1
    /\ failed' = TRUE
    /\ UNCHANGED <<client, starting, posts, output_queue_, wrote, posted, delivered>>

Next ==
    \/ StartReceiving \/ Greet \/ Reply
    \/ Enqueue \/ Write \/ Written \/ FailToWrite

(* The workers run every handler of the strand and every completed write;  *)
(* start() runs to its end.  Clients need not send commands.               *)
Spec == /\ Init /\ [][Next]_vars
        /\ WF_vars(StartReceiving) /\ WF_vars(Greet)
        /\ WF_vars(Enqueue) /\ WF_vars(Write \/ FailToWrite) /\ WF_vars(Written)

-----------------------------------------------------------------------------
(* Every variable keeps to its values. *)
TypeOK ==
    /\ client \in Clients
    /\ starting \in {"accepted", "reading", "started"}
    /\ posts \in Seq(Messages) /\ output_queue_ \in Seq(Messages)
    /\ posted \in Seq(Messages) /\ delivered \in Seq(Messages)
    /\ writing \in Nat /\ wrote \in Nat /\ failed \in BOOLEAN

(* A write is in progress, done or has failed exactly when the queue is    *)
(* not empty, and never two: two async_writes on one socket would mix      *)
(* their bytes, none would leave the queue standing (sendMessage and       *)
(* sendMessageHandler each start writes, each relying on the other).       *)
OneWriter ==
    writing + wrote + (IF failed THEN 1 ELSE 0) = IF output_queue_ = <<>> THEN 0 ELSE 1

Unsent == (IF wrote > 0 THEN Tail(output_queue_) ELSE output_queue_) \o posts

(* No message is lost, repeated or overtaken on its way: what was given to *)
(* sendMessage is what the client has, followed by what waits.             *)
NothingLost == posted = delivered \o Unsent

IInv == TypeOK /\ OneWriter /\ NothingLost

RS == INSTANCE ReplyStream

(* sendMessage is the stream of replies ReplyStream promises. *)
ImplementsReplyStream == RS!Spec

(* Every message reaches the client unless a write fails. *)
EveryReplyArrives ==
    \A n \in 1 .. MaxSent : Len(posted) >= n ~> (Len(delivered) >= n \/ failed)
=============================================================================
