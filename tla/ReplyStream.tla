----------------------------- MODULE ReplyStream -----------------------------
(***************************************************************************)
(* What Session::sendMessage (session.hpp: "Send message to the client.    *)
(* This method is asynchronous") promises: the client receives the         *)
(* messages in the order in which they were posted, each of them once,     *)
(* some time later.                                                        *)
(***************************************************************************)
EXTENDS Naturals, Sequences

CONSTANT Messages

VARIABLES posted,     \* the messages given to sendMessage
          delivered   \* the messages the client has received

vars == <<posted, delivered>>

Init == posted = <<>> /\ delivered = <<>>

Post ==
    /\ \E m \in Messages : posted' = Append(posted, m)
    /\ UNCHANGED delivered

Deliver ==
    /\ Len(delivered) < Len(posted)
    /\ delivered' = Append(delivered, posted[Len(delivered) + 1])
    /\ UNCHANGED posted

Next == Post \/ Deliver

Spec == Init /\ [][Next]_vars
=============================================================================
