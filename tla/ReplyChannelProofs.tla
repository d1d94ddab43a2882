-------------------------- MODULE ReplyChannelProofs --------------------------
(***************************************************************************)
(* ReplyChannel for any set of messages and any number of them: no message *)
(* is lost, repeated or overtaken, and at most one write is in progress.   *)
(***************************************************************************)
EXTENDS ReplyChannel, SequenceTheorems, TLAPS

LEMMA InitInvariant == Init => IInv
<1> SUFFICES ASSUME Init PROVE IInv
  OBVIOUS
<1>1. TypeOK
  BY EmptySeq DEF Init, TypeOK
<1>4. OneWriter
  BY DEF Init, OneWriter
<1>2. <<>> \in Seq(Messages) /\ <<>> \o <<>> = <<>>
  BY ConcatEmptySeq
<1>3. NothingLost
  BY <1>2 DEF Init, NothingLost, Unsent
<1> QED
  BY <1>1, <1>3, <1>4 DEF IInv

LEMMA NextKeepsTypes == IInv /\ [Next]_vars => TypeOK'
<1> SUFFICES ASSUME IInv, [Next]_vars PROVE TypeOK'
  OBVIOUS
<1>0. TypeOK /\ OneWriter
  BY DEF IInv
<1>a. CASE UNCHANGED vars
  BY <1>0, <1>a DEF vars, TypeOK
<1>1. CASE StartReceiving
  BY <1>0, <1>1 DEF StartReceiving, TypeOK
<1>2. CASE Greet
  <2>1. CASE client # "ftp"
    BY <1>0, <1>2, <2>1 DEF Greet, TypeOK
  <2>2. CASE client = "ftp"
    <3>1. /\ posts' = Append(posts, Greeting) /\ posted' = Append(posted, Greeting)
          /\ starting' = "started"
          /\ UNCHANGED <<client, output_queue_, writing, wrote, failed, delivered>>
      BY <1>2, <2>2 DEF Greet, sendMessage
    <3> QED
      BY <1>0, <3>1, GreetingAssumption DEF TypeOK
  <2> QED
    BY <2>1, <2>2
<1>3. CASE Reply
  BY <1>0, <1>3 DEF Reply, sendMessage, TypeOK
<1>4. CASE Enqueue
  <2>1. Head(posts) \in Messages /\ Tail(posts) \in Seq(Messages)
    BY <1>0, <1>4, HeadTailProperties DEF Enqueue, TypeOK
  <2> QED
    BY <1>0, <1>4, <2>1 DEF Enqueue, TypeOK
<1>5. CASE Write
  <2>1. output_queue_ # <<>>
    BY <1>0, <1>5 DEF Write, TypeOK, OneWriter
  <2>2. Head(output_queue_) \in Messages
    BY <1>0, <2>1, HeadTailProperties DEF TypeOK
  <2> QED
    BY <1>0, <1>5, <2>2 DEF Write, TypeOK
<1>6. CASE Written
  <2>1. output_queue_ # <<>>
    BY <1>0, <1>6 DEF Written, TypeOK, OneWriter
  <2>2. Tail(output_queue_) \in Seq(Messages)
    BY <1>0, <2>1, HeadTailProperties DEF TypeOK
  <2> QED
    BY <1>0, <1>6, <2>2 DEF Written, TypeOK
<1>7. CASE FailToWrite
  BY <1>0, <1>7 DEF FailToWrite, TypeOK
<1> QED
  BY <1>a, <1>1, <1>2, <1>3, <1>4, <1>5, <1>6, <1>7 DEF Next

(* Between them sendMessage and sendMessageHandler keep one write going.   *)
LEMMA NextKeepsOneWriter == IInv /\ [Next]_vars => OneWriter'
<1> SUFFICES ASSUME IInv, [Next]_vars PROVE OneWriter'
  OBVIOUS
<1>0. TypeOK /\ OneWriter
  BY DEF IInv
<1>a. CASE UNCHANGED vars
  BY <1>0, <1>a DEF vars, OneWriter
<1>1. CASE StartReceiving \/ Greet \/ Reply
  BY <1>0, <1>1 DEF StartReceiving, Greet, Reply, sendMessage, OneWriter
<1>2. CASE Enqueue
  <2>1. Append(output_queue_, Head(posts)) # <<>>
    BY <1>0, <1>2, HeadTailProperties, AppendProperties DEF Enqueue, TypeOK
  <2> QED
    BY <1>0, <1>2, <2>1 DEF Enqueue, OneWriter, TypeOK
<1>3. CASE Write
  BY <1>0, <1>3 DEF Write, OneWriter, TypeOK
<1>5. CASE FailToWrite
  <2>1. output_queue_ # <<>> /\ failed = FALSE /\ writing + wrote = 1
    BY <1>0, <1>5 DEF FailToWrite, OneWriter, TypeOK
  <2> QED
    BY <1>0, <1>5, <2>1 DEF FailToWrite, OneWriter, TypeOK
<1>4. CASE Written
  BY <1>0, <1>4 DEF Written, OneWriter, TypeOK
<1> QED
  BY <1>a, <1>1, <1>2, <1>3, <1>4, <1>5 DEF Next

(* A sequence that is not empty is its head followed by its tail. *)
LEMMA HeadThenTail ==
    ASSUME NEW S, NEW s \in Seq(S), s # <<>>
    PROVE  s = <<Head(s)>> \o Tail(s)
<1>1. /\ Head(s) \in S /\ Tail(s) \in Seq(S) /\ Len(Tail(s)) = Len(s) - 1
      /\ \A i \in 1 .. Len(Tail(s)) : Tail(s)[i] = s[i + 1]
  BY HeadTailProperties
<1>2. <<Head(s)>> \in Seq(S) /\ Len(<<Head(s)>>) = 1 /\ <<Head(s)>>[1] = s[1]
  BY <1>1
<1>3. /\ <<Head(s)>> \o Tail(s) \in Seq(S)
      /\ Len(<<Head(s)>> \o Tail(s)) = 1 + Len(Tail(s))
      /\ \A i \in 1 .. 1 + Len(Tail(s)) :
            (<<Head(s)>> \o Tail(s))[i] = IF i <= 1 THEN <<Head(s)>>[i] ELSE Tail(s)[i - 1]
  BY <1>1, <1>2, ConcatProperties
<1>4. Len(s) \in Nat
  BY LenProperties
<1>5. \A i \in 1 .. Len(s) : s[i] = (<<Head(s)>> \o Tail(s))[i]
  BY <1>1, <1>2, <1>3, <1>4
<1> QED
  BY <1>1, <1>3, <1>4, <1>5, SeqEqual

(* The first of t moves to the end of s: their concatenation is the same.  *)
LEMMA MoveHead ==
    ASSUME NEW S, NEW s \in Seq(S), NEW t \in Seq(S), t # <<>>
    PROVE  Append(s, Head(t)) \o Tail(t) = s \o t
<1>1. Head(t) \in S /\ Tail(t) \in Seq(S) /\ <<Head(t)>> \in Seq(S)
  BY HeadTailProperties
<1>2. Append(s, Head(t)) = s \o <<Head(t)>>
  BY <1>1, AppendIsConcat
<1>3. (s \o <<Head(t)>>) \o Tail(t) = s \o (<<Head(t)>> \o Tail(t))
  BY <1>1, ConcatAssociative
<1> QED
  BY <1>2, <1>3, HeadThenTail

(* Appending to the end of a concatenation. *)
LEMMA AppendToConcat ==
    ASSUME NEW S, NEW s \in Seq(S), NEW t \in Seq(S), NEW e \in S
    PROVE  s \o Append(t, e) = Append(s \o t, e)
<1>1. <<e>> \in Seq(S) /\ s \o t \in Seq(S)
  BY ConcatProperties
<1>2. s \o Append(t, e) = s \o (t \o <<e>>)
  BY AppendIsConcat
<1>3. Append(s \o t, e) = (s \o t) \o <<e>>
  BY <1>1, AppendIsConcat
<1> QED
  BY <1>1, <1>2, <1>3, ConcatAssociative

(* What waits is a sequence of messages. *)
LEMMA UnsentIsSeq == TypeOK /\ OneWriter => Unsent \in Seq(Messages)
<1> SUFFICES ASSUME TypeOK, OneWriter PROVE Unsent \in Seq(Messages)
  OBVIOUS
<1> DEFINE rest == IF wrote > 0 THEN Tail(output_queue_) ELSE output_queue_
<1>1. rest \in Seq(Messages)
  BY HeadTailProperties DEF TypeOK, OneWriter
<1> HIDE DEF rest
<1>2. rest \o posts \in Seq(Messages)
  BY <1>1, ConcatProperties DEF TypeOK
<1> QED
  BY <1>2 DEF Unsent, rest

(* The steps of the connection either leave the messages where they are,   *)
(* or move the first of those unsent to the client.                        *)
LEMMA NextKeepsNothingLost == IInv /\ [Next]_vars => NothingLost'
<1> SUFFICES ASSUME IInv, [Next]_vars PROVE NothingLost'
  OBVIOUS
<1>0. TypeOK /\ OneWriter /\ NothingLost
  BY DEF IInv
<1> DEFINE rest == IF wrote > 0 THEN Tail(output_queue_) ELSE output_queue_
<1>b. rest \in Seq(Messages) /\ Unsent = rest \o posts /\ Unsent \in Seq(Messages)
  <2>1. rest \in Seq(Messages)
    BY <1>0, HeadTailProperties DEF TypeOK, OneWriter
  <2>2. Unsent = rest \o posts
    BY DEF Unsent
  <2> QED
    BY <1>0, <2>1, <2>2, UnsentIsSeq
<1>c. posts \in Seq(Messages) /\ delivered \in Seq(Messages) /\ posted = delivered \o Unsent
  BY <1>0 DEF TypeOK, NothingLost
<1>a. CASE UNCHANGED vars
  BY <1>0, <1>a DEF vars, NothingLost, Unsent
<1>1. ASSUME NEW m \in Messages, sendMessage(m) PROVE NothingLost'
  <2>1. Unsent' = rest \o Append(posts, m)
    BY <1>1 DEF sendMessage, Unsent
  <2>2. rest \o Append(posts, m) = Append(rest \o posts, m)
    <3> HIDE DEF rest
    <3> QED
      BY <1>b, <1>c, AppendToConcat
  <2>3. delivered \o Append(Unsent, m) = Append(delivered \o Unsent, m)
    <3> HIDE DEF rest
    <3> QED
      BY <1>b, <1>c, AppendToConcat
  <2> QED
    BY <1>1, <1>b, <1>c, <2>1, <2>2, <2>3 DEF sendMessage, NothingLost
<1>2. CASE StartReceiving
  BY <1>0, <1>2 DEF StartReceiving, NothingLost, Unsent
<1>3. CASE Greet
  <2>1. CASE client # "ftp"
    BY <1>c, <1>3, <2>1 DEF Greet, NothingLost, Unsent
  <2>2. CASE client = "ftp"
    BY <1>1, <1>3, <2>2, GreetingAssumption DEF Greet
  <2> QED
    BY <2>1, <2>2
<1>4. CASE Reply
  BY <1>1, <1>4 DEF Reply
<1>5. CASE Enqueue
  <2>1. Head(posts) \in Messages /\ Tail(posts) \in Seq(Messages) /\ posts \in Seq(Messages)
    BY <1>0, <1>5, HeadTailProperties DEF Enqueue, TypeOK
  <2>2. Append(rest, Head(posts)) \o Tail(posts) = Unsent
    <3>1. posts # <<>>
      BY <1>5 DEF Enqueue
    <3> HIDE DEF rest
    <3> QED
      BY <1>b, <2>1, <3>1, MoveHead
  <2>3. CASE wrote > 0
    <3>1. output_queue_ # <<>> /\ rest = Tail(output_queue_)
      BY <1>0, <2>3 DEF OneWriter, TypeOK
    <3>2. Tail(Append(output_queue_, Head(posts))) = Append(rest, Head(posts))
      BY <1>0, <2>1, <3>1, HeadTailAppend DEF TypeOK
    <3>3. Unsent' = Append(rest, Head(posts)) \o Tail(posts)
      BY <1>5, <2>3, <3>2 DEF Enqueue, Unsent
    <3> QED
      BY <1>0, <1>5, <2>2, <3>3 DEF Enqueue, NothingLost
  <2>4. CASE ~(wrote > 0)
    <3>1. Unsent' = Append(rest, Head(posts)) \o Tail(posts)
      BY <1>5, <2>4 DEF Enqueue, Unsent
    <3> QED
      BY <1>0, <1>5, <2>2, <3>1 DEF Enqueue, NothingLost
  <2> QED
    BY <2>3, <2>4
<1>6. CASE Write
  <2>1. wrote = 0 /\ output_queue_ # <<>>
    BY <1>0, <1>6 DEF Write, OneWriter, TypeOK
  <2>2. Head(output_queue_) \in Messages /\ Tail(output_queue_) \in Seq(Messages)
    BY <1>0, <2>1, HeadTailProperties DEF TypeOK
  <2>3. Unsent = output_queue_ \o posts /\ Unsent' = Tail(output_queue_) \o posts
    BY <1>6, <2>1 DEF Write, Unsent
  <2>4. output_queue_ = <<Head(output_queue_)>> \o Tail(output_queue_)
    BY <1>0, <2>1, HeadThenTail DEF TypeOK
  <2>5. <<Head(output_queue_)>> \in Seq(Messages)
    BY <2>2
  <2>6. Unsent = <<Head(output_queue_)>> \o Unsent'
    BY <1>0, <2>2, <2>3, <2>4, <2>5, ConcatAssociative DEF TypeOK
  <2>7. Unsent' \in Seq(Messages)
    BY <1>0, <2>2, <2>3, ConcatProperties DEF TypeOK
  <2>8. delivered \o Unsent = (delivered \o <<Head(output_queue_)>>) \o Unsent'
    <3>1. ASSUME NEW u, u = Unsent', NEW h, h = <<Head(output_queue_)>>
          PROVE  delivered \o (h \o u) = (delivered \o h) \o u
      BY <1>c, <2>5, <2>7, <3>1, ConcatAssociative
    <3> QED
      BY <2>6, <3>1
  <2>9. delivered \o <<Head(output_queue_)>> = delivered'
    BY <1>0, <1>6, <2>2, AppendIsConcat DEF Write, TypeOK
  <2> QED
    BY <1>0, <1>6, <2>8, <2>9 DEF Write, NothingLost
<1>7. CASE Written
  <2>1. wrote = 1 /\ wrote' = 0
    BY <1>0, <1>7 DEF Written, OneWriter, TypeOK
  <2>2. Unsent' = Unsent
    BY <1>7, <2>1 DEF Written, Unsent
  <2> QED
    BY <1>0, <1>7, <2>2 DEF Written, NothingLost
<1>8. CASE FailToWrite
  BY <1>0, <1>8 DEF FailToWrite, NothingLost, Unsent
<1> QED
  BY <1>a, <1>2, <1>3, <1>4, <1>5, <1>6, <1>7, <1>8 DEF Next

-----------------------------------------------------------------------------
(* In every execution at most one write is in progress and no message is   *)
(* lost, repeated or overtaken.                                            *)
THEOREM Invariance == Spec => []IInv
<1>1. IInv /\ [Next]_vars => IInv'
  BY NextKeepsTypes, NextKeepsOneWriter, NextKeepsNothingLost DEF IInv
<1> QED
  BY InitInvariant, <1>1, PTL DEF Spec

(* The two strands' handlers never have two writes of replies in progress  *)
(* on the control connection, and never leave a reply without one.         *)
THEOREM SingleWriter == Spec => []OneWriter
<1>1. IInv => OneWriter
  BY DEF IInv
<1> QED
  BY Invariance, <1>1, PTL

(* What was given to sendMessage is what the client has received followed  *)
(* by what waits for the strand or the socket.                             *)
THEOREM RepliesInOrder == Spec => []NothingLost
<1>1. IInv => NothingLost
  BY DEF IInv
<1> QED
  BY Invariance, <1>1, PTL

(* The message a write takes is the one the stream delivers next. *)
LEMMA NextImplements == IInv /\ [Next]_vars => [RS!Next]_RS!vars
<1> SUFFICES ASSUME IInv, [Next]_vars PROVE RS!Next \/ UNCHANGED RS!vars
  OBVIOUS
<1>0. TypeOK /\ OneWriter /\ NothingLost
  BY DEF IInv
<1>1. ASSUME NEW m \in Messages, sendMessage(m) PROVE RS!Next
  BY <1>1 DEF sendMessage, RS!Post, RS!Next
<1>2. CASE Write
  <2>1. wrote = 0 /\ output_queue_ # <<>>
    BY <1>0, <1>2 DEF Write, OneWriter, TypeOK
  <2>2. Unsent = output_queue_ \o posts
    BY <2>1 DEF Unsent
  <2>3. /\ Unsent \in Seq(Messages) /\ Len(Unsent) = Len(output_queue_) + Len(posts)
        /\ \A i \in 1 .. Len(output_queue_) + Len(posts) : Unsent[i] =
              IF i <= Len(output_queue_) THEN output_queue_[i] ELSE posts[i - Len(output_queue_)]
    BY <1>0, <2>2, ConcatProperties DEF TypeOK
  <2>4. Len(output_queue_) >= 1 /\ Len(posts) \in Nat /\ Len(output_queue_) \in Nat /\ Len(delivered) \in Nat
    BY <1>0, <2>1, EmptySeq, LenProperties DEF TypeOK
  <2>5. Unsent[1] = Head(output_queue_) /\ Len(Unsent) >= 1
    BY <1>0, <2>3, <2>4 DEF TypeOK
  <2>6. /\ Len(posted) = Len(delivered) + Len(Unsent)
        /\ \A i \in 1 .. Len(delivered) + Len(Unsent) : posted[i] =
              IF i <= Len(delivered) THEN delivered[i] ELSE Unsent[i - Len(delivered)]
    <3>1. delivered \in Seq(Messages) /\ posted = delivered \o Unsent /\ Unsent \in Seq(Messages)
      BY <1>0, <2>3 DEF TypeOK, NothingLost
    <3>2. /\ Len(delivered \o Unsent) = Len(delivered) + Len(Unsent)
          /\ \A i \in 1 .. Len(delivered) + Len(Unsent) : (delivered \o Unsent)[i] =
                IF i <= Len(delivered) THEN delivered[i] ELSE Unsent[i - Len(delivered)]
      BY <3>1, ConcatProperties
    <3> QED
      BY <3>1, <3>2
  <2>7. Len(delivered) + 1 \in 1 .. Len(delivered) + Len(Unsent)
    BY <2>3, <2>4, <2>5
  <2>8. posted[Len(delivered) + 1] = Head(output_queue_)
    BY <2>4, <2>5, <2>6, <2>7
  <2> QED
    BY <1>2, <2>3, <2>4, <2>5, <2>6, <2>8 DEF Write, RS!Deliver, RS!Next
<1>3. CASE \/ StartReceiving \/ Enqueue \/ Written \/ FailToWrite \/ UNCHANGED vars
  BY <1>3 DEF StartReceiving, Enqueue, Written, FailToWrite, vars, RS!vars
<1>4. CASE Greet
  BY <1>1, <1>4, GreetingAssumption DEF Greet, RS!vars
<1>5. CASE Reply
  BY <1>1, <1>5 DEF Reply
<1> QED
  BY <1>2, <1>3, <1>4, <1>5 DEF Next

(* A session's replies form one stream: the control connection implements  *)
(* ReplyStream, whichever threads call sendMessage.                        *)
THEOREM ControlConnectionIsStream == Spec => ImplementsReplyStream
<1>1. Init => RS!Init
  BY DEF Init, RS!Init
<1> QED
  BY <1>1, NextImplements, Invariance, PTL DEF Spec, ImplementsReplyStream, RS!Spec
=============================================================================
