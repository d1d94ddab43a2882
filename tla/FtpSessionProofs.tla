--------------------------- MODULE FtpSessionProofs ---------------------------
(* One FTP session, for any commands, users and paths, and any number of    *)
(* transfers.                                                               *)
EXTENDS FtpSession, SequenceTheorems, TLAPS

IsSeq(q) == q \in Seq(Elements(q))

LEMMA SeqIs ==
    ASSUME NEW S, NEW q \in Seq(S)
    PROVE /\ IsSeq(q) /\ Len(q) \in Nat /\ Elements(q) \subseteq S
          /\ \A k \in 1 .. Len(q) : q[k] \in S
<1>1. Len(q) \in Nat /\ q \in [1 .. Len(q) -> S] /\ \A k \in 1 .. Len(q) : q[k] \in S
    BY LenProperties, ElementOfSeq
<1>2. q \in [1 .. Len(q) -> Elements(q)]
    BY <1>1 DEF Elements
<1>3. q \in Seq(Elements(q))
    BY <1>1, <1>2, SeqDef
<1>. QED
    BY <1>1, <1>3 DEF IsSeq, Elements

LEMMA SeqLen == \A q : IsSeq(q) => Len(q) \in Nat /\ (q = <<>> <=> Len(q) = 0)
BY LenProperties, EmptySeq DEF IsSeq

LEMMA Few ==
    /\ IsSeq(<<>>) /\ Len(<<>>) = 0
    /\ \A x : IsSeq(<<x>>) /\ Len(<<x>>) = 1 /\ <<x>>[1] = x
    /\ \A x, y : IsSeq(<<x, y>>) /\ Len(<<x, y>>) = 2 /\ <<x, y>>[1] = x /\ <<x, y>>[2] = y
<1>1. IsSeq(<<>>) /\ Len(<<>>) = 0
    BY EmptySeq DEF IsSeq
<1>2. ASSUME NEW x PROVE IsSeq(<<x>>) /\ Len(<<x>>) = 1 /\ <<x>>[1] = x
  <2>1. <<x>> \in Seq({x}) /\ Len(<<x>>) = 1 /\ <<x>>[1] = x
    OBVIOUS
  <2>. QED
    BY <2>1, SeqIs
<1>3. ASSUME NEW x, NEW y PROVE IsSeq(<<x, y>>) /\ Len(<<x, y>>) = 2 /\ <<x, y>>[1] = x /\ <<x, y>>[2] = y
  <2>1. <<x, y>> \in Seq({x, y}) /\ Len(<<x, y>>) = 2 /\ <<x, y>>[1] = x /\ <<x, y>>[2] = y
    OBVIOUS
  <2>. QED
    BY <2>1, SeqIs
<1>. QED
    BY <1>1, <1>2, <1>3

LEMMA Wider ==
    ASSUME NEW S, NEW T, S \subseteq T, NEW q \in Seq(S)
    PROVE q \in Seq(T)
<1>1. Len(q) \in Nat /\ q \in [1 .. Len(q) -> S]
    BY LenProperties
<1>2. q \in [1 .. Len(q) -> T]
    BY <1>1
<1>. QED
    BY <1>1, <1>2, SeqDef

LEMMA Appended ==
    ASSUME NEW q, IsSeq(q), NEW x
    PROVE /\ IsSeq(Append(q, x)) /\ Len(Append(q, x)) = Len(q) + 1 /\ Len(q) \in Nat
          /\ \A k \in 1 .. Len(q) : Append(q, x)[k] = q[k]
          /\ Append(q, x)[Len(q) + 1] = x
<1>. DEFINE T == Elements(q) \cup {x}
<1>1. q \in Seq(T) /\ x \in T
    BY Wider DEF IsSeq
<1>. HIDE DEF T
<1>2. /\ Append(q, x) \in Seq(T) /\ Len(Append(q, x)) = Len(q) + 1 /\ Len(q) \in Nat
      /\ \A k \in 1 .. Len(q) : Append(q, x)[k] = q[k]
      /\ Append(q, x)[Len(q) + 1] = x
    BY <1>1, AppendProperties, LenProperties
<1>3. IsSeq(Append(q, x))
    BY <1>2, SeqIs
<1>. QED
    BY <1>2, <1>3

LEMMA Joined ==
    ASSUME NEW q, IsSeq(q), NEW r, IsSeq(r)
    PROVE /\ IsSeq(q \o r) /\ Len(q \o r) = Len(q) + Len(r)
          /\ Len(q) \in Nat /\ Len(r) \in Nat
          /\ \A j \in 1 .. Len(q) : (q \o r)[j] = q[j]
          /\ \A j \in 1 .. Len(r) : (q \o r)[Len(q) + j] = r[j]
<1>. DEFINE T == Elements(q) \cup Elements(r)
<1>1. q \in Seq(T) /\ r \in Seq(T)
    BY Wider DEF IsSeq
<1>. HIDE DEF T
<1>2. /\ q \o r \in Seq(T) /\ Len(q \o r) = Len(q) + Len(r) /\ Len(q) \in Nat /\ Len(r) \in Nat
      /\ \A j \in 1 .. Len(q) : (q \o r)[j] = q[j]
      /\ \A j \in 1 .. Len(r) : (q \o r)[Len(q) + j] = r[j]
    BY <1>1, ConcatProperties, LenProperties
<1>3. IsSeq(q \o r)
    BY <1>2, SeqIs
<1>. QED
    BY <1>2, <1>3

LEMMA Tailed ==
    ASSUME NEW q, IsSeq(q), q # <<>>
    PROVE /\ IsSeq(Tail(q)) /\ Len(Tail(q)) = Len(q) - 1 /\ Len(q) \in Nat \ {0}
          /\ \A k \in 1 .. Len(q) - 1 : Tail(q)[k] = q[k + 1]
          /\ Head(q) = q[1]
<1>1. q \in Seq(Elements(q)) /\ Len(q) \in Nat \ {0}
    BY SeqLen DEF IsSeq
<1>2. Tail(q) \in Seq(Elements(q)) /\ Len(Tail(q)) = Len(q) - 1 /\ Head(q) = q[1]
    BY <1>1, HeadTailProperties
<1>3. \A k \in 1 .. Len(q) - 1 : Tail(q)[k] = q[k + 1]
    BY <1>1, <1>2, HeadTailProperties
<1>. QED
    BY <1>1, <1>2, <1>3, SeqIs

-------------------------------------------------------------------------------
(* The data strand: its first d handlers run, and others are posted.       *)
Rest(d) == IF d = 0 THEN strand ELSE Tail(strand)

Moves(d, new) == d \in {0, 1} /\ d <= Len(strand) /\ IsSeq(new) /\ strand' = Rest(d) \o new

(* Where the handlers are after it. *)
Shifted(d, new) ==
    LET n == Len(strand) - d
    IN /\ n \in Nat /\ Len(strand) \in Nat /\ Len(new) \in Nat /\ d \in {0, 1}
       /\ IsSeq(strand') /\ Len(strand') = n + Len(new)
       /\ \A k \in 1 .. n : strand'[k] = strand[k + d] /\ k + d \in 1 .. Len(strand)
       /\ \A m \in 1 .. Len(new) : strand'[n + m] = new[m]
       /\ \A k \in 1 .. n + Len(new) :
             k \in 1 .. n \/ (k - n \in 1 .. Len(new) /\ strand'[k] = new[k - n])

LEMMA Positions ==
    ASSUME IsSeq(strand), NEW d, NEW new, Moves(d, new)
    PROVE Shifted(d, new)
<1>1. d \in {0, 1} /\ Len(strand) \in Nat /\ d <= Len(strand) /\ IsSeq(new) /\ Len(new) \in Nat
      /\ strand' = Rest(d) \o new
  <2>1. d \in {0, 1} /\ d <= Len(strand) /\ IsSeq(new) /\ strand' = Rest(d) \o new
    BY DEF Moves
  <2>. QED
    BY <2>1, SeqLen
<1>. DEFINE n == Len(strand) - d
<1>2. IsSeq(Rest(d)) /\ Len(Rest(d)) = n /\ \A k \in 1 .. n : Rest(d)[k] = strand[k + d]
  <2>1. CASE d = 0
    BY <1>1, <2>1 DEF Rest
  <2>2. CASE d = 1
    <3>1. strand # <<>>
        BY <1>1, <2>2, SeqLen
    <3>. QED
        BY <2>2, <3>1, Tailed DEF Rest
  <2>. QED
    BY <1>1, <2>1, <2>2
<1>. DEFINE rest == Rest(d)
<1>3. /\ IsSeq(strand') /\ Len(strand') = n + Len(new) /\ n \in Nat
      /\ \A k \in 1 .. n : strand'[k] = strand[k + d]
      /\ \A m \in 1 .. Len(new) : strand'[n + m] = new[m]
  <2>1. IsSeq(rest) /\ IsSeq(new) /\ strand' = rest \o new /\ Len(rest) = n
        /\ \A k \in 1 .. n : rest[k] = strand[k + d]
    BY <1>1, <1>2
  <2>. HIDE DEF rest, n
  <2>2. /\ IsSeq(strand') /\ Len(strand') = n + Len(new) /\ n \in Nat
        /\ \A k \in 1 .. n : strand'[k] = rest[k]
        /\ \A m \in 1 .. Len(new) : strand'[n + m] = new[m]
    <3>0. IsSeq(rest) /\ IsSeq(new)
        BY <2>1
    <3>. DEFINE all == rest \o new
    <3>1. /\ IsSeq(all) /\ Len(all) = Len(rest) + Len(new) /\ Len(rest) \in Nat
          /\ \A k \in 1 .. Len(rest) : all[k] = rest[k]
          /\ \A m \in 1 .. Len(new) : all[Len(rest) + m] = new[m]
        BY <3>0, Joined
    <3>2. all = strand'
        BY <2>1
    <3>. HIDE DEF all
    <3>. QED
        BY <2>1, <3>1, <3>2
  <2>. QED
    BY <2>1, <2>2 DEF n
<1>4. \A k \in 1 .. n : k + d \in 1 .. Len(strand)
    BY <1>1
<1>5. ASSUME NEW k \in 1 .. n + Len(new), k \notin 1 .. n
      PROVE k - n \in 1 .. Len(new) /\ strand'[k] = new[k - n]
  <2>1. k - n \in 1 .. Len(new) /\ n + (k - n) = k
    BY <1>1, <1>3, <1>5
  <2>. QED
    BY <1>3, <2>1
<1>. QED
    BY <1>1, <1>3, <1>4, <1>5 DEF Shifted

-------------------------------------------------------------------------------
(* What a command may do, whichever it is. *)
Authorised ==
    \/ last_username_' = last_username_ /\ logged_in_user_' = logged_in_user_
    \/ logged_in_user_' = Nobody /\ last_username_' \in Names \cup {Nobody, last_username_}
    \/ /\ last_username_' = last_username_
       /\ logged_in_user_' = last_username_ /\ last_username_ \in Known \cup {"anonymous"}

(* The acceptor is opened anew or closed, and its accepts are cancelled. *)
Cancels ==
    /\ acceptor' \in {"closed", "open", "listening"} /\ accepts' = <<>> /\ backlog' = 0
    /\ \/ strand' = strand \o Cancelled
       \/ strand' = strand \o Cancelled \o <<Handler("close", 0, Null)>>

CancelsOnly == Cancels /\ strand' = strand \o Cancelled /\ transfers' = transfers

Begins150(t) ==
    /\ Len(transfers) < MaxTransfers
    /\ transfers' = Append(transfers, t)
    /\ \/ acceptor = "listening" /\ accepts' = Append(accepts, Len(transfers) + 1) /\ UNCHANGED strand
       \/ strand' = Append(strand, Handler("aborted", Len(transfers) + 1, Null)) /\ UNCHANGED accepts
    /\ UNCHANGED <<acceptor, backlog, fs>>

Starts == \E cmd, arg, path, data : Begins150([cmd |-> cmd, arg |-> arg, path |-> path, data |-> data])

LEMMA Starting ==
    ASSUME NEW cmd, NEW arg, NEW path, NEW data, StartTransfer(cmd, arg, path, data)
    PROVE Starts /\ reply' = 150 /\ UNCHANGED <<login, fs>>
<1>1. Begins150([cmd |-> cmd, arg |-> arg, path |-> path, data |-> data])
    BY DEF StartTransfer, Begins150
<1>. QED
    BY <1>1 DEF Starts, StartTransfer

Refusing == {425, 500, 501, 503, 530, 550}

LEMMA CommandDoes ==
    ASSUME Command
    PROVE /\ commands' = commands + 1 /\ commands < MaxCommands
          /\ last_ftp_command_' \in Commands \cup {last_ftp_command_}
          /\ UNCHANGED <<client, streams>>
          /\ Pipelining \/ Settled \/ KeepTransfers \/ CancelsOnly
          /\ Authorised
          /\ KeepTransfers \/ Starts \/ CancelsOnly
          /\ fs' = fs \/ \E p : remove(p)
          /\ reply' \in Refusing => KeepTransfers /\ fs' = fs /\ current_working_dir_' = current_working_dir_
<1>. DEFINE Result == /\ commands' = commands + 1 /\ commands < MaxCommands
                      /\ last_ftp_command_' \in Commands \cup {last_ftp_command_}
                      /\ UNCHANGED <<client, streams>>
                      /\ Pipelining \/ Settled \/ KeepTransfers \/ CancelsOnly
                      /\ Authorised
                      /\ KeepTransfers \/ Starts \/ CancelsOnly
                      /\ fs' = fs \/ \E p : remove(p)
                      /\ reply' \in Refusing => KeepTransfers /\ fs' = fs /\ current_working_dir_' = current_working_dir_
            Handles == /\ commands' = commands + 1 /\ commands < MaxCommands
                       /\ last_ftp_command_' \in Commands \cup {last_ftp_command_}
                       /\ UNCHANGED <<client, streams>>
            Turns == Pipelining \/ Settled
            Rest1 == /\ Authorised
                     /\ KeepTransfers \/ Starts \/ CancelsOnly
                     /\ fs' = fs \/ \E p : remove(p)
                     /\ reply' \in Refusing => KeepTransfers /\ fs' = fs /\ current_working_dir_' = current_working_dir_
<1>1. ASSUME NEW c, handleFtp(c) PROVE Handles /\ (c # "Pasv" => Turns)
    BY <1>1 DEF handleFtp
<1>2. ASSUME NEW code, Refuse(code) PROVE Rest1
  <2>1. /\ last_username_' = last_username_ /\ logged_in_user_' = logged_in_user_
        /\ current_working_dir_' = current_working_dir_ /\ fs' = fs /\ KeepTransfers
    BY <1>2 DEF Refuse, login
  <2>2. Authorised
    BY <2>1, Zenon DEF Authorised
  <2>. QED
    BY <2>1, <2>2
<1>3. ASSUME NEW cmd, NEW arg, NEW path, NEW data, StartTransfer(cmd, arg, path, data) PROVE Rest1
  <2>1. /\ last_username_' = last_username_ /\ logged_in_user_' = logged_in_user_
        /\ Starts /\ fs' = fs /\ reply' = 150
    BY <1>3, Starting DEF login
  <2>2. reply' \notin Refusing
    BY <2>1 DEF Refusing
  <2>3. Authorised
    BY <2>1, Zenon DEF Authorised
  <2>. QED
    BY <2>1, <2>2, <2>3
<1>4. ASSUME Unrecognized PROVE Result
    BY <1>4, <1>2 DEF Unrecognized
<1>5. ASSUME NEW name \in Names \cup {NoArgument}, User(name) PROVE Result
  <2>1. Handles /\ Turns
    BY <1>1, <1>5 DEF User
  <2>2. Rest1
    <3>1. /\ logged_in_user_' = Nobody /\ last_username_' \in Names \cup {Nobody, last_username_}
          /\ KeepTransfers /\ fs' = fs /\ current_working_dir_' = current_working_dir_
        BY <1>5 DEF User
    <3>2. Authorised
        BY <3>1, Zenon DEF Authorised
    <3>. QED
        BY <3>1, <3>2
  <2>. QED
    BY <2>1, <2>2
<1>6. ASSUME NEW password, Pass(password) PROVE Result
  <2>1. Handles /\ Turns
    BY <1>1, <1>6 DEF Pass
  <2>2. CASE \E code : Refuse(code)
    BY <1>2, <2>1, <2>2
  <2>3. CASE /\ verify(last_username_, password) /\ logged_in_user_' = last_username_ /\ reply' = 230
             /\ KeepTransfers /\ UNCHANGED <<last_username_, current_working_dir_, fs>>
    <3>1. /\ last_username_' = last_username_ /\ logged_in_user_' = last_username_
          /\ last_username_ \in Known \cup {"anonymous"}
          /\ KeepTransfers /\ fs' = fs /\ current_working_dir_' = current_working_dir_
        BY <2>3 DEF verify
    <3>2. Authorised
        BY <3>1, Zenon DEF Authorised
    <3>. QED
        BY <2>1, <3>1, <3>2
  <2>. QED
    BY <1>6, <2>2, <2>3 DEF Pass
<1>7. ASSUME Type PROVE Result
    BY <1>1, <1>2, <1>7 DEF Type
<1>8. ASSUME Quit PROVE Result
  <2>1. Handles /\ Turns
    BY <1>1, <1>8 DEF Quit
  <2>2. Rest1
    <3>1. /\ logged_in_user_' = Nobody /\ last_username_' \in Names \cup {Nobody, last_username_}
          /\ KeepTransfers /\ fs' = fs /\ reply' \notin Refusing
        BY <1>8 DEF Quit, Refusing
    <3>2. Authorised
        BY <3>1, Zenon DEF Authorised
    <3>. QED
        BY <3>1, <3>2
  <2>. QED
    BY <2>1, <2>2
<1>9. ASSUME List PROVE Result
    BY <1>1, <1>2, <1>3, <1>9 DEF List
<1>10. ASSUME Pasv PROVE Result
  <2>. DEFINE Opens == /\ \/ acceptor' = "listening" /\ reply' = 227
                          \/ acceptor' \in {"closed", "open"} /\ reply' = 421
                       /\ accepts' = <<>> /\ backlog' = 0
                       /\ strand' = strand \o Cancelled
                       /\ UNCHANGED <<login, transfers, fs>>
  <2>1. Handles
    BY <1>1, <1>10 DEF Pasv
  <2>2. CASE Refuse(530)
    BY <1>2, <2>1, <2>2 DEF Refuse
  <2>3. CASE Opens
    <3>1. CancelsOnly
        BY <2>3 DEF CancelsOnly, Cancels
    <3>2. /\ fs' = fs /\ reply' \notin Refusing
          /\ last_username_' = last_username_ /\ logged_in_user_' = logged_in_user_
        BY <2>3 DEF login, Refusing
    <3>3. Authorised
        BY <3>2, Zenon DEF Authorised
    <3>. QED
        BY <2>1, <3>1, <3>2, <3>3
  <2>4. Refuse(530) \/ Opens
    BY <1>10 DEF Pasv
  <2>. HIDE DEF Opens, Result
  <2>. QED
    BY <2>2, <2>3, <2>4
<1>11. ASSUME NEW arg, Retr(arg) PROVE Result
  <2>1. Handles /\ Turns
    BY <1>1, <1>11 DEF Retr
  <2>2. (\E code : Refuse(code)) \/ \E cmd, a, path, data : StartTransfer(cmd, a, path, data)
    BY <1>11 DEF Retr
  <2>. QED
    BY <1>2, <1>3, <2>1, <2>2
<1>12. ASSUME NEW arg, Stor(arg) PROVE Result
  <2>1. Handles /\ Turns
    BY <1>1, <1>12 DEF Stor
  <2>2. (\E code : Refuse(code)) \/ \E cmd, a, path, data : StartTransfer(cmd, a, path, data)
    BY <1>12 DEF Stor
  <2>. QED
    BY <1>2, <1>3, <2>1, <2>2
<1>13. ASSUME NEW arg, Dele(arg) PROVE Result
  <2>1. Handles /\ Turns
    BY <1>1, <1>13 DEF Dele
  <2>2. CASE \E code : Refuse(code)
    BY <1>2, <2>1, <2>2
  <2>3. CASE remove(arg) /\ reply' = 250 /\ KeepTransfers /\ UNCHANGED login
    <3>1. /\ KeepTransfers /\ remove(arg) /\ reply' \notin Refusing
          /\ last_username_' = last_username_ /\ logged_in_user_' = logged_in_user_
        BY <2>3 DEF login, Refusing
    <3>2. Authorised
        BY <3>1, Zenon DEF Authorised
    <3>. QED
        BY <2>1, <3>1, <3>2
  <2>. QED
    BY <1>13, <2>2, <2>3 DEF Dele
<1>14. ASSUME NEW arg, Cwd(arg) PROVE Result
  <2>1. Handles /\ Turns
    BY <1>1, <1>14 DEF Cwd
  <2>2. CASE \E code : Refuse(code)
    BY <1>2, <2>1, <2>2
  <2>3. CASE reply' = 250 /\ KeepTransfers /\ UNCHANGED <<last_username_, logged_in_user_, fs>>
    <3>1. /\ KeepTransfers /\ fs' = fs /\ reply' \notin Refusing
          /\ last_username_' = last_username_ /\ logged_in_user_' = logged_in_user_
        BY <2>3 DEF Refusing
    <3>2. Authorised
        BY <3>1, Zenon DEF Authorised
    <3>. QED
        BY <2>1, <3>1, <3>2
  <2>. QED
    BY <1>14, <2>2, <2>3 DEF Cwd
<1>. QED
    BY <1>4, <1>5, <1>6, <1>7, <1>8, <1>9, <1>10, <1>11, <1>12, <1>13, <1>14 DEF Command

(* What no command does leaves the control strand as it is. *)
LEMMA OthersDo ==
    ASSUME Next, ~Command
    PROVE /\ UNCHANGED <<last_ftp_command_, last_username_, logged_in_user_, current_working_dir_, commands>>
          /\ eof' = eof \/ (Aborts /\ eof' = TRUE)
<1>. DEFINE Result ==
        /\ UNCHANGED <<last_ftp_command_, last_username_, logged_in_user_, current_working_dir_, commands>>
        /\ eof' = eof \/ (Aborts /\ eof' = TRUE)
<1>1. CASE Leave
    BY <1>1 DEF Leave, login
<1>2. CASE ReceiveFails
    BY <1>2 DEF ReceiveFails, login, client
<1>3. CASE DataStrand
    BY <1>3 DEF DataStrand, Aborted, Accepted, Enqueue, Send, Written, Read, Save, Close, KeepControl, login, client
<1>4. CASE Network
    BY <1>4 DEF Network, Connect, Accept, WriteDone, ReadDone, KeepSession, login, client
<1>5. ASSUME NEW i, ClientSends(i) \/ ClientEnds(i) \/ ClientResets(i) PROVE Result
    BY <1>5 DEF ClientSends, ClientEnds, ClientResets, KeepSession, login
<1>6. CASE Elsewhere
    BY <1>6 DEF Elsewhere, login, client
<1>. QED
    BY <1>1, <1>2, <1>3, <1>4, <1>5, <1>6 DEF Next

(* The files change by an add or a remove. *)
LEMMA FilesDo ==
    ASSUME Next
    PROVE \/ fs' = fs
          \/ \E p : remove(p)
          \/ \E p : add(p, OtherFile)
          \/ Save
<1>1. CASE Command
    BY <1>1, CommandDoes
<1>2. CASE Leave \/ ReceiveFails
    BY <1>2 DEF Leave, ReceiveFails
<1>3. CASE DataStrand
    BY <1>3 DEF DataStrand, Aborted, Accepted, Enqueue, Send, Written, Read, Close
<1>4. CASE Network
    BY <1>4 DEF Network, Connect, Accept, WriteDone, ReadDone, KeepSession
<1>5. ASSUME NEW i, ClientSends(i) \/ ClientEnds(i) \/ ClientResets(i) PROVE fs' = fs
    BY <1>5 DEF ClientSends, ClientEnds, ClientResets, KeepSession
<1>6. CASE Elsewhere
    BY <1>6 DEF Elsewhere
<1>. QED
    BY <1>1, <1>2, <1>3, <1>4, <1>5, <1>6 DEF Next

(* A command that is refused leaves the files, the transfers and the data  *)
(* port alone.                                                             *)
THEOREM RefusalsChangeNothing == Spec => RefusedChangesNothing
<1>. DEFINE Refused == commands' # commands /\ reply' \in {425, 500, 501, 503, 530, 550}
                          => UNCHANGED <<fs, transfers, accepting, strand, current_working_dir_>>
<1>1. Next => Refused
  <2>. SUFFICES ASSUME Next, commands' # commands, reply' \in {425, 500, 501, 503, 530, 550}
                PROVE UNCHANGED <<fs, transfers, accepting, strand, current_working_dir_>>
    OBVIOUS
  <2>1. Command
    <3>. SUFFICES ASSUME ~Command PROVE FALSE
        OBVIOUS
    <3>1. UNCHANGED commands
        BY OthersDo
    <3>. QED
        BY <3>1
  <2>2. reply' \in Refusing
    BY DEF Refusing
  <2>3. KeepTransfers /\ fs' = fs /\ current_working_dir_' = current_working_dir_
    BY <2>1, <2>2, CommandDoes
  <2>. QED
    BY <2>3 DEF KeepTransfers
<1>2. [Next]_vars => [Refused]_vars
    BY <1>1
<1>. HIDE DEF Refused
<1>3. Spec => [][Refused]_vars
    BY <1>2, PTL DEF Spec
<1>. QED
    BY <1>3 DEF RefusedChangesNothing, Refused

-------------------------------------------------------------------------------
(* The control strand, and the acceptor. *)
Registers ==
    /\ last_ftp_command_ \in Commands \cup {"Unrecognized"}
    /\ last_username_ \in Names \cup {Nobody} /\ logged_in_user_ \in Names \cup {Nobody}
    /\ commands \in 0 .. MaxCommands /\ eof \in BOOLEAN
    /\ LoginIsVerified

LEMMA RegistersKept ==
    ASSUME Registers, Next
    PROVE Registers'
<1>1. CASE Command
  <2>1. /\ commands' = commands + 1 /\ commands < MaxCommands
        /\ last_ftp_command_' \in Commands \cup {last_ftp_command_}
        /\ eof' = eof /\ Authorised
    BY <1>1, CommandDoes DEF client
  <2>2. commands' \in 0 .. MaxCommands
    BY <2>1, BoundsAssumption DEF Registers
  <2>3. last_username_' \in Names \cup {Nobody} /\ logged_in_user_' \in Names \cup {Nobody} /\ LoginIsVerified'
    BY <2>1 DEF Authorised, Registers, LoginIsVerified, LoggedIn
  <2>. QED
    BY <2>1, <2>2, <2>3 DEF Registers
<1>2. CASE ~Command
    BY <1>2, OthersDo DEF Registers, LoginIsVerified, LoggedIn
<1>. QED
    BY <1>1, <1>2

Ports ==
    /\ acceptor \in {"closed", "open", "listening"} /\ backlog \in 0 .. MaxBacklog
    /\ AcceptsHaveAPort

LEMMA PortsKept ==
    ASSUME Ports, IsSeq(accepts), Next
    PROVE Ports'
<1>1. MaxBacklog \in Nat /\ backlog \in Nat
    BY BoundsAssumption DEF Ports
<1>2. ASSUME Cancels PROVE Ports'
    BY <1>1, <1>2 DEF Cancels, Ports, AcceptsHaveAPort
<1>3. ASSUME UNCHANGED accepting PROVE Ports'
    BY <1>3 DEF accepting, Ports, AcceptsHaveAPort
<1>4. CASE Command
  <2>1. CASE KeepTransfers
    BY <1>3, <2>1 DEF KeepTransfers
  <2>2. CASE Starts
    <3>1. /\ UNCHANGED <<acceptor, backlog>>
          /\ acceptor = "listening" \/ accepts' = accepts
        BY <2>2 DEF Starts, Begins150
    <3>. QED
        BY <3>1 DEF Ports, AcceptsHaveAPort
  <2>. QED
    BY <1>2, <1>4, <2>1, <2>2, CommandDoes DEF CancelsOnly
<1>5. CASE ReceiveFails
    BY <1>2, <1>5 DEF ReceiveFails, Cancels
<1>6. CASE Leave \/ Elsewhere
    BY <1>3, <1>6 DEF Leave, Elsewhere
<1>7. CASE DataStrand
    BY <1>3, <1>7 DEF DataStrand, Aborted, Accepted, Enqueue, Send, Written, Read, Save, Close, KeepControl
<1>8. CASE Connect
    BY <1>1, <1>8 DEF Connect, KeepSession, client, Ports, AcceptsHaveAPort
<1>9. CASE Accept
  <2>1. PICK k \in 1 .. Len(accepts) : k <= backlog
    BY <1>9 DEF Accept
  <2>2. acceptor' = acceptor /\ backlog' \in {backlog - 1, backlog} /\ Len(accepts) \in Nat
    BY <1>9, SeqLen DEF Accept, KeepSession
  <2>3. backlog > 0
    BY <1>1, <2>1, <2>2
  <2>4. acceptor = "listening" /\ backlog' \in 0 .. MaxBacklog
    BY <1>1, <2>2, <2>3 DEF Ports, AcceptsHaveAPort
  <2>. QED
    BY <2>2, <2>4 DEF Ports, AcceptsHaveAPort
<1>10. CASE WriteDone \/ \E i \in Ids : ReadDone(i)
    BY <1>3, <1>10 DEF WriteDone, ReadDone, KeepSession, accepting
<1>11. ASSUME NEW i, ClientSends(i) \/ ClientEnds(i) \/ ClientResets(i) PROVE Ports'
    BY <1>3, <1>11 DEF ClientSends, ClientEnds, ClientResets, KeepSession, accepting
<1>. QED
    BY <1>4, <1>5, <1>6, <1>7, <1>8, <1>9, <1>10, <1>11 DEF Next, Network

-------------------------------------------------------------------------------
(* The rest of IInv, of which each part speaks of one handler, one read or *)
(* one write.                                                              *)
Prefixed(f, i, n) == Len(f) <= n /\ \A k \in 1 .. Len(f) : f[k] = <<i, k>>

HandlerFits(h, t, f, s, r) ==
    /\ h.do \in Kinds
    /\ h.id \in IF h.do = "close" THEN {0} ELSE 1 .. Len(t)
    /\ h.do \in Uploading => t[h.id].cmd = "Stor"
    /\ h.do \in Downloading => t[h.id].cmd # "Stor"
    /\ h.do = "read" => h.arg.bytes \in Seq(Ids \X Nat) /\ Prefixed(f[h.id] \o h.arg.bytes, h.id, s[h.id])
    /\ h.do = "enqueue" => h.arg \in {<<t[h.id].data>>, Null}
    /\ Drives(h) /\ h.do \notin {"send", "written"} => r[h.id] = <<>>

BeginsWith(b, q, x) ==
    /\ b # <<>> /\ b[1] = <<x>>
    /\ IF Len(b) = 1 THEN q # <<>> /\ EndsQueue(q[1]) ELSE b[2] = Null

SenderFits(h, b, q, t, r, c) ==
    /\ h.do = "send" =>
          \/ BeginsWith(b, q, t[h.id].data) /\ r[h.id] = <<>>
          \/ b # <<>> /\ b[1] = Null /\ (r[h.id] # <<>> \/ c[h.id] = "reset")
    /\ h.do = "written" =>
          /\ BeginsWith(b, q, t[h.id].data) /\ Len(b) # 1
          /\ h.arg = "ok" => r[h.id] # <<>> \/ c[h.id] = "reset"

WriteFits(w, b, q, t, r) ==
    /\ w.data = <<t[w.id].data>>
    /\ BeginsWith(b, q, t[w.id].data) /\ Len(b) # 1
    /\ r[w.id] = <<>>

TransfersTyped == IsSeq(transfers) /\ Len(transfers) \in 0 .. MaxTransfers

TablesTyped ==
    /\ fin \in [Ids -> {"open", "eof", "reset"}] /\ sent \in [Ids -> 0 .. MaxUpload]
    /\ file \in [Ids -> Seq(Ids \X Nat)] /\ final \in [Ids -> Seq({226, 426, 450})]
    /\ DOMAIN received = Ids

FilesFit == \A i \in Ids : Prefixed(file[i], i, sent[i])

StrandFits ==
    /\ IsSeq(strand)
    /\ \A k \in 1 .. Len(strand) : HandlerFits(strand[k], transfers, file, sent, received)

SetsFit ==
    /\ IsSeq(ftp_data_buffer_)
    /\ ftp_data_socket_ \in 0 .. Len(transfers)
    /\ accepts \in Seq(Begun) /\ \A i \in Elements(accepts) : received[i] = <<>>
    /\ reads \subseteq Begun /\ closed \subseteq Begun /\ Writing \subseteq Begun
    /\ \A i \in reads : transfers[i].cmd = "Stor" /\ received[i] = <<>>
    /\ \A i \in Writing : transfers[i].cmd # "Stor"
    /\ \A i \in Ids : i > Len(transfers) => received[i] = <<>> /\ final[i] = <<>>

SendersFit ==
    /\ \A j, k \in Chain : j = k
    /\ \A v, w \in writes : v = w
    /\ Chain # {} => writes = {}
    /\ \A k \in Chain : SenderFits(strand[k], ftp_data_buffer_, strand, transfers, received, fin)
    /\ \A w \in writes : WriteFits(w, ftp_data_buffer_, strand, transfers, received)

Core ==
    /\ TransfersTyped /\ TablesTyped /\ FilesFit /\ StrandFits /\ SetsFit
    /\ AtOnePlace /\ QueuedInPairs /\ SendersFit
    /\ OneFinalReply /\ DownloadsArrive

LEMMA IdsAre == /\ MaxTransfers \in Nat /\ MaxUpload \in Nat /\ Ids = 1 .. MaxTransfers
                /\ TransfersTyped => Len(transfers) \in Nat /\ Begun \subseteq Ids /\ 0 \notin Begun
BY BoundsAssumption DEF Ids, TransfersTyped, Begun

(* What it is to be the beginning of an upload. *)
LEMMA PrefixIs ==
    ASSUME NEW i \in Ids, NEW n \in Nat, NEW f \in Seq(Ids \X Nat)
    PROVE IsPrefix(f, [k \in 1 .. n |-> <<i, k>>]) <=> Prefixed(f, i, n)
<1>. DEFINE u == [k \in 1 .. n |-> <<i, k>>]
<1>1. u \in [1 .. n -> Ids \X Nat]
    OBVIOUS
<1>2. u \in Seq(Ids \X Nat) /\ Len(u) = n
    BY <1>1, SeqDef, LenProperties
<1>3. \A k \in 1 .. n : u[k] = <<i, k>>
    OBVIOUS
<1>. HIDE DEF u
<1>4. Len(f) \in Nat
    BY LenProperties
<1>5. CASE Len(f) <= n
  <2>. DEFINE part == SubSeq(u, 1, Len(f))
  <2>1. part \in Seq(Ids \X Nat) /\ Len(part) = Len(f) /\ \A k \in 1 .. Len(f) : part[k] = u[k]
    BY <1>2, <1>4, <1>5, SubSeqProperties
  <2>. HIDE DEF part
  <2>2. f = part <=> \A k \in 1 .. Len(f) : f[k] = part[k]
    BY <2>1, SeqEqual
  <2>3. \A k \in 1 .. Len(f) : part[k] = <<i, k>>
    BY <1>3, <1>4, <1>5, <2>1
  <2>4. f = part <=> \A k \in 1 .. Len(f) : f[k] = <<i, k>>
    BY <2>2, <2>3
  <2>5. IsPrefix(f, u) <=> f = part
    BY <1>2, <1>5 DEF IsPrefix, part
  <2>. QED
    BY <1>5, <2>4, <2>5 DEF Prefixed, u
<1>6. CASE ~(Len(f) <= n)
    BY <1>2, <1>6 DEF IsPrefix, Prefixed, u
<1>. QED
    BY <1>5, <1>6

LEMMA IInvIs == IInv <=> Registers /\ Ports /\ Core
<1>1. TransfersTyped => Begun \subseteq Ids
    BY IdsAre
<1>2. TablesTyped => \A i \in Ids : sent[i] \in Nat /\ file[i] \in Seq(Ids \X Nat)
    BY IdsAre DEF TablesTyped
<1>3. TablesTyped => (FilesFit <=> \A i \in Ids : IsPrefix(file[i], Upload(i)))
  <2>1. TablesTyped => \A i \in Ids : Prefixed(file[i], i, sent[i]) <=> IsPrefix(file[i], Upload(i))
    BY <1>2, PrefixIs DEF Upload
  <2>. QED
    BY <2>1 DEF FilesFit
<1>4. Begun = 1 .. Len(transfers) /\ Writing = {w.id : w \in writes}
    BY DEF Begun, Writing
<1>. DEFINE Fits(h) ==
          /\ h.do \in Uploading => transfers[h.id].cmd = "Stor"
          /\ h.do \in Downloading => transfers[h.id].cmd # "Stor"
          /\ h.do = "read" =>
                h.arg.bytes \in Seq(Ids \X Nat) /\ IsPrefix(file[h.id] \o h.arg.bytes, Upload(h.id))
          /\ h.do = "enqueue" => h.arg \in {<<transfers[h.id].data>>, Null}
<1>5. ASSUME TransfersTyped, TablesTyped, NEW h
      PROVE HandlerFits(h, transfers, file, sent, received) <=>
               /\ h.do \in Kinds /\ h.id \in IF h.do = "close" THEN {0} ELSE Begun
               /\ Fits(h)
               /\ Drives(h) /\ h.do \notin {"send", "written"} => received[h.id] = <<>>
  <2>1. ASSUME h.id \in Ids, h.arg.bytes \in Seq(Ids \X Nat)
        PROVE Prefixed(file[h.id] \o h.arg.bytes, h.id, sent[h.id]) <=>
                 IsPrefix(file[h.id] \o h.arg.bytes, Upload(h.id))
    <3>1. file[h.id] \o h.arg.bytes \in Seq(Ids \X Nat) /\ sent[h.id] \in Nat
        BY <1>2, <1>5, <2>1, ConcatProperties
    <3>. QED
        BY <2>1, <3>1, PrefixIs DEF Upload
  <2>2. ASSUME h.do = "read", h.id \in IF h.do = "close" THEN {0} ELSE Begun PROVE h.id \in Ids
    BY <1>1, <1>5, <2>2
  <2>. DEFINE A == h.do \in Kinds
              B == h.id \in IF h.do = "close" THEN {0} ELSE Begun
              R == h.do = "read"
              S == h.arg.bytes \in Seq(Ids \X Nat)
              P == Prefixed(file[h.id] \o h.arg.bytes, h.id, sent[h.id])
              Q == IsPrefix(file[h.id] \o h.arg.bytes, Upload(h.id))
  <2>3. R /\ B /\ S => (P <=> Q)
    BY <2>1, <2>2
  <2>4. HandlerFits(h, transfers, file, sent, received) <=>
           /\ A /\ B
           /\ h.do \in Uploading => transfers[h.id].cmd = "Stor"
           /\ h.do \in Downloading => transfers[h.id].cmd # "Stor"
           /\ R => S /\ P
           /\ h.do = "enqueue" => h.arg \in {<<transfers[h.id].data>>, Null}
           /\ Drives(h) /\ h.do \notin {"send", "written"} => received[h.id] = <<>>
    BY <1>4 DEF HandlerFits
  <2>5. Fits(h) <=>
           /\ h.do \in Uploading => transfers[h.id].cmd = "Stor"
           /\ h.do \in Downloading => transfers[h.id].cmd # "Stor"
           /\ R => S /\ Q
           /\ h.do = "enqueue" => h.arg \in {<<transfers[h.id].data>>, Null}
    OBVIOUS
  <2>. HIDE DEF A, B, R, S, P, Q, Fits
  <2>. QED
    BY <2>3, <2>4, <2>5 DEF A, B
<1>6. ASSUME TransfersTyped, TablesTyped
      PROVE StrandFits <=>
               /\ IsSeq(strand)
               /\ \A k \in 1 .. Len(strand) :
                     strand[k].do \in Kinds /\ strand[k].id \in IF strand[k].do = "close" THEN {0} ELSE Begun
               /\ \A k \in 1 .. Len(strand) : Fits(strand[k])
               /\ \A k \in Driving : strand[k].do \notin {"send", "written"} => received[strand[k].id] = <<>>
  <2>. HIDE DEF Fits
  <2>. QED
    BY <1>5, <1>6 DEF StrandFits, Driving
<1>7. ByCommand <=>
         /\ \A i \in reads : transfers[i].cmd = "Stor"
         /\ \A i \in Writing : transfers[i].cmd # "Stor"
         /\ \A k \in 1 .. Len(strand) : Fits(strand[k])
    BY DEF ByCommand
<1>8. OneSends <=> SendersFit
    BY DEF OneSends, SendersFit, SenderFits, WriteFits, BeginsWith, Begins, Has
<1>. HIDE DEF Fits
<1>9. TypeOK /\ LoginIsVerified /\ AcceptsHaveAPort <=>
        /\ Registers /\ Ports /\ TransfersTyped /\ TablesTyped
        /\ IsSeq(strand)
        /\ \A k \in 1 .. Len(strand) :
                     strand[k].do \in Kinds /\ strand[k].id \in IF strand[k].do = "close" THEN {0} ELSE Begun
        /\ IsSeq(ftp_data_buffer_) /\ accepts \in Seq(Begun)
        /\ ftp_data_socket_ \in 0 .. Len(transfers)
        /\ reads \subseteq Begun /\ closed \subseteq Begun /\ Writing \subseteq Begun
        /\ \A i \in Ids : IsPrefix(file[i], Upload(i))
    BY DEF TypeOK, Registers, Ports, TransfersTyped, TablesTyped, IsSeq, Writing
<1>. QED
    BY <1>3, <1>6, <1>7, <1>8, <1>9 DEF IInv, Core, SetsFit, NotBefore

LEMMA IInvNext == IInv' <=> Registers' /\ Ports' /\ Core'
BY IInvIs, PTL

-------------------------------------------------------------------------------
(* What a step of the data strand leaves as it was. *)
Grown == TransfersTyped' /\ Len(transfers) <= Len(transfers') /\ \A i \in Begun : transfers'[i] = transfers[i]

LEMMA StillFits ==
    ASSUME NEW h, HandlerFits(h, transfers, file, sent, received),
           TransfersTyped, TablesTyped, Grown, TablesTyped',
           \A i \in Ids : sent[i] <= sent'[i],
           h.do = "read" => file'[h.id] = file[h.id],
           Drives(h) /\ h.do \notin {"send", "written"} => received'[h.id] = received[h.id]
    PROVE HandlerFits(h, transfers', file', sent', received')
<1>1. /\ Len(transfers) \in Nat /\ Len(transfers') \in Nat /\ Len(transfers) <= Len(transfers')
      /\ 1 .. Len(transfers) \subseteq Ids
    BY IdsAre, SeqLen DEF Grown, TransfersTyped, Begun
<1>2. h.id \in IF h.do = "close" THEN {0} ELSE 1 .. Len(transfers')
    BY <1>1 DEF HandlerFits
<1>3. h.do # "close" => h.id \in Ids /\ transfers'[h.id] = transfers[h.id]
    BY <1>1 DEF HandlerFits, Grown, Begun
<1>4. h.do \in Uploading \cup Downloading => h.do # "close"
    BY DEF Uploading, Downloading
<1>5. CASE h.do = "read"
  <2>1. sent[h.id] \in Nat /\ sent'[h.id] \in Nat /\ sent[h.id] <= sent'[h.id]
    BY <1>3, <1>5, IdsAre DEF TablesTyped
  <2>. DEFINE all == file[h.id] \o h.arg.bytes
  <2>2. /\ h.arg.bytes \in Seq(Ids \X Nat) /\ file[h.id] \in Seq(Ids \X Nat)
        /\ Prefixed(all, h.id, sent[h.id])
    BY <1>3, <1>5 DEF HandlerFits, TablesTyped
  <2>3. all \in Seq(Ids \X Nat)
    BY <2>2, ConcatProperties
  <2>. HIDE DEF all
  <2>4. Len(all) \in Nat
    BY <2>3, LenProperties
  <2>5. Prefixed(all, h.id, sent'[h.id])
    BY <2>1, <2>2, <2>4 DEF Prefixed
  <2>. QED
    BY <1>2, <1>3, <1>4, <1>5, <2>2, <2>5 DEF HandlerFits, all, Uploading, Downloading
<1>6. CASE h.do # "read"
    BY <1>2, <1>3, <1>4, <1>6 DEF HandlerFits, Uploading, Downloading
<1>. QED
    BY <1>5, <1>6

LEMMA StrandFitsKept ==
    ASSUME StrandFits, NEW d, NEW new, Moves(d, new),
           \A k \in 1 .. Len(strand) : k > d => HandlerFits(strand[k], transfers', file', sent', received'),
           \A m \in 1 .. Len(new) : HandlerFits(new[m], transfers', file', sent', received')
    PROVE StrandFits'
<1>. DEFINE n == Len(strand) - d
<1>1. IsSeq(strand)
    BY DEF StrandFits
<1>2. /\ n \in Nat /\ Len(strand) \in Nat /\ Len(new) \in Nat /\ d \in {0, 1}
      /\ IsSeq(strand') /\ Len(strand') = n + Len(new)
      /\ \A k \in 1 .. n : strand'[k] = strand[k + d] /\ k + d \in 1 .. Len(strand)
      /\ \A k \in 1 .. n + Len(new) :
            k \in 1 .. n \/ (k - n \in 1 .. Len(new) /\ strand'[k] = new[k - n])
  <2>1. Shifted(d, new)
    BY <1>1, Positions
  <2>. QED
    BY <2>1 DEF Shifted
<1>3. \A k \in 1 .. n : HandlerFits(strand'[k], transfers', file', sent', received')
  <2>. TAKE k \in 1 .. n
  <2>1. k + d > d
    BY <1>2
  <2>. QED
    BY <1>2, <2>1
<1>4. \A k \in 1 .. Len(strand') : HandlerFits(strand'[k], transfers', file', sent', received')
    BY <1>2, <1>3
<1>. QED
    BY <1>2, <1>4 DEF StrandFits, IsSeq, Elements

(* Where the transfers are that handlers carry. *)
Gone(d) == IF d = 1 /\ Drives(strand[1]) THEN {strand[1].id} ELSE {}

NewIds(new) == {new[m].id : m \in {j \in 1 .. Len(new) : Drives(new[j])}}

Apart(new) == \A j, m \in 1 .. Len(new) : Drives(new[j]) /\ Drives(new[m]) /\ new[j].id = new[m].id => j = m

LEMMA PlacesMove ==
    ASSUME IsSeq(strand), AtOnePlace, NEW d, NEW new, Moves(d, new), Apart(new),
           NewIds(new) \cap (Handled \ Gone(d)) = {}
    PROVE /\ \A j, k \in Driving' : strand'[j].id = strand'[k].id => j = k
          /\ Handled' \subseteq (Handled \ Gone(d)) \cup NewIds(new)
          /\ Gone(d) \subseteq Handled
<1>. DEFINE n == Len(strand) - d
<1>1. /\ n \in Nat /\ Len(strand) \in Nat /\ Len(new) \in Nat /\ d \in {0, 1}
      /\ Len(strand') = n + Len(new)
      /\ \A k \in 1 .. n : strand'[k] = strand[k + d] /\ k + d \in 1 .. Len(strand)
      /\ \A m \in 1 .. Len(new) : strand'[n + m] = new[m]
      /\ \A k \in 1 .. n + Len(new) :
            k \in 1 .. n \/ (k - n \in 1 .. Len(new) /\ strand'[k] = new[k - n])
  <2>1. Shifted(d, new)
    BY Positions
  <2>. QED
    BY <2>1 DEF Shifted
<1>2. Driving' = {k \in 1 .. Len(strand') : Drives(strand'[k])} /\ Handled' = {strand'[k].id : k \in Driving'}
    BY DEF Driving, Handled
<1>3. /\ Driving = {k \in 1 .. Len(strand) : Drives(strand[k])} /\ Handled = {strand[k].id : k \in Driving}
      /\ \A j, k \in Driving : strand[j].id = strand[k].id => j = k
    BY DEF Driving, Handled, AtOnePlace
<1>4. Gone(d) \subseteq Handled
  <2>1. d = 1 => 1 \in 1 .. Len(strand)
    BY <1>1
  <2>. QED
    BY <1>3, <2>1 DEF Gone
<1>5. ASSUME NEW k \in 1 .. n, Drives(strand'[k])
      PROVE k + d \in Driving /\ strand'[k].id = strand[k + d].id /\ strand'[k].id \in Handled \ Gone(d)
  <2>1. k + d \in Driving /\ strand'[k].id = strand[k + d].id /\ strand'[k].id \in Handled
    BY <1>1, <1>3, <1>5
  <2>2. CASE d = 1 /\ Drives(strand[1])
    <3>1. 1 \in Driving /\ k + d # 1
        BY <1>1, <1>3, <2>2
    <3>2. strand[1].id # strand[k + d].id
        BY <1>3, <2>1, <3>1
    <3>. QED
        BY <2>1, <2>2, <3>2 DEF Gone
  <2>3. CASE ~(d = 1 /\ Drives(strand[1]))
    BY <2>1, <2>3 DEF Gone
  <2>. QED
    BY <2>2, <2>3
<1>6. ASSUME NEW k \in 1 .. n + Len(new), Drives(strand'[k]), k \notin 1 .. n
      PROVE k - n \in 1 .. Len(new) /\ Drives(new[k - n]) /\ strand'[k].id = new[k - n].id /\ strand'[k].id \in NewIds(new)
    BY <1>1, <1>6 DEF NewIds
<1>7. Handled' \subseteq (Handled \ Gone(d)) \cup NewIds(new)
  <2>. SUFFICES ASSUME NEW k \in 1 .. Len(strand'), Drives(strand'[k])
                PROVE strand'[k].id \in (Handled \ Gone(d)) \cup NewIds(new)
    BY <1>2
  <2>1. k \in 1 .. n + Len(new)
    BY <1>1
  <2>. QED
    BY <1>5, <1>6, <2>1
<1>8. ASSUME NEW j \in Driving', NEW k \in Driving', strand'[j].id = strand'[k].id
      PROVE j = k
  <2>0. /\ j \in 1 .. n + Len(new) /\ Drives(strand'[j]) /\ k \in 1 .. n + Len(new) /\ Drives(strand'[k])
    BY <1>1, <1>2
  <2>1. CASE j \in 1 .. n /\ k \in 1 .. n
    <3>1. j + d = k + d
        BY <1>3, <1>5, <1>8, <2>0, <2>1
    <3>. QED
        BY <1>1, <2>1, <3>1
  <2>2. CASE j \notin 1 .. n /\ k \notin 1 .. n
    <3>1. j - n = k - n
        BY <1>6, <1>8, <2>0, <2>2 DEF Apart
    <3>. QED
        BY <1>1, <2>0, <3>1
  <2>3. CASE (j \in 1 .. n) # (k \in 1 .. n)
    <3>1. strand'[j].id \in Handled \ Gone(d) /\ strand'[j].id \in NewIds(new)
        BY <1>5, <1>6, <1>8, <2>0, <2>3
    <3>. QED
        BY <3>1
  <2>. QED
    BY <2>1, <2>2, <2>3
<1>. QED
    BY <1>4, <1>7, <1>8

LEMMA PairsMove ==
    ASSUME IsSeq(strand), QueuedInPairs, NEW d, NEW new, Moves(d, new),
           \A m \in 1 .. Len(new) :
               /\ EndsQueue(new[m]) => m # 1 /\ Queues(new[m - 1])
               /\ Queues(new[m]) => m < Len(new) /\ EndsQueue(new[m + 1]),
           \/ ftp_data_buffer_' # <<>>
           \/ d = 0 /\ ftp_data_buffer_' = ftp_data_buffer_
           \/ d = 1 /\ ~Queues(strand[1])
    PROVE QueuedInPairs'
<1>. DEFINE n == Len(strand) - d
<1>1. /\ n \in Nat /\ Len(strand) \in Nat /\ Len(new) \in Nat /\ d \in {0, 1}
      /\ Len(strand') = n + Len(new)
      /\ \A k \in 1 .. n : strand'[k] = strand[k + d] /\ k + d \in 1 .. Len(strand)
      /\ \A m \in 1 .. Len(new) : strand'[n + m] = new[m]
      /\ \A k \in 1 .. n + Len(new) :
            k \in 1 .. n \/ (k - n \in 1 .. Len(new) /\ strand'[k] = new[k - n])
  <2>1. Shifted(d, new)
    BY Positions
  <2>. QED
    BY <2>1 DEF Shifted
<1>. HIDE DEF n
<1>2. \A k \in 1 .. Len(strand) :
        /\ EndsQueue(strand[k]) => IF k = 1 THEN ftp_data_buffer_ # <<>> ELSE Queues(strand[k - 1])
        /\ Queues(strand[k]) => k < Len(strand) /\ EndsQueue(strand[k + 1])
    BY DEF QueuedInPairs
<1>. DEFINE Paired(k) ==
        /\ EndsQueue(strand'[k]) => IF k = 1 THEN ftp_data_buffer_' # <<>> ELSE Queues(strand'[k - 1])
        /\ Queues(strand'[k]) => k < Len(strand') /\ EndsQueue(strand'[k + 1])
<1>3. ASSUME NEW k \in 1 .. n PROVE Paired(k)
  <2>1. k + d \in 1 .. Len(strand) /\ strand'[k] = strand[k + d]
    BY <1>1
  <2>2. ASSUME EndsQueue(strand'[k])
        PROVE IF k = 1 THEN ftp_data_buffer_' # <<>> ELSE Queues(strand'[k - 1])
    <3>1. CASE k = 1 /\ d = 0
        BY <1>1, <1>2, <2>1, <2>2, <3>1
    <3>2. CASE k = 1 /\ d = 1
        <4>1. k + d # 1 /\ (k + d) - 1 = 1
            BY <3>2
        <4>2. Queues(strand[1])
            BY <1>2, <2>1, <2>2, <4>1
        <4>. QED
            BY <3>2, <4>2
    <3>3. CASE k # 1
        <4>1. k + d # 1 /\ k - 1 \in 1 .. n /\ (k + d) - 1 = (k - 1) + d
            BY <1>1, <3>3
        <4>2. Queues(strand[(k + d) - 1])
            BY <1>2, <2>1, <2>2, <4>1
        <4>3. strand'[k - 1] = strand[(k + d) - 1]
            BY <1>1, <4>1
        <4>. QED
            BY <3>3, <4>2, <4>3
    <3>. QED
        BY <1>1, <3>1, <3>2, <3>3
  <2>3. ASSUME Queues(strand'[k]) PROVE k < Len(strand') /\ EndsQueue(strand'[k + 1])
    <3>1. k + d < Len(strand) /\ EndsQueue(strand[(k + d) + 1])
        BY <1>2, <2>1, <2>3
    <3>2. k + 1 \in 1 .. n /\ (k + 1) + d = (k + d) + 1 /\ k < n + Len(new)
        BY <1>1, <3>1 DEF n
    <3>3. strand'[k + 1] = strand[(k + d) + 1]
        BY <1>1, <3>2
    <3>. QED
        BY <1>1, <3>1, <3>2, <3>3
  <2>. QED
    BY <2>2, <2>3
<1>4. ASSUME NEW k \in 1 .. n + Len(new), k \notin 1 .. n PROVE Paired(k)
  <2>. DEFINE m == k - n
  <2>1. m \in 1 .. Len(new) /\ strand'[k] = new[m] /\ k = n + m
    BY <1>1, <1>4
  <2>2. ASSUME EndsQueue(strand'[k])
        PROVE IF k = 1 THEN ftp_data_buffer_' # <<>> ELSE Queues(strand'[k - 1])
    <3>1. m # 1 /\ Queues(new[m - 1])
        BY <2>1, <2>2
    <3>2. k # 1 /\ m - 1 \in 1 .. Len(new) /\ k - 1 = n + (m - 1)
        BY <1>1, <2>1, <3>1
    <3>3. strand'[n + (m - 1)] = new[m - 1]
        BY <1>1, <3>2
    <3>. QED
        BY <3>1, <3>2, <3>3
  <2>3. ASSUME Queues(strand'[k]) PROVE k < Len(strand') /\ EndsQueue(strand'[k + 1])
    <3>1. m < Len(new) /\ EndsQueue(new[m + 1])
        BY <2>1, <2>3
    <3>2. m + 1 \in 1 .. Len(new) /\ k + 1 = n + (m + 1) /\ k < n + Len(new)
        BY <1>1, <2>1, <3>1
    <3>3. strand'[n + (m + 1)] = new[m + 1]
        BY <1>1, <3>2
    <3>. QED
        BY <1>1, <3>1, <3>2, <3>3
  <2>. QED
    BY <2>2, <2>3
<1>5. \A k \in 1 .. Len(strand') : Paired(k)
    BY <1>1, <1>3, <1>4
<1>. QED
    BY <1>5 DEF QueuedInPairs

LEMMA BeginsStays ==
    ASSUME NEW b, NEW q, NEW r, NEW x, BeginsWith(b, q, x),
           q # <<>> /\ EndsQueue(q[1]) => r # <<>> /\ EndsQueue(r[1])
    PROVE BeginsWith(b, r, x)
BY DEF BeginsWith

(* Steps that do not send leave the transfer that sends where it is. *)
LEMMA ChainStays ==
    ASSUME SendersFit, StrandFits, TransfersTyped, NEW d, NEW new, Moves(d, new),
           \A m \in 1 .. Len(new) : new[m].do \notin {"send", "written"},
           d = 1 => strand[1].do \notin {"send", "written", "enqueue"},
           UNCHANGED <<ftp_data_buffer_, writes, received>>,
           Writing \subseteq Begun, Grown,
           \A i \in Ids : fin[i] = "reset" => fin'[i] = "reset"
    PROVE SendersFit'
<1>. DEFINE n == Len(strand) - d
<1>0. IsSeq(strand)
    BY DEF StrandFits
<1>1. /\ n \in Nat /\ Len(strand) \in Nat /\ Len(new) \in Nat /\ d \in {0, 1}
      /\ IsSeq(strand') /\ Len(strand') = n + Len(new)
      /\ \A k \in 1 .. n : strand'[k] = strand[k + d] /\ k + d \in 1 .. Len(strand)
      /\ \A m \in 1 .. Len(new) : strand'[n + m] = new[m]
      /\ \A k \in 1 .. n + Len(new) :
            k \in 1 .. n \/ (k - n \in 1 .. Len(new) /\ strand'[k] = new[k - n])
  <2>1. Shifted(d, new)
    BY <1>0, Positions
  <2>. QED
    BY <2>1 DEF Shifted
<1>2. /\ Chain = {k \in 1 .. Len(strand) : strand[k].do \in {"send", "written"}}
      /\ Chain' = {k \in 1 .. Len(strand') : strand'[k].do \in {"send", "written"}}
    BY DEF Chain
<1>3. strand # <<>> /\ EndsQueue(strand[1]) => strand' # <<>> /\ EndsQueue(strand'[1])
  <2>. SUFFICES ASSUME strand # <<>>, EndsQueue(strand[1]) PROVE strand' # <<>> /\ EndsQueue(strand'[1])
    OBVIOUS
  <2>1. d = 0 /\ Len(strand) # 0
    BY <1>0, <1>1, SeqLen DEF EndsQueue
  <2>2. 1 \in 1 .. n /\ 1 + d = 1 /\ Len(strand') # 0
    BY <1>1, <2>1
  <2>3. strand'[1] = strand[1]
    BY <1>1, <2>2
  <2>. QED
    BY <1>1, <2>2, <2>3, SeqLen
<1>4. \A k \in Chain' : k \in 1 .. n /\ k + d \in Chain /\ strand'[k] = strand[k + d]
  <2>. TAKE k \in Chain'
  <2>1. k \in 1 .. n + Len(new) /\ strand'[k].do \in {"send", "written"}
    BY <1>1, <1>2
  <2>2. k \in 1 .. n
    BY <1>1, <2>1
  <2>. QED
    BY <1>1, <1>2, <2>1, <2>2
<1>5. \A i \in Begun : i \in Ids /\ transfers'[i] = transfers[i]
    BY IdsAre DEF Grown
<1>6. \A k \in Chain : strand[k].id \in Begun
  <2>. TAKE k \in Chain
  <2>1. k \in 1 .. Len(strand) /\ strand[k].do \in {"send", "written"}
    BY <1>2
  <2>2. HandlerFits(strand[k], transfers, file, sent, received)
    BY <2>1 DEF StrandFits
  <2>. QED
    BY <2>1, <2>2 DEF HandlerFits, Begun
<1>7. \A w \in writes : w.id \in Begun
    BY DEF Writing
<1>8. /\ \A j, k \in Chain : j = k
      /\ \A v, w \in writes : v = w
      /\ Chain # {} => writes = {}
      /\ \A k \in Chain : SenderFits(strand[k], ftp_data_buffer_, strand, transfers, received, fin)
      /\ \A w \in writes : WriteFits(w, ftp_data_buffer_, strand, transfers, received)
    BY DEF SendersFit
<1>9. ASSUME NEW k \in Chain'
      PROVE SenderFits(strand'[k], ftp_data_buffer_', strand', transfers', received', fin')
  <2>. DEFINE h == strand'[k]
  <2>1. h.id \in Begun /\ SenderFits(h, ftp_data_buffer_, strand, transfers, received, fin)
    BY <1>4, <1>6, <1>8
  <2>2. transfers'[h.id] = transfers[h.id] /\ (fin[h.id] = "reset" => fin'[h.id] = "reset")
    BY <1>5, <2>1
  <2>. DEFINE x == transfers[h.id].data
  <2>3. BeginsWith(ftp_data_buffer_, strand, x) => BeginsWith(ftp_data_buffer_, strand', x)
    BY <1>3, BeginsStays
  <2>4. SenderFits(h, ftp_data_buffer_, strand', transfers', received, fin')
    <3>. HIDE DEF h
    <3>. QED
        BY <2>1, <2>2, <2>3 DEF SenderFits
  <2>. QED
    BY <2>4
<1>10. ASSUME NEW w \in writes'
      PROVE WriteFits(w, ftp_data_buffer_', strand', transfers', received')
  <2>1. w.id \in Begun /\ WriteFits(w, ftp_data_buffer_, strand, transfers, received)
    BY <1>7, <1>8
  <2>2. transfers'[w.id] = transfers[w.id]
    BY <1>5, <2>1
  <2>3. BeginsWith(ftp_data_buffer_, strand, transfers[w.id].data) => BeginsWith(ftp_data_buffer_, strand', transfers[w.id].data)
    BY <1>3, BeginsStays
  <2>. QED
    BY <2>1, <2>2, <2>3 DEF WriteFits
<1>11. \A j, k \in Chain' : j = k
  <2>. TAKE j, k \in Chain'
  <2>1. j + d = k + d /\ j \in 1 .. n /\ k \in 1 .. n
    BY <1>4, <1>8
  <2>. QED
    BY <1>1, <2>1
<1>12. Chain' # {} => writes' = {}
    BY <1>4, <1>8
<1>. QED
    BY <1>8, <1>9, <1>10, <1>11, <1>12 DEF SendersFit

LEMMA Fields == \A h, i, x : Handler(h, i, x).do = h /\ Handler(h, i, x).id = i /\ Handler(h, i, x).arg = x
BY DEF Handler

(* How the strand moves when one handler is posted, or none. *)
LEMMA Moving ==
    ASSUME IsSeq(strand)
    PROVE /\ strand' = strand => Moves(0, <<>>)
          /\ \A h : strand' = Append(strand, h) => Moves(0, <<h>>)
          /\ \A q : IsSeq(q) /\ strand' = strand \o q => Moves(0, q)
          /\ \A q : IsSeq(q) /\ strand # <<>> /\ ThenPosts(q) => Moves(1, q)
<1>1. Len(strand) \in Nat /\ (strand = <<>> <=> Len(strand) = 0) /\ strand \in Seq(Elements(strand))
    BY SeqLen DEF IsSeq
<1>2. strand = strand \o <<>>
    BY <1>1, ConcatEmptySeq
<1>3. ASSUME NEW h PROVE Append(strand, h) = strand \o <<h>>
  <2>. DEFINE T == Elements(strand) \cup {h}
  <2>1. strand \in Seq(T) /\ h \in T
    BY <1>1, Wider
  <2>. HIDE DEF T
  <2>. QED
    BY <2>1, AppendIsConcat
<1>4. Rest(0) = strand /\ Rest(1) = Tail(strand)
    BY DEF Rest
<1>5. IsSeq(<<>>) /\ \A h : IsSeq(<<h>>)
    BY Few
<1>6. 0 \in {0, 1} /\ 1 \in {0, 1} /\ 0 <= Len(strand) /\ (strand # <<>> => 1 <= Len(strand))
    BY <1>1
<1>7. strand' = strand => Moves(0, <<>>)
    BY <1>2, <1>4, <1>5, <1>6 DEF Moves
<1>8. \A h : strand' = Append(strand, h) => Moves(0, <<h>>)
    BY <1>3, <1>4, <1>5, <1>6 DEF Moves
<1>9. \A q : IsSeq(q) /\ strand' = strand \o q => Moves(0, q)
    BY <1>4, <1>6 DEF Moves
<1>10. \A q : IsSeq(q) /\ strand # <<>> /\ ThenPosts(q) => Moves(1, q)
    BY <1>4, <1>6 DEF Moves, ThenPosts
<1>. QED
    BY <1>7, <1>8, <1>9, <1>10

Pairs(new) ==
    \A m \in 1 .. Len(new) :
        /\ EndsQueue(new[m]) => m # 1 /\ Queues(new[m - 1])
        /\ Queues(new[m]) => m < Len(new) /\ EndsQueue(new[m + 1])

LEMMA NoneNew == Len(<<>>) = 0 /\ Apart(<<>>) /\ NewIds(<<>>) = {} /\ Pairs(<<>>)
<1>1. Len(<<>>) = 0
    BY Few
<1>. QED
    BY <1>1 DEF Apart, NewIds, Pairs

LEMMA OneNew ==
    ASSUME NEW h
    PROVE /\ Len(<<h>>) = 1 /\ Apart(<<h>>)
          /\ NewIds(<<h>>) = IF Drives(h) THEN {h.id} ELSE {}
          /\ \A m \in 1 .. Len(<<h>>) : m = 1 /\ <<h>>[m] = h
          /\ h.do # "enqueue" => Pairs(<<h>>)
<1>. DEFINE q == <<h>>
<1>1. Len(q) = 1 /\ q[1] = h
    BY Few
<1>. HIDE DEF q
<1>2. Len(q) = 1 /\ \A m \in 1 .. Len(q) : m = 1 /\ q[m] = h
    BY <1>1
<1>3. Apart(q)
    BY <1>2 DEF Apart
<1>4. NewIds(q) = IF Drives(h) THEN {h.id} ELSE {}
    BY <1>1, <1>2 DEF NewIds
<1>5. h.do # "enqueue" => Pairs(q)
    BY <1>2 DEF Pairs, EndsQueue, Queues
<1>. QED
    BY <1>2, <1>3, <1>4, <1>5 DEF q

(* What the steps have in common that send nothing. *)
FileGrows(d) == \A i \in Ids : file'[i] = file[i] \/ (d = 1 /\ strand[1].do = "read" /\ strand[1].id = i)

LEMMA FileOfAnother ==
    ASSUME StrandFits, AtOnePlace, TransfersTyped, NEW d \in {0, 1}, FileGrows(d),
           NEW k \in 1 .. Len(strand), k > d, strand[k].do = "read"
    PROVE file'[strand[k].id] = file[strand[k].id]
<1>1. strand[k].id \in Ids
    BY IdsAre DEF StrandFits, HandlerFits, Begun
<1>2. ASSUME d = 1, strand[1].do = "read", strand[1].id = strand[k].id PROVE FALSE
  <2>1. 1 \in 1 .. Len(strand) /\ Drives(strand[1]) /\ Drives(strand[k]) /\ k # 1
    BY <1>2, SeqLen DEF Drives, EndsQueue, StrandFits
  <2>2. 1 \in Driving /\ k \in Driving
    BY <2>1 DEF Driving
  <2>. QED
    BY <1>2, <2>1, <2>2 DEF AtOnePlace
<1>. QED
    BY <1>1, <1>2 DEF FileGrows

LEMMA OrdinaryKept ==
    ASSUME Core, NEW d, NEW new, Moves(d, new), Grown, TablesTyped', FileGrows(d),
           UNCHANGED <<ftp_data_buffer_, writes, received>>,
           \A i \in Ids : sent[i] <= sent'[i] /\ (fin[i] = "reset" => fin'[i] = "reset"),
           d = 1 => strand[1].do \notin {"send", "written", "enqueue"},
           Apart(new), Pairs(new), NewIds(new) \cap (Handled \ Gone(d)) = {},
           \A m \in 1 .. Len(new) : /\ HandlerFits(new[m], transfers', file', sent', received')
                                    /\ new[m].do \notin {"send", "written"}
    PROVE /\ StrandFits' /\ QueuedInPairs' /\ SendersFit'
          /\ \A j, k \in Driving' : strand'[j].id = strand'[k].id => j = k
          /\ Handled' \subseteq (Handled \ Gone(d)) \cup NewIds(new)
          /\ Gone(d) \subseteq Handled
<1>1. /\ StrandFits /\ AtOnePlace /\ QueuedInPairs /\ SendersFit /\ TransfersTyped /\ TablesTyped
      /\ Writing \subseteq Begun
    BY DEF Core, SetsFit
<1>2. IsSeq(strand) /\ d \in {0, 1}
    BY <1>1 DEF StrandFits, Moves
<1>3. /\ \A j, k \in Driving' : strand'[j].id = strand'[k].id => j = k
      /\ Handled' \subseteq (Handled \ Gone(d)) \cup NewIds(new)
      /\ Gone(d) \subseteq Handled
    BY <1>1, <1>2, PlacesMove
<1>4. QueuedInPairs'
  <2>1. \/ ftp_data_buffer_' # <<>>
        \/ d = 0 /\ ftp_data_buffer_' = ftp_data_buffer_
        \/ d = 1 /\ ~Queues(strand[1])
    BY <1>2 DEF Queues
  <2>. QED
    BY <1>1, <1>2, <2>1, PairsMove DEF Pairs
<1>5. SendersFit'
    BY <1>1, ChainStays
<1>6. ASSUME NEW k \in 1 .. Len(strand), k > d
      PROVE HandlerFits(strand[k], transfers', file', sent', received')
  <2>. DEFINE h == strand[k]
  <2>1. HandlerFits(h, transfers, file, sent, received)
    BY <1>1 DEF StrandFits
  <2>2. h.do = "read" => file'[h.id] = file[h.id]
    BY <1>1, <1>2, <1>6, FileOfAnother
  <2>3. received'[h.id] = received[h.id] /\ \A i \in Ids : sent[i] <= sent'[i]
    OBVIOUS
  <2>. HIDE DEF h
  <2>4. HandlerFits(h, transfers', file', sent', received')
    BY <1>1, <2>1, <2>2, <2>3, StillFits
  <2>. QED
    BY <2>4 DEF h
<1>7. StrandFits'
    BY <1>1, <1>6, StrandFitsKept
<1>. QED
    BY <1>3, <1>4, <1>5, <1>7

-------------------------------------------------------------------------------
(* The handlers of the data strand. *)
LEMMA FirstFits ==
    ASSUME Core, strand # <<>>
    PROVE /\ HandlerFits(First, transfers, file, sent, received)
          /\ 1 \in 1 .. Len(strand) /\ Len(strand) \in Nat \ {0} /\ IsSeq(strand)
          /\ First.do # "close" => First.id \in Begun /\ First.id \in Ids
          /\ Drives(First) => /\ 1 \in Driving /\ First.id \in Handled /\ Gone(1) = {First.id}
                              /\ final[First.id] = <<>>
          /\ ~Drives(First) => Gone(1) = {}
<1>1. IsSeq(strand) /\ AtOnePlace /\ TransfersTyped
    BY DEF Core, StrandFits
<1>2. Len(strand) \in Nat \ {0} /\ 1 \in 1 .. Len(strand)
    BY <1>1, SeqLen
<1>3. HandlerFits(First, transfers, file, sent, received)
    BY <1>2 DEF Core, StrandFits, First
<1>4. First.do # "close" => First.id \in Begun /\ First.id \in Ids
    BY <1>1, <1>3, IdsAre DEF HandlerFits, Begun
<1>5. Drives(First) => 1 \in Driving /\ First.id \in Handled /\ Gone(1) = {First.id}
    BY <1>2 DEF Driving, Handled, Gone, First
<1>6. Drives(First) => final[First.id] = <<>>
    BY <1>1, <1>5 DEF AtOnePlace
<1>7. ~Drives(First) => Gone(1) = {}
    BY DEF Gone, First
<1>. QED
    BY <1>1, <1>2, <1>3, <1>4, <1>5, <1>6, <1>7

LEMMA Places ==
    ASSUME Core
    PROVE /\ Elements(accepts) \cup Handled \cup reads \cup Writing \subseteq Begun
          /\ Begun \subseteq Ids
          /\ Elements(accepts) \cap (Handled \cup reads \cup Writing) = {}
          /\ Handled \cap (reads \cup Writing) = {}
          /\ reads \cap Writing = {}
          /\ \A i \in Elements(accepts) \cup Handled \cup reads \cup Writing : final[i] = <<>>
          /\ \A j, k \in 1 .. Len(accepts) : accepts[j] = accepts[k] => j = k
          /\ IsSeq(accepts)
<1>1. Elements(accepts) \subseteq Begun /\ IsSeq(accepts)
    BY SeqIs DEF Core, SetsFit
<1>2. \A k \in Driving : strand[k].id \in Begun
    BY DEF Driving, Core, StrandFits, HandlerFits, Drives, Begun
<1>3. reads \subseteq Begun /\ Writing \subseteq Begun /\ Begun \subseteq Ids
    BY IdsAre DEF Core, SetsFit
<1>. QED
    BY <1>1, <1>2, <1>3 DEF Core, AtOnePlace, Handled

(* One transfer at most goes from a place to another. *)
OneMoves(i) ==
    /\ \A j, k \in 1 .. Len(accepts') : accepts'[j] = accepts'[k] => j = k
    /\ \A j, k \in Driving' : strand'[j].id = strand'[k].id => j = k
    /\ Elements(accepts') \subseteq Elements(accepts) \cup {i}
    /\ Handled' \subseteq Handled \cup {i}
    /\ reads' \subseteq reads \cup {i}
    /\ Writing' \subseteq Writing \cup {i}
    /\ i \in Elements(accepts') => i \notin Handled' \cup reads' \cup Writing'
    /\ i \in Handled' => i \notin reads' \cup Writing'
    /\ i \in reads' => i \notin Writing'
    /\ \A j \in Ids : j # i => final'[j] = final[j]
    /\ i \in Elements(accepts') \cup Handled' \cup reads' \cup Writing' => final'[i] = <<>>

LEMMA PlacesKept ==
    ASSUME Core, NEW i, OneMoves(i)
    PROVE AtOnePlace'
<1>1. /\ Elements(accepts) \cap (Handled \cup reads \cup Writing) = {}
      /\ Handled \cap (reads \cup Writing) = {}
      /\ reads \cap Writing = {}
      /\ \A j \in Elements(accepts) \cup Handled \cup reads \cup Writing : j \in Ids /\ final[j] = <<>>
    BY Places
<1>2. /\ Elements(accepts') \cap (Handled' \cup reads' \cup Writing') = {}
      /\ Handled' \cap (reads' \cup Writing') = {}
      /\ reads' \cap Writing' = {}
    BY <1>1 DEF OneMoves
<1>3. \A j \in Elements(accepts') \cup Handled' \cup reads' \cup Writing' : final'[j] = <<>>
    BY <1>1 DEF OneMoves
<1>4. /\ \A j, k \in 1 .. Len(accepts') : accepts'[j] = accepts'[k] => j = k
      /\ \A j, k \in Driving' : strand'[j].id = strand'[k].id => j = k
    BY DEF OneMoves
<1>. QED
    BY <1>2, <1>3, <1>4 DEF AtOnePlace

LEMMA FinalGiven ==
    ASSUME Core, NEW i \in Begun, final[i] = <<>>, NEW c \in {226, 426, 450}, sendFinal(i, c),
           UNCHANGED <<transfers, received, fin>>,
           transfers[i].cmd # "Stor" /\ c = 226 => Has(i)
    PROVE /\ final' \in [Ids -> Seq({226, 426, 450})]
          /\ OneFinalReply' /\ DownloadsArrive'
          /\ \A j \in Ids : j # i => final'[j] = final[j]
<1>1. /\ i \in Ids /\ final \in [Ids -> Seq({226, 426, 450})] /\ OneFinalReply /\ DownloadsArrive
      /\ Begun \subseteq Ids
    BY IdsAre DEF Core, TablesTyped
<1>2. Append(final[i], c) = <<c>> /\ <<c>> \in Seq({226, 426, 450}) /\ Len(<<c>>) = 1 /\ <<c>>[1] = c
    OBVIOUS
<1>3. /\ final' = [final EXCEPT ![i] = <<c>>]
      /\ final'[i] = <<c>> /\ \A j \in Ids : j # i => final'[j] = final[j]
    BY <1>1, <1>2 DEF sendFinal
<1>4. final' \in [Ids -> Seq({226, 426, 450})]
    BY <1>1, <1>2, <1>3
<1>5. OneFinalReply'
    BY <1>1, <1>2, <1>3 DEF OneFinalReply
<1>6. ASSUME NEW j \in 1 .. Len(transfers), transfers[j].cmd # "Stor"
      PROVE /\ received'[j] \in {<<>>, <<transfers[j].data>>}
            /\ final'[j] = <<226>> /\ fin[j] # "reset" => received'[j] # <<>>
  <2>1. j \in Ids /\ received' = received
    BY <1>1 DEF Begun
  <2>2. /\ received[j] \in {<<>>, <<transfers[j].data>>}
        /\ final[j] = <<226>> /\ fin[j] # "reset" => received[j] # <<>>
    BY <1>1, <1>6 DEF DownloadsArrive
  <2>3. CASE j = i
    <3>1. final'[j] = <<226>> => c = 226
        BY <1>2, <1>3, <2>3
    <3>. QED
        BY <1>6, <2>1, <2>2, <2>3, <3>1 DEF Has
  <2>4. CASE j # i
    BY <1>3, <2>1, <2>2, <2>4
  <2>. QED
    BY <2>3, <2>4
<1>7. DownloadsArrive'
    BY <1>6 DEF DownloadsArrive
<1>. QED
    BY <1>3, <1>4, <1>5, <1>7

LEMMA ClosedFits ==
    ASSUME Core, strand # <<>>, closeFtpDataSocket
    PROVE closed' \subseteq Begun
<1>1. /\ closed \subseteq Begun /\ reads \subseteq Begun /\ Writing \subseteq Begun
      /\ ftp_data_socket_ \in 0 .. Len(transfers) /\ 0 \notin Begun /\ Len(transfers) \in Nat
    BY IdsAre DEF Core, SetsFit
<1>2. ASSUME HeldBy(Tail(strand), 0) PROVE FALSE
  <2>1. IsSeq(strand)
    BY DEF Core, StrandFits
  <2>2. /\ Len(Tail(strand)) = Len(strand) - 1 /\ Len(strand) \in Nat \ {0}
        /\ \A k \in 1 .. Len(strand) - 1 : Tail(strand)[k] = strand[k + 1]
    BY <2>1, Tailed
  <2>3. 0 \notin reads /\ ~\E w \in writes : w.id = 0
    BY <1>1 DEF Writing
  <2>4. PICK k \in 1 .. Len(strand) - 1 : strand[k + 1].id = 0 /\ strand[k + 1].do \notin {"aborted", "save", "close"}
    BY <1>2, <2>2, <2>3 DEF HeldBy
  <2>5. k + 1 \in 1 .. Len(strand)
    BY <2>2
  <2>6. HandlerFits(strand[k + 1], transfers, file, sent, received)
    BY <2>5 DEF Core, StrandFits
  <2>. QED
    BY <1>1, <2>4, <2>6 DEF HandlerFits, Begun
<1>3. CASE HeldBy(Tail(strand), ftp_data_socket_)
  <2>1. ftp_data_socket_ # 0
    BY <1>2, <1>3
  <2>2. ftp_data_socket_ \in Begun
    BY <1>1, <2>1 DEF Begun
  <2>. QED
    BY <1>1, <2>2 DEF closeFtpDataSocket
<1>4. CASE ~HeldBy(Tail(strand), ftp_data_socket_)
    BY <1>1, <1>4 DEF closeFtpDataSocket
<1>. QED
    BY <1>3, <1>4

LEMMA SameTables ==
    ASSUME Core, UNCHANGED <<transfers, sent, fin>>
    PROVE /\ TransfersTyped' /\ Grown
          /\ \A i \in Ids : sent[i] <= sent'[i] /\ (fin[i] = "reset" => fin'[i] = "reset")
<1>1. TransfersTyped /\ TablesTyped /\ Len(transfers) \in Nat
    BY IdsAre DEF Core
<1>2. TransfersTyped'
    BY <1>1 DEF TransfersTyped, IsSeq, Elements
<1>. QED
    BY <1>1, <1>2, IdsAre DEF TablesTyped, Grown

LEMMA AbortedKept ==
    ASSUME Core, Aborted
    PROVE Core'
<1>. DEFINE i == First.id
<1>1. /\ strand # <<>> /\ First.do = "aborted" /\ sendFinal(i, 426) /\ ThenPosts(<<>>)
      /\ UNCHANGED <<ftp_data_buffer_, ftp_data_socket_, reads, writes, closed, file>>
      /\ UNCHANGED <<sent, fin, received, accepts, transfers>>
    BY DEF Aborted, Runs, KeepControl, client, accepting
<1>2. Drives(First)
    BY <1>1 DEF Drives, EndsQueue
<1>3. /\ i \in Begun /\ i \in Ids /\ i \in Handled /\ Gone(1) = {i} /\ final[i] = <<>> /\ IsSeq(strand)
    BY <1>1, <1>2, FirstFits
<1>4. /\ TransfersTyped /\ TablesTyped /\ FilesFit /\ SetsFit /\ AtOnePlace /\ OneFinalReply
    BY DEF Core
<1>5. /\ final' \in [Ids -> Seq({226, 426, 450})]
      /\ OneFinalReply' /\ DownloadsArrive'
      /\ \A j \in Ids : j # i => final'[j] = final[j]
  <2>1. /\ UNCHANGED <<transfers, received, fin>> /\ sendFinal(i, 426) /\ 426 \in {226, 426, 450}
        /\ i \in Begun /\ final[i] = <<>> /\ ~(426 = 226)
    BY <1>1, <1>3
  <2>. QED
    BY <2>1, FinalGiven
<1>. HIDE DEF i
<1>6. TransfersTyped' /\ TablesTyped' /\ FilesFit' /\ Grown
  <2>1. TransfersTyped' /\ Grown
    BY <1>1, SameTables
  <2>2. TablesTyped'
    BY <1>1, <1>4, <1>5 DEF TablesTyped
  <2>3. FilesFit'
    BY <1>1, <1>4 DEF FilesFit
  <2>. QED
    BY <2>1, <2>2, <2>3
<1>7. /\ StrandFits' /\ QueuedInPairs' /\ SendersFit'
      /\ \A j, k \in Driving' : strand'[j].id = strand'[k].id => j = k
      /\ Handled' \subseteq (Handled \ Gone(1)) \cup {}
  <2>1. Moves(1, <<>>)
    BY <1>1, <1>3, Moving, Few
  <2>2. /\ FileGrows(1) /\ UNCHANGED <<ftp_data_buffer_, writes, received>>
        /\ strand[1].do \notin {"send", "written", "enqueue"}
    BY <1>1 DEF FileGrows, First
  <2>3. \A j \in Ids : sent[j] <= sent'[j] /\ (fin[j] = "reset" => fin'[j] = "reset")
    BY <1>1, <1>4, IdsAre DEF TablesTyped
  <2>4. \A m \in 1 .. Len(<<>>) : HandlerFits(<<>>[m], transfers', file', sent', received') /\ <<>>[m].do \notin {"send", "written"}
    BY NoneNew
  <2>. QED
    BY <1>6, <2>1, <2>2, <2>3, <2>4, NoneNew, OrdinaryKept
<1>8. AtOnePlace'
  <2>1. accepts' = accepts /\ reads' = reads /\ Writing' = Writing
    BY <1>1 DEF Writing
  <2>2. i \notin Elements(accepts) \cup reads \cup Writing
        /\ \A j, k \in 1 .. Len(accepts) : accepts[j] = accepts[k] => j = k
    BY <1>3, Places
  <2>3. Handled' \subseteq Handled \ {i}
    BY <1>3, <1>7
  <2>4. OneMoves(i)
    BY <1>5, <1>7, <2>1, <2>2, <2>3 DEF OneMoves
  <2>. QED
    BY <2>4, PlacesKept
<1>9. SetsFit'
  <2>1. \A j \in Ids : j > Len(transfers) => j # i
    BY <1>3, IdsAre, <1>4 DEF Begun
  <2>2. Begun' = Begun /\ Writing' = Writing
    BY <1>1 DEF Begun, Writing
  <2>3. \A j \in Ids : j > Len(transfers') => received'[j] = <<>> /\ final'[j] = <<>>
    BY <1>1, <1>4, <1>5, <2>1 DEF SetsFit
  <2>. QED
    BY <1>1, <1>4, <2>2, <2>3 DEF SetsFit, Elements, IsSeq
<1>. QED
    BY <1>5, <1>6, <1>7, <1>8, <1>9 DEF Core

LEMMA SetsKept ==
    ASSUME Core, UNCHANGED <<transfers, received>>, IsSeq(ftp_data_buffer_'),
           ftp_data_socket_' \in {ftp_data_socket_} \cup Begun,
           accepts' \in Seq(Begun), Elements(accepts') \subseteq Elements(accepts),
           reads' \subseteq Begun, closed' \subseteq Begun, Writing' \subseteq Begun,
           \A i \in reads' : transfers[i].cmd = "Stor" /\ received[i] = <<>>,
           \A i \in Writing' : transfers[i].cmd # "Stor",
           \A j \in Ids : j \notin Begun => final'[j] = final[j]
    PROVE SetsFit'
<1>1. SetsFit /\ Len(transfers) \in Nat /\ Begun' = Begun /\ Begun = 1 .. Len(transfers)
    BY IdsAre DEF Core, Begun
<1>2. ftp_data_socket_' \in 0 .. Len(transfers')
    BY <1>1 DEF SetsFit
<1>3. \A j \in Ids : j > Len(transfers') => received'[j] = <<>> /\ final'[j] = <<>>
    BY <1>1 DEF SetsFit
<1>4. \A i \in Elements(accepts') : received'[i] = <<>>
    BY <1>1 DEF SetsFit
<1>. QED
    BY <1>1, <1>2, <1>3, <1>4 DEF SetsFit, IsSeq, Elements

LEMMA SameAccepts ==
    ASSUME Core, accepts' = accepts
    PROVE /\ accepts' \in Seq(Begun) /\ Elements(accepts') \subseteq Elements(accepts)
          /\ \A j, k \in 1 .. Len(accepts') : accepts'[j] = accepts'[k] => j = k
<1>1. accepts \in Seq(Begun) /\ \A j, k \in 1 .. Len(accepts) : accepts[j] = accepts[k] => j = k
    BY Places DEF Core, SetsFit
<1>. QED
    BY <1>1

LEMMA SameFinal ==
    ASSUME Core, UNCHANGED <<transfers, received, fin, final>>
    PROVE OneFinalReply' /\ DownloadsArrive' /\ final' \in [Ids -> Seq({226, 426, 450})]
<1>1. OneFinalReply /\ DownloadsArrive /\ TablesTyped
    BY DEF Core
<1>2. OneFinalReply'
    BY <1>1 DEF OneFinalReply
<1>3. DownloadsArrive'
    BY <1>1 DEF DownloadsArrive
<1>4. final' \in [Ids -> Seq({226, 426, 450})]
    BY <1>1 DEF TablesTyped
<1>. QED
    BY <1>2, <1>3, <1>4

LEMMA CloseKept ==
    ASSUME Core, Close
    PROVE Core'
<1>1. /\ strand # <<>> /\ First.do = "close" /\ closeFtpDataSocket /\ ThenPosts(<<>>)
      /\ UNCHANGED <<ftp_data_buffer_, ftp_data_socket_, reads, writes, file, final>>
      /\ UNCHANGED <<sent, fin, received, accepts, transfers>>
    BY DEF Close, Runs, KeepControl, client, accepting
<1>2. ~Drives(First)
    BY <1>1 DEF Drives
<1>3. Gone(1) = {} /\ IsSeq(strand) /\ closed' \subseteq Begun
    BY <1>1, <1>2, FirstFits, ClosedFits
<1>4. TransfersTyped /\ TablesTyped /\ FilesFit /\ SetsFit
    BY DEF Core
<1>5. /\ TransfersTyped' /\ Grown /\ TablesTyped' /\ FilesFit'
      /\ \A j \in Ids : sent[j] <= sent'[j] /\ (fin[j] = "reset" => fin'[j] = "reset")
    BY <1>1, <1>4, SameTables DEF TablesTyped, FilesFit
<1>6. OneFinalReply' /\ DownloadsArrive'
    BY <1>1, SameFinal
<1>7. /\ StrandFits' /\ QueuedInPairs' /\ SendersFit'
      /\ \A j, k \in Driving' : strand'[j].id = strand'[k].id => j = k
      /\ Handled' \subseteq (Handled \ Gone(1)) \cup {}
  <2>1. Moves(1, <<>>)
    BY <1>1, <1>3, Moving, Few
  <2>2. /\ FileGrows(1) /\ UNCHANGED <<ftp_data_buffer_, writes, received>>
        /\ strand[1].do \notin {"send", "written", "enqueue"}
    BY <1>1 DEF FileGrows, First
  <2>3. \A m \in 1 .. Len(<<>>) : HandlerFits(<<>>[m], transfers', file', sent', received') /\ <<>>[m].do \notin {"send", "written"}
    BY NoneNew
  <2>. QED
    BY <1>5, <2>1, <2>2, <2>3, NoneNew, OrdinaryKept
<1>7a. accepts' = accepts /\ reads' = reads /\ Writing' = Writing /\ final' = final
    BY <1>1 DEF Writing
<1>8. AtOnePlace'
  <2>1. 0 \notin Elements(accepts) \cup Handled \cup reads \cup Writing
    BY IdsAre, <1>4, Places
  <2>2. OneMoves(0)
    BY <1>7, <1>7a, <2>1, SameAccepts DEF OneMoves
  <2>. QED
    BY <2>2, PlacesKept
<1>9. SetsFit'
  <2>1. IsSeq(ftp_data_buffer_') /\ reads' \subseteq Begun /\ Writing' \subseteq Begun
        /\ (\A i \in reads' : transfers[i].cmd = "Stor" /\ received[i] = <<>>) /\ \A i \in Writing' : transfers[i].cmd # "Stor"
    BY <1>1, <1>4, <1>7a DEF SetsFit, IsSeq, Elements
  <2>. QED
    BY <1>1, <1>3, <1>7a, <2>1, SameAccepts, SetsKept
<1>. QED
    BY <1>5, <1>6, <1>7, <1>8, <1>9 DEF Core

LEMMA SaveKept ==
    ASSUME Core, Save
    PROVE Core'
<1>. DEFINE i == First.id
            c == IF Stored(transfers[i].path) THEN 450 ELSE 226
<1>1. /\ strand # <<>> /\ First.do = "save" /\ sendFinal(i, c)
      /\ closeFtpDataSocket /\ ThenPosts(<<>>)
      /\ UNCHANGED <<ftp_data_buffer_, ftp_data_socket_, reads, writes, file>>
      /\ UNCHANGED <<sent, fin, received, accepts, transfers>>
    BY DEF Save, Runs, KeepControl, client, accepting
<1>2. Drives(First) /\ First.do \in Uploading
    BY <1>1 DEF Drives, EndsQueue, Uploading
<1>3. /\ i \in Begun /\ i \in Ids /\ i \in Handled /\ Gone(1) = {i} /\ final[i] = <<>> /\ IsSeq(strand)
      /\ closed' \subseteq Begun /\ transfers[i].cmd = "Stor"
    BY <1>1, <1>2, FirstFits, ClosedFits DEF HandlerFits
<1>4. TransfersTyped /\ TablesTyped /\ FilesFit /\ SetsFit
    BY DEF Core
<1>5. /\ final' \in [Ids -> Seq({226, 426, 450})]
      /\ OneFinalReply' /\ DownloadsArrive'
      /\ \A j \in Ids : j # i => final'[j] = final[j]
  <2>1. c \in {226, 426, 450}
    OBVIOUS
  <2>. HIDE DEF c, i
  <2>2. /\ UNCHANGED <<transfers, received, fin>> /\ sendFinal(i, c)
        /\ i \in Begun /\ final[i] = <<>> /\ transfers[i].cmd = "Stor"
    BY <1>1, <1>3
  <2>. QED
    BY <2>1, <2>2, FinalGiven
<1>. HIDE DEF i, c
<1>6. /\ TransfersTyped' /\ Grown /\ TablesTyped' /\ FilesFit'
      /\ \A j \in Ids : sent[j] <= sent'[j] /\ (fin[j] = "reset" => fin'[j] = "reset")
    BY <1>1, <1>4, <1>5, SameTables DEF TablesTyped, FilesFit
<1>7. /\ StrandFits' /\ QueuedInPairs' /\ SendersFit'
      /\ \A j, k \in Driving' : strand'[j].id = strand'[k].id => j = k
      /\ Handled' \subseteq (Handled \ Gone(1)) \cup {}
  <2>1. Moves(1, <<>>)
    BY <1>1, <1>3, Moving, Few
  <2>2. /\ FileGrows(1) /\ UNCHANGED <<ftp_data_buffer_, writes, received>>
        /\ strand[1].do \notin {"send", "written", "enqueue"}
    BY <1>1 DEF FileGrows, First
  <2>3. \A m \in 1 .. Len(<<>>) : HandlerFits(<<>>[m], transfers', file', sent', received') /\ <<>>[m].do \notin {"send", "written"}
    BY NoneNew
  <2>. QED
    BY <1>6, <2>1, <2>2, <2>3, NoneNew, OrdinaryKept
<1>7a. accepts' = accepts /\ reads' = reads /\ Writing' = Writing
    BY <1>1 DEF Writing
<1>8. AtOnePlace'
  <2>1. i \notin Elements(accepts) \cup reads \cup Writing
    BY <1>3, Places
  <2>2. Handled' \subseteq Handled \ {i}
    BY <1>3, <1>7
  <2>3. OneMoves(i)
    BY <1>5, <1>7, <1>7a, <2>1, <2>2, SameAccepts DEF OneMoves
  <2>. QED
    BY <2>3, PlacesKept
<1>9. SetsFit'
  <2>1. IsSeq(ftp_data_buffer_') /\ reads' \subseteq Begun /\ Writing' \subseteq Begun
        /\ (\A j \in reads' : transfers[j].cmd = "Stor" /\ received[j] = <<>>) /\ \A j \in Writing' : transfers[j].cmd # "Stor"
    BY <1>1, <1>4, <1>7a DEF SetsFit, IsSeq, Elements
  <2>2. \A j \in Ids : j \notin Begun => final'[j] = final[j]
    BY <1>3, <1>5
  <2>. QED
    BY <1>1, <1>3, <2>1, <2>2, SameAccepts, SetsKept
<1>. QED
    BY <1>5, <1>6, <1>7, <1>8, <1>9 DEF Core

LEMMA ReadKept ==
    ASSUME Core, Read
    PROVE Core'
<1>. DEFINE i == First.id
            new == IF First.arg.ok THEN <<>> ELSE <<Handler("save", i, Null)>>
<1>1. /\ strand # <<>> /\ First.do = "read" /\ ThenPosts(new)
      /\ file' = [file EXCEPT ![i] = @ \o First.arg.bytes]
      /\ reads' = IF First.arg.ok THEN reads \cup {i} ELSE reads
      /\ UNCHANGED <<ftp_data_buffer_, ftp_data_socket_, writes, closed, final>>
      /\ UNCHANGED <<sent, fin, received, accepts, transfers>>
    BY DEF Read, Runs, KeepControl, client, accepting
<1>2. Drives(First) /\ First.do \in Uploading
    BY <1>1 DEF Drives, EndsQueue, Uploading
<1>3. /\ i \in Begun /\ i \in Ids /\ i \in Handled /\ Gone(1) = {i} /\ final[i] = <<>> /\ IsSeq(strand)
      /\ transfers[i].cmd = "Stor" /\ received[i] = <<>>
      /\ First.arg.bytes \in Seq(Ids \X Nat) /\ Prefixed(file[i] \o First.arg.bytes, i, sent[i])
    BY <1>1, <1>2, FirstFits DEF HandlerFits
<1>4. TransfersTyped /\ TablesTyped /\ FilesFit /\ SetsFit
    BY DEF Core
<1>. DEFINE all == file[i] \o First.arg.bytes
<1>5. /\ file' = [file EXCEPT ![i] = all] /\ all \in Seq(Ids \X Nat) /\ Prefixed(all, i, sent[i])
      /\ file'[i] = all /\ \A j \in Ids : j # i => file'[j] = file[j]
  <2>1. file \in [Ids -> Seq(Ids \X Nat)] /\ i \in Ids
    BY <1>3, <1>4 DEF TablesTyped
  <2>2. all \in Seq(Ids \X Nat) /\ Prefixed(all, i, sent[i]) /\ file' = [file EXCEPT ![i] = all]
    BY <1>1, <1>3, <2>1, ConcatProperties
  <2>. HIDE DEF all, i
  <2>. QED
    BY <2>1, <2>2
<1>. HIDE DEF all
<1>6. /\ TransfersTyped' /\ Grown /\ TablesTyped' /\ FilesFit'
      /\ \A j \in Ids : sent[j] <= sent'[j] /\ (fin[j] = "reset" => fin'[j] = "reset")
  <2>1. TransfersTyped' /\ Grown
        /\ \A j \in Ids : sent[j] <= sent'[j] /\ (fin[j] = "reset" => fin'[j] = "reset")
    BY <1>1, SameTables
  <2>2. TablesTyped'
    <3>1. file' \in [Ids -> Seq(Ids \X Nat)]
        BY <1>4, <1>5 DEF TablesTyped
    <3>. QED
        BY <1>1, <1>4, <3>1 DEF TablesTyped
  <2>3. FilesFit'
    BY <1>1, <1>4, <1>5 DEF FilesFit
  <2>. QED
    BY <2>1, <2>2, <2>3
<1>7. OneFinalReply' /\ DownloadsArrive'
    BY <1>1, SameFinal
<1>8. /\ IsSeq(new) /\ Apart(new) /\ Pairs(new)
      /\ NewIds(new) = IF First.arg.ok THEN {} ELSE {i}
      /\ \A m \in 1 .. Len(new) : /\ HandlerFits(new[m], transfers', file', sent', received')
                                  /\ new[m].do \notin {"send", "written"}
  <2>1. CASE First.arg.ok
    BY <2>1, NoneNew, Few
  <2>2. CASE ~First.arg.ok
    <3>. DEFINE h == Handler("save", i, Null)
    <3>1. h.do = "save" /\ h.id = i /\ Drives(h)
        BY Fields DEF Drives, EndsQueue
    <3>2. HandlerFits(h, transfers', file', sent', received')
        BY <1>1, <1>3, <3>1 DEF HandlerFits, Kinds, Uploading, Downloading, Begun
    <3>3. new = <<h>>
        BY <2>2
    <3>. HIDE DEF h, new
    <3>4. IsSeq(<<h>>)
        BY Few
    <3>. QED
        BY <2>2, <3>1, <3>2, <3>3, <3>4, OneNew
  <2>. QED
    BY <2>1, <2>2
<1>. HIDE DEF i, new
<1>9. /\ StrandFits' /\ QueuedInPairs' /\ SendersFit'
      /\ \A j, k \in Driving' : strand'[j].id = strand'[k].id => j = k
      /\ Handled' \subseteq (Handled \ Gone(1)) \cup NewIds(new)
  <2>1. Moves(1, new)
    BY <1>1, <1>3, <1>8, Moving
  <2>2. /\ FileGrows(1) /\ UNCHANGED <<ftp_data_buffer_, writes, received>>
        /\ strand[1].do \notin {"send", "written", "enqueue"}
    BY <1>1, <1>5 DEF FileGrows, First, i
  <2>3. NewIds(new) \cap (Handled \ Gone(1)) = {}
    BY <1>3, <1>8
  <2>. QED
    BY <1>6, <1>8, <2>1, <2>2, <2>3, OrdinaryKept
<1>10. accepts' = accepts /\ Writing' = Writing /\ final' = final
    BY <1>1 DEF Writing
<1>11. AtOnePlace'
  <2>1. i \notin Elements(accepts) \cup reads \cup Writing
    BY <1>3, Places
  <2>2. Handled' \subseteq (Handled \ {i}) \cup IF First.arg.ok THEN {} ELSE {i}
    BY <1>3, <1>8, <1>9
  <2>3. i \in reads' => i \notin Handled'
    BY <1>1, <2>1, <2>2
  <2>4. OneMoves(i)
    BY <1>1, <1>3, <1>9, <1>10, <2>1, <2>2, <2>3, SameAccepts DEF OneMoves
  <2>. QED
    BY <2>4, PlacesKept
<1>12. SetsFit'
  <2>1. IsSeq(ftp_data_buffer_') /\ reads' \subseteq Begun /\ Writing' \subseteq Begun /\ closed' \subseteq Begun
        /\ (\A j \in reads' : transfers[j].cmd = "Stor" /\ received[j] = <<>>) /\ \A j \in Writing' : transfers[j].cmd # "Stor"
    BY <1>1, <1>3, <1>4, <1>10 DEF SetsFit, IsSeq, Elements
  <2>. QED
    BY <1>1, <1>10, <2>1, SameAccepts, SetsKept
<1>. QED
    BY <1>6, <1>7, <1>9, <1>11, <1>12 DEF Core

LEMMA AcceptedKept ==
    ASSUME Core, Accepted
    PROVE Core'
<1>. DEFINE i == First.id
            x == <<transfers[i].data>>
            d == Handler("enqueue", i, x)
            e == Handler("enqueue", i, Null)
            up == transfers[i].cmd = "Stor"
            new == IF up THEN <<>> ELSE <<d, e>>
<1>1. /\ strand # <<>> /\ First.do = "accepted" /\ ThenPosts(new)
      /\ reads' = IF up THEN reads \cup {i} ELSE reads
      /\ ftp_data_socket_' = i
      /\ UNCHANGED <<ftp_data_buffer_, writes, closed, file, final>>
      /\ UNCHANGED <<sent, fin, received, accepts, transfers>>
    BY DEF Accepted, Runs, KeepControl, client, accepting
<1>2. Drives(First)
    BY <1>1 DEF Drives, EndsQueue
<1>3. /\ i \in Begun /\ i \in Ids /\ i \in Handled /\ Gone(1) = {i} /\ final[i] = <<>> /\ IsSeq(strand)
      /\ received[i] = <<>>
    BY <1>1, <1>2, FirstFits DEF HandlerFits
<1>4. TransfersTyped /\ TablesTyped /\ FilesFit /\ SetsFit
    BY DEF Core
<1>5. /\ TransfersTyped' /\ Grown /\ TablesTyped' /\ FilesFit'
      /\ \A j \in Ids : sent[j] <= sent'[j] /\ (fin[j] = "reset" => fin'[j] = "reset")
    BY <1>1, <1>4, SameTables DEF TablesTyped, FilesFit
<1>6. OneFinalReply' /\ DownloadsArrive'
    BY <1>1, SameFinal
<1>7. /\ IsSeq(new) /\ Apart(new) /\ Pairs(new)
      /\ NewIds(new) = IF up THEN {} ELSE {i}
      /\ \A m \in 1 .. Len(new) : /\ HandlerFits(new[m], transfers', file', sent', received')
                                  /\ new[m].do \notin {"send", "written"}
  <2>1. CASE up
    BY <2>1, NoneNew, Few
  <2>2. CASE ~up
    <3>1. /\ d.do = "enqueue" /\ d.id = i /\ d.arg = x /\ x # Null
          /\ e.do = "enqueue" /\ e.id = i /\ e.arg = Null
        BY Fields, Few DEF Null
    <3>. HIDE DEF d, e
    <3>2. /\ Drives(d) /\ ~Drives(e) /\ Queues(d) /\ EndsQueue(e) /\ ~EndsQueue(d) /\ ~Queues(e)
        BY <3>1 DEF Drives, EndsQueue, Queues
    <3>3. HandlerFits(d, transfers', file', sent', received') /\ HandlerFits(e, transfers', file', sent', received')
        BY <1>1, <1>3, <2>2, <3>1 DEF HandlerFits, Kinds, Uploading, Downloading, Begun
    <3>4. IsSeq(new) /\ Len(new) = 2 /\ new[1] = d /\ new[2] = e
        BY <2>2, Few
    <3>. HIDE DEF new, i, x
    <3>5. Apart(new) /\ NewIds(new) = {i}
      <4>1. \A m \in 1 .. Len(new) : Drives(new[m]) => m = 1 /\ new[m].id = i
        BY <3>1, <3>2, <3>4
      <4>2. 1 \in 1 .. Len(new) /\ Drives(new[1]) /\ new[1].id = i
        BY <3>1, <3>2, <3>4
      <4>. QED
        BY <4>1, <4>2 DEF Apart, NewIds
    <3>6. Pairs(new)
        BY <3>2, <3>4 DEF Pairs
    <3>7. \A m \in 1 .. Len(new) : new[m] \in {d, e}
        BY <3>4
    <3>. QED
        BY <2>2, <3>1, <3>3, <3>4, <3>5, <3>6, <3>7
  <2>. QED
    BY <2>1, <2>2
<1>. HIDE DEF i, new, up
<1>8. /\ StrandFits' /\ QueuedInPairs' /\ SendersFit'
      /\ \A j, k \in Driving' : strand'[j].id = strand'[k].id => j = k
      /\ Handled' \subseteq (Handled \ Gone(1)) \cup NewIds(new)
  <2>1. Moves(1, new)
    BY <1>1, <1>3, <1>7, Moving
  <2>2. /\ FileGrows(1) /\ UNCHANGED <<ftp_data_buffer_, writes, received>>
        /\ strand[1].do \notin {"send", "written", "enqueue"}
    BY <1>1 DEF FileGrows, First
  <2>3. NewIds(new) \cap (Handled \ Gone(1)) = {}
    BY <1>3, <1>7
  <2>. QED
    BY <1>5, <1>7, <2>1, <2>2, <2>3, OrdinaryKept
<1>9. accepts' = accepts /\ Writing' = Writing /\ final' = final
    BY <1>1 DEF Writing
<1>10. AtOnePlace'
  <2>1. i \notin Elements(accepts) \cup reads \cup Writing
    BY <1>3, Places
  <2>2. Handled' \subseteq (Handled \ {i}) \cup IF up THEN {} ELSE {i}
    BY <1>3, <1>7, <1>8
  <2>3. i \in reads' => i \notin Handled'
    BY <1>1, <2>1, <2>2
  <2>4. OneMoves(i)
    BY <1>1, <1>3, <1>8, <1>9, <2>1, <2>2, <2>3, SameAccepts DEF OneMoves
  <2>. QED
    BY <2>4, PlacesKept
<1>11. SetsFit'
  <2>1. IsSeq(ftp_data_buffer_') /\ reads' \subseteq Begun /\ Writing' \subseteq Begun /\ closed' \subseteq Begun
        /\ (\A j \in reads' : transfers[j].cmd = "Stor" /\ received[j] = <<>>) /\ \A j \in Writing' : transfers[j].cmd # "Stor"
    BY <1>1, <1>3, <1>4, <1>9 DEF SetsFit, IsSeq, Elements, up
  <2>. QED
    BY <1>1, <1>3, <1>9, <2>1, SameAccepts, SetsKept
<1>. QED
    BY <1>5, <1>6, <1>8, <1>10, <1>11 DEF Core

-------------------------------------------------------------------------------
(* Steps that leave the data connections where they are. *)
LEMMA DriftKept ==
    ASSUME Core,
           UNCHANGED <<strand, accepts, reads, writes, ftp_data_buffer_, ftp_data_socket_, closed>>,
           UNCHANGED <<file, final, received, transfers>>,
           fin' \in [Ids -> {"open", "eof", "reset"}], sent' \in [Ids -> 0 .. MaxUpload],
           \A i \in Ids : sent[i] <= sent'[i] /\ (fin[i] = "reset" => fin'[i] = "reset")
    PROVE Core'
<1>1. /\ TransfersTyped /\ TablesTyped /\ FilesFit /\ StrandFits /\ SetsFit /\ AtOnePlace
      /\ OneFinalReply /\ DownloadsArrive /\ IsSeq(strand)
    BY DEF Core, StrandFits
<1>2. TransfersTyped' /\ TablesTyped' /\ Grown
  <2>1. TransfersTyped'
    BY <1>1 DEF TransfersTyped, IsSeq, Elements
  <2>2. Len(transfers) \in Nat
    BY <1>1, IdsAre
  <2>. QED
    BY <1>1, <2>1, <2>2 DEF TablesTyped, Grown
<1>3. FilesFit'
  <2>. SUFFICES ASSUME NEW j \in Ids PROVE Prefixed(file'[j], j, sent'[j])
    BY DEF FilesFit
  <2>1. file[j] \in Seq(Ids \X Nat) /\ sent[j] \in Nat /\ sent'[j] \in Nat /\ sent[j] <= sent'[j]
    BY <1>1, IdsAre DEF TablesTyped
  <2>2. Len(file[j]) \in Nat /\ Prefixed(file[j], j, sent[j])
    BY <1>1, <2>1, LenProperties DEF FilesFit
  <2>. QED
    BY <2>1, <2>2 DEF Prefixed
<1>4. OneFinalReply' /\ DownloadsArrive'
  <2>1. \A j \in 1 .. Len(transfers) : j \in Ids
    BY <1>1, IdsAre DEF Begun
  <2>. QED
    BY <1>1, <2>1 DEF OneFinalReply, DownloadsArrive
<1>5. /\ StrandFits' /\ QueuedInPairs' /\ SendersFit'
      /\ \A j, k \in Driving' : strand'[j].id = strand'[k].id => j = k
      /\ Handled' \subseteq (Handled \ Gone(0)) \cup {}
  <2>1. Moves(0, <<>>)
    BY <1>1, Moving
  <2>2. FileGrows(0)
    BY DEF FileGrows
  <2>3. \A m \in 1 .. Len(<<>>) : HandlerFits(<<>>[m], transfers', file', sent', received') /\ <<>>[m].do \notin {"send", "written"}
    BY NoneNew
  <2>. QED
    BY <1>2, <2>1, <2>2, <2>3, NoneNew, OrdinaryKept
<1>6. accepts' = accepts /\ Writing' = Writing /\ final' = final
    BY DEF Writing
<1>7. AtOnePlace'
  <2>1. 0 \notin Elements(accepts) \cup Handled \cup reads \cup Writing
    BY IdsAre, <1>1, Places
  <2>2. OneMoves(0)
    BY <1>5, <1>6, <2>1, SameAccepts DEF OneMoves
  <2>. QED
    BY <2>2, PlacesKept
<1>8. SetsFit'
  <2>1. IsSeq(ftp_data_buffer_') /\ reads' \subseteq Begun /\ Writing' \subseteq Begun /\ closed' \subseteq Begun
        /\ (\A i \in reads' : transfers[i].cmd = "Stor" /\ received[i] = <<>>) /\ \A i \in Writing' : transfers[i].cmd # "Stor"
    BY <1>1, <1>6 DEF SetsFit, IsSeq, Elements
  <2>. QED
    BY <1>6, <2>1, SameAccepts, SetsKept
<1>. QED
    BY <1>2, <1>3, <1>4, <1>5, <1>7, <1>8 DEF Core

LEMMA QuietKept ==
    ASSUME Core, UNCHANGED <<sent, fin, received, accepts, strand, streams, transfers>>
    PROVE Core'
<1>1. UNCHANGED <<strand, accepts, reads, writes, ftp_data_buffer_, ftp_data_socket_, closed, file, final, received, transfers>>
    BY DEF streams
<1>2. /\ fin' \in [Ids -> {"open", "eof", "reset"}] /\ sent' \in [Ids -> 0 .. MaxUpload]
      /\ \A i \in Ids : sent[i] <= sent'[i] /\ (fin[i] = "reset" => fin'[i] = "reset")
    BY SameTables DEF Core, TablesTyped
<1>. QED
    BY <1>1, <1>2, DriftKept

LEMMA ClientKept ==
    ASSUME Core, NEW i \in Ids, ClientSends(i) \/ ClientEnds(i) \/ ClientResets(i)
    PROVE Core'
<1>1. TablesTyped /\ MaxUpload \in Nat
    BY IdsAre DEF Core
<1>2. UNCHANGED <<strand, accepts, reads, writes, ftp_data_buffer_, ftp_data_socket_, closed, file, final, received, transfers>>
    BY DEF ClientSends, ClientEnds, ClientResets, KeepSession
<1>3. \/ fin' = fin /\ sent' = [sent EXCEPT ![i] = @ + 1] /\ sent[i] < MaxUpload
      \/ sent' = sent /\ fin[i] = "open" /\ \E v \in {"eof", "reset"} : fin' = [fin EXCEPT ![i] = v]
    BY DEF ClientSends, ClientEnds, ClientResets
<1>4. /\ fin' \in [Ids -> {"open", "eof", "reset"}] /\ sent' \in [Ids -> 0 .. MaxUpload]
      /\ \A j \in Ids : sent[j] <= sent'[j] /\ (fin[j] = "reset" => fin'[j] = "reset")
  <2>1. CASE fin' = fin /\ sent' = [sent EXCEPT ![i] = @ + 1] /\ sent[i] < MaxUpload
    BY <1>1, <2>1 DEF TablesTyped
  <2>2. CASE sent' = sent /\ fin[i] = "open" /\ \E v \in {"eof", "reset"} : fin' = [fin EXCEPT ![i] = v]
    BY <1>1, <2>2 DEF TablesTyped
  <2>. QED
    BY <1>3, <2>1, <2>2
<1>. QED
    BY <1>2, <1>4, DriftKept

LEMMA Removed ==
    ASSUME NEW S, NEW q \in Seq(S), NEW k \in 1 .. Len(q),
           \A i, j \in 1 .. Len(q) : q[i] = q[j] => i = j
    PROVE LET r == SubSeq(q, 1, k - 1) \o SubSeq(q, k + 1, Len(q))
          IN /\ r \in Seq(S)
             /\ Elements(r) \subseteq Elements(q) \ {q[k]}
             /\ \A i, j \in 1 .. Len(r) : r[i] = r[j] => i = j
<1>. DEFINE a == SubSeq(q, 1, k - 1)
            b == SubSeq(q, k + 1, Len(q))
            r == a \o b
            n == Len(q)
            at(j) == IF j < k THEN j ELSE j + 1
<1>1. n \in Nat /\ \A j \in 1 .. n : q[j] \in S
    BY LenProperties, ElementOfSeq
<1>2. a \in Seq(S) /\ Len(a) = k - 1 /\ \A j \in 1 .. k - 1 : a[j] = q[j]
  <2>1. 1 \in 1 .. n + 1 /\ k - 1 \in 0 .. n
    BY <1>1
  <2>. QED
    BY <1>1, <2>1, SubSeqProperties
<1>3. b \in Seq(S) /\ Len(b) = n - k /\ \A j \in 1 .. n - k : b[j] = q[k + j]
  <2>1. k + 1 \in 1 .. n + 1 /\ n \in 0 .. n /\ n \in k .. n
    BY <1>1
  <2>2. b \in Seq(S) /\ Len(b) = n - k /\ \A j \in 1 .. n - k : b[j] = q[(k + 1) + j - 1]
    BY <1>1, <2>1, SubSeqProperties
  <2>3. \A j \in 1 .. n - k : (k + 1) + j - 1 = k + j
    BY <1>1
  <2>. QED
    BY <2>2, <2>3
<1>. HIDE DEF a, b
<1>4. /\ r \in Seq(S) /\ Len(r) = (k - 1) + (n - k)
      /\ \A j \in 1 .. k - 1 : r[j] = a[j]
      /\ \A j \in 1 .. n - k : r[(k - 1) + j] = b[j]
  <2>1. a \in Seq(S) /\ b \in Seq(S)
    BY <1>2, <1>3
  <2>2. /\ r \in Seq(S) /\ Len(r) = Len(a) + Len(b)
        /\ \A j \in 1 .. Len(a) : r[j] = a[j]
        /\ \A j \in 1 .. Len(b) : r[Len(a) + j] = b[j]
    BY <2>1, ConcatProperties
  <2>. HIDE DEF r, n
  <2>. QED
    BY <1>2, <1>3, <2>2
<1>. HIDE DEF r
<1>5. ASSUME NEW j \in 1 .. Len(r) PROVE r[j] = q[at(j)] /\ at(j) \in 1 .. n /\ at(j) # k
  <2>1. CASE j < k
    BY <1>1, <1>2, <1>4, <2>1
  <2>2. CASE ~(j < k)
    <3>1. j - (k - 1) \in 1 .. n - k /\ (k - 1) + (j - (k - 1)) = j /\ k + (j - (k - 1)) = j + 1
        BY <1>1, <1>4, <2>2
    <3>2. r[j] = b[j - (k - 1)]
        BY <1>4, <3>1
    <3>. QED
        BY <1>1, <1>3, <1>4, <2>2, <3>1, <3>2
  <2>. QED
    BY <2>1, <2>2
<1>6. Elements(r) \subseteq Elements(q) \ {q[k]}
    BY <1>5 DEF Elements
<1>7. ASSUME NEW i \in 1 .. Len(r), NEW j \in 1 .. Len(r), r[i] = r[j] PROVE i = j
  <2>1. at(i) = at(j)
    BY <1>5, <1>7
  <2>. QED
    BY <1>4, <2>1
<1>. QED
    BY <1>4, <1>6, <1>7 DEF r, a, b

LEMMA AcceptKept ==
    ASSUME Core, Accept
    PROVE Core'
<1>1. PICK k \in 1 .. Len(accepts), v \in {"accepted", "aborted"} :
        /\ accepts' = SubSeq(accepts, 1, k - 1) \o SubSeq(accepts, k + 1, Len(accepts))
        /\ Dispatch(v, accepts[k], Null)
    BY DEF Accept
<1>. DEFINE i == accepts[k]
            h == Handler(v, i, Null)
<1>2. /\ strand' = Append(strand, h)
      /\ UNCHANGED <<ftp_data_buffer_, ftp_data_socket_, writes, reads, closed, file, final>>
      /\ UNCHANGED <<sent, fin, received, transfers>>
    BY <1>1 DEF Accept, KeepSession, client, Dispatch
<1>3. TransfersTyped /\ TablesTyped /\ FilesFit /\ SetsFit /\ IsSeq(strand)
    BY DEF Core, StrandFits
<1>4. /\ i \in Elements(accepts) /\ i \in Begun /\ i \in Ids /\ i \notin Handled \cup reads \cup Writing
      /\ final[i] = <<>> /\ received[i] = <<>>
  <2>1. i \in Elements(accepts)
    BY DEF Elements
  <2>. QED
    BY <1>3, <2>1, Places DEF SetsFit
<1>5. /\ accepts' \in Seq(Begun) /\ Elements(accepts') \subseteq Elements(accepts) \ {i}
      /\ \A j, m \in 1 .. Len(accepts') : accepts'[j] = accepts'[m] => j = m
  <2>1. accepts \in Seq(Begun) /\ \A j, m \in 1 .. Len(accepts) : accepts[j] = accepts[m] => j = m
    BY <1>3, Places DEF SetsFit
  <2>2. LET r == SubSeq(accepts, 1, k - 1) \o SubSeq(accepts, k + 1, Len(accepts))
        IN /\ r \in Seq(Begun)
           /\ Elements(r) \subseteq Elements(accepts) \ {accepts[k]}
           /\ \A j, m \in 1 .. Len(r) : r[j] = r[m] => j = m
    BY <2>1, Removed
  <2>. QED
    BY <1>1, <2>2
<1>6. /\ TransfersTyped' /\ Grown /\ TablesTyped' /\ FilesFit'
      /\ \A j \in Ids : sent[j] <= sent'[j] /\ (fin[j] = "reset" => fin'[j] = "reset")
    BY <1>2, <1>3, SameTables DEF TablesTyped, FilesFit
<1>7. OneFinalReply' /\ DownloadsArrive'
    BY <1>2, SameFinal
<1>8. h.do \in {"accepted", "aborted"} /\ h.id = i /\ Drives(h)
    BY Fields DEF Drives, EndsQueue
<1>9. HandlerFits(h, transfers', file', sent', received')
    BY <1>2, <1>4, <1>8 DEF HandlerFits, Kinds, Uploading, Downloading, Begun
<1>. HIDE DEF i, h
<1>10. /\ StrandFits' /\ QueuedInPairs' /\ SendersFit'
       /\ \A j, m \in Driving' : strand'[j].id = strand'[m].id => j = m
       /\ Handled' \subseteq (Handled \ Gone(0)) \cup NewIds(<<h>>)
  <2>1. Moves(0, <<h>>)
    BY <1>2, <1>3, Moving
  <2>2. FileGrows(0) /\ UNCHANGED <<ftp_data_buffer_, writes, received>>
    BY <1>2 DEF FileGrows
  <2>3. Apart(<<h>>) /\ Pairs(<<h>>) /\ NewIds(<<h>>) \cap (Handled \ Gone(0)) = {}
    <3>1. Apart(<<h>>) /\ Pairs(<<h>>) /\ NewIds(<<h>>) = {i}
        BY <1>8, OneNew
    <3>. QED
        BY <1>4, <3>1
  <2>4. \A m \in 1 .. Len(<<h>>) : /\ HandlerFits(<<h>>[m], transfers', file', sent', received')
                                   /\ <<h>>[m].do \notin {"send", "written"}
    BY <1>8, <1>9, OneNew
  <2>. QED
    BY <1>6, <2>1, <2>2, <2>3, <2>4, OrdinaryKept
<1>11. reads' = reads /\ Writing' = Writing /\ final' = final
    BY <1>2 DEF Writing
<1>12. AtOnePlace'
  <2>1. Handled' \subseteq Handled \cup {i}
    BY <1>8, <1>10, OneNew
  <2>2. OneMoves(i)
    BY <1>4, <1>5, <1>10, <1>11, <2>1 DEF OneMoves
  <2>. QED
    BY <2>2, PlacesKept
<1>13. SetsFit'
  <2>1. IsSeq(ftp_data_buffer_') /\ reads' \subseteq Begun /\ Writing' \subseteq Begun /\ closed' \subseteq Begun
        /\ (\A j \in reads' : transfers[j].cmd = "Stor" /\ received[j] = <<>>) /\ \A j \in Writing' : transfers[j].cmd # "Stor"
    BY <1>2, <1>3, <1>11 DEF SetsFit, IsSeq, Elements
  <2>. QED
    BY <1>2, <1>5, <1>11, <2>1, SetsKept
<1>. QED
    BY <1>6, <1>7, <1>10, <1>12, <1>13 DEF Core

(* The bytes a read brings are the next ones of the upload. *)
LEMMA NextBytes ==
    ASSUME NEW i \in Ids, NEW s \in Nat, NEW f \in Seq(Ids \X Nat), Prefixed(f, i, s),
           NEW n \in Nat, Len(f) + n <= s
    PROVE LET bytes == SubSeq([k \in 1 .. s |-> <<i, k>>], Len(f) + 1, Len(f) + n)
          IN bytes \in Seq(Ids \X Nat) /\ Len(bytes) = n /\ Prefixed(f \o bytes, i, s)
<1>. DEFINE u == [k \in 1 .. s |-> <<i, k>>]
            had == Len(f)
            bytes == SubSeq(u, had + 1, had + n)
            all == f \o bytes
<1>1. had \in Nat /\ had <= s /\ \A k \in 1 .. had : f[k] = <<i, k>>
    BY LenProperties DEF Prefixed
<1>2. u \in Seq(Ids \X Nat) /\ Len(u) = s /\ \A k \in 1 .. s : u[k] = <<i, k>>
  <2>1. u \in [1 .. s -> Ids \X Nat] /\ \A k \in 1 .. s : u[k] = <<i, k>>
    OBVIOUS
  <2>. QED
    BY <2>1, SeqDef, LenProperties
<1>. HIDE DEF u, had
<1>3. bytes \in Seq(Ids \X Nat) /\ Len(bytes) = n /\ \A k \in 1 .. n : bytes[k] = <<i, had + k>>
  <2>1. had + 1 \in 1 .. s + 1 /\ had + n \in 0 .. s /\ had + n \in ((had + 1) - 1) .. s
    BY <1>1 DEF had
  <2>2. bytes \in Seq(Ids \X Nat) /\ Len(bytes) = n /\ \A k \in 1 .. n : bytes[k] = u[(had + 1) + k - 1]
    BY <1>1, <1>2, <2>1, SubSeqProperties
  <2>3. \A k \in 1 .. n : (had + 1) + k - 1 = had + k /\ had + k \in 1 .. s
    BY <1>1, <2>1
  <2>. QED
    BY <1>2, <2>2, <2>3
<1>. HIDE DEF bytes
<1>4. /\ Len(all) = had + n
      /\ \A k \in 1 .. had : all[k] = f[k]
      /\ \A k \in 1 .. n : all[had + k] = bytes[k]
  <2>1. f \in Seq(Ids \X Nat) /\ bytes \in Seq(Ids \X Nat)
    BY <1>3
  <2>2. /\ Len(all) = Len(f) + Len(bytes)
        /\ \A k \in 1 .. Len(f) : all[k] = f[k]
        /\ \A k \in 1 .. Len(bytes) : all[Len(f) + k] = bytes[k]
    BY <2>1, ConcatProperties
  <2>. HIDE DEF all
  <2>. QED
    BY <1>3, <2>2 DEF had
<1>. HIDE DEF all
<1>5. ASSUME NEW k \in 1 .. Len(all) PROVE all[k] = <<i, k>>
  <2>1. CASE k \in 1 .. had
    BY <1>1, <1>4, <2>1
  <2>2. CASE k \notin 1 .. had
    <3>1. k - had \in 1 .. n /\ had + (k - had) = k
        BY <1>1, <1>4, <2>2
    <3>. QED
        BY <1>3, <1>4, <3>1
  <2>. QED
    BY <2>1, <2>2
<1>6. Prefixed(all, i, s)
    BY <1>4, <1>5 DEF Prefixed, had
<1>. QED
    BY <1>3, <1>6 DEF all, bytes, u, had

LEMMA ReadDoneKept ==
    ASSUME Core, NEW i \in Ids, ReadDone(i)
    PROVE Core'
<1>1. PICK n \in 0 .. BufferSize, b \in BOOLEAN :
        /\ Len(file[i]) + n <= sent[i]
        /\ Dispatch("read", i, [ok |-> b, bytes |-> SubSeq(Upload(i), Len(file[i]) + 1, Len(file[i]) + n)])
    BY DEF ReadDone
<1>. DEFINE bytes == SubSeq(Upload(i), Len(file[i]) + 1, Len(file[i]) + n)
            x == [ok |-> b, bytes |-> bytes]
            h == Handler("read", i, x)
<1>2. /\ strand' = Append(strand, h) /\ i \in reads /\ reads' = reads \ {i}
      /\ UNCHANGED <<ftp_data_buffer_, ftp_data_socket_, writes, accepts, closed, file, final>>
      /\ UNCHANGED <<sent, fin, received, transfers>>
    BY <1>1 DEF ReadDone, KeepSession, client, Dispatch
<1>3. TransfersTyped /\ TablesTyped /\ FilesFit /\ SetsFit /\ IsSeq(strand) /\ DownloadsArrive
    BY DEF Core, StrandFits
<1>4. /\ i \in Begun /\ i \notin Elements(accepts) \cup Handled \cup Writing
      /\ final[i] = <<>> /\ transfers[i].cmd = "Stor" /\ received[i] = <<>>
    BY <1>2, <1>3, Places DEF SetsFit
<1>5. /\ bytes \in Seq(Ids \X Nat) /\ Prefixed(file[i] \o bytes, i, sent[i])
  <2>1. /\ sent[i] \in Nat /\ file[i] \in Seq(Ids \X Nat) /\ Prefixed(file[i], i, sent[i])
        /\ n \in Nat /\ Len(file[i]) + n <= sent[i]
    BY <1>1, <1>3, IdsAre, BoundsAssumption DEF TablesTyped, FilesFit
  <2>. QED
    BY <2>1, NextBytes DEF Upload
<1>6. /\ TransfersTyped' /\ Grown /\ TablesTyped' /\ FilesFit'
      /\ \A j \in Ids : sent[j] <= sent'[j] /\ (fin[j] = "reset" => fin'[j] = "reset")
    BY <1>2, <1>3, SameTables DEF TablesTyped, FilesFit
<1>7. OneFinalReply' /\ DownloadsArrive'
    BY <1>2, SameFinal
<1>. HIDE DEF bytes
<1>8. h.do = "read" /\ h.id = i /\ h.arg.bytes = bytes /\ Drives(h)
    BY Fields DEF Drives, EndsQueue
<1>9. HandlerFits(h, transfers', file', sent', received')
  <2>. HIDE DEF h
  <2>. QED
    BY <1>2, <1>4, <1>5, <1>8 DEF HandlerFits, Kinds, Uploading, Downloading, Begun
<1>. HIDE DEF h
<1>10. /\ StrandFits' /\ QueuedInPairs' /\ SendersFit'
       /\ \A j, m \in Driving' : strand'[j].id = strand'[m].id => j = m
       /\ Handled' \subseteq (Handled \ Gone(0)) \cup NewIds(<<h>>)
  <2>1. Moves(0, <<h>>)
    BY <1>2, <1>3, Moving
  <2>2. FileGrows(0) /\ UNCHANGED <<ftp_data_buffer_, writes, received>>
    BY <1>2 DEF FileGrows
  <2>3. Apart(<<h>>) /\ Pairs(<<h>>) /\ NewIds(<<h>>) \cap (Handled \ Gone(0)) = {}
    BY <1>4, <1>8, OneNew
  <2>4. \A m \in 1 .. Len(<<h>>) : /\ HandlerFits(<<h>>[m], transfers', file', sent', received')
                                   /\ <<h>>[m].do \notin {"send", "written"}
    BY <1>8, <1>9, OneNew
  <2>. QED
    BY <1>6, <2>1, <2>2, <2>3, <2>4, OrdinaryKept
<1>11. accepts' = accepts /\ Writing' = Writing /\ final' = final
    BY <1>2 DEF Writing
<1>12. AtOnePlace'
  <2>1. Handled' \subseteq Handled \cup {i} /\ i \notin reads'
    BY <1>2, <1>8, <1>10, OneNew
  <2>2. OneMoves(i)
    BY <1>2, <1>4, <1>10, <1>11, <2>1, SameAccepts DEF OneMoves
  <2>. QED
    BY <2>2, PlacesKept
<1>13. SetsFit'
  <2>1. IsSeq(ftp_data_buffer_') /\ reads' \subseteq Begun /\ Writing' \subseteq Begun /\ closed' \subseteq Begun
        /\ (\A j \in reads' : transfers[j].cmd = "Stor" /\ received[j] = <<>>) /\ \A j \in Writing' : transfers[j].cmd # "Stor"
    BY <1>2, <1>3, <1>11 DEF SetsFit, IsSeq, Elements
  <2>. QED
    BY <1>2, <1>11, <2>1, SameAccepts, SetsKept
<1>. QED
    BY <1>6, <1>7, <1>10, <1>12, <1>13 DEF Core

-------------------------------------------------------------------------------
(* The steps that send from the queue. *)
LEMMA ChainMoves ==
    ASSUME IsSeq(strand), NEW d, NEW new, Moves(d, new)
    PROVE LET n == Len(strand) - d
          IN /\ \A k \in Chain' :
                   \/ k + d \in Chain /\ strand'[k] = strand[k + d]
                   \/ k - n \in 1 .. Len(new) /\ strand'[k] = new[k - n] /\ new[k - n].do \in {"send", "written"}
             /\ n \in Nat /\ \A k \in Chain' : k \in Nat /\ k > 0
<1>. DEFINE n == Len(strand) - d
<1>1. /\ n \in Nat /\ Len(strand) \in Nat /\ Len(new) \in Nat /\ d \in {0, 1}
      /\ IsSeq(strand') /\ Len(strand') = n + Len(new)
      /\ \A k \in 1 .. n : strand'[k] = strand[k + d] /\ k + d \in 1 .. Len(strand)
      /\ \A m \in 1 .. Len(new) : strand'[n + m] = new[m]
      /\ \A k \in 1 .. n + Len(new) :
            k \in 1 .. n \/ (k - n \in 1 .. Len(new) /\ strand'[k] = new[k - n])
  <2>1. Shifted(d, new)
    BY Positions
  <2>. QED
    BY <2>1 DEF Shifted
<1>2. /\ Chain = {k \in 1 .. Len(strand) : strand[k].do \in {"send", "written"}}
      /\ Chain' = {k \in 1 .. Len(strand') : strand'[k].do \in {"send", "written"}}
    BY DEF Chain
<1>. HIDE DEF n
<1>3. ASSUME NEW k \in Chain'
      PROVE /\ k \in Nat /\ k > 0
            /\ \/ k + d \in Chain /\ strand'[k] = strand[k + d]
               \/ k - n \in 1 .. Len(new) /\ strand'[k] = new[k - n] /\ new[k - n].do \in {"send", "written"}
  <2>1. k \in 1 .. n + Len(new) /\ strand'[k].do \in {"send", "written"}
    BY <1>1, <1>2
  <2>. QED
    BY <1>1, <1>2, <2>1
<1>. QED
    BY <1>1, <1>3 DEF n

(* The handler that was sending is done, and one goes on, or a write does. *)
LEMMA LastSender ==
    ASSUME IsSeq(strand), NEW d, NEW new, Moves(d, new),
           \A k \in Chain : d = 1 /\ k = 1,
           \/ new = <<>>
           \/ /\ Len(new) = 1 /\ writes' = {}
              /\ SenderFits(new[1], ftp_data_buffer_', strand', transfers', received', fin'),
           \A v, w \in writes' : v = w,
           \A w \in writes' : WriteFits(w, ftp_data_buffer_', strand', transfers', received')
    PROVE SendersFit'
<1>. DEFINE n == Len(strand) - d
<1>1. /\ n \in Nat
      /\ \A k \in Chain' :
            /\ k \in Nat /\ k > 0
            /\ \/ k + d \in Chain /\ strand'[k] = strand[k + d]
               \/ k - n \in 1 .. Len(new) /\ strand'[k] = new[k - n] /\ new[k - n].do \in {"send", "written"}
  <2>1. IsSeq(strand) /\ Moves(d, new)
    OBVIOUS
  <2>. QED
    BY <2>1, ChainMoves
<1>. HIDE DEF n
<1>2. \A k \in Chain' : k - n \in 1 .. Len(new) /\ strand'[k] = new[k - n]
    BY <1>1
<1>3. CASE new = <<>>
  <2>1. Chain' = {}
    BY <1>2, <1>3, NoneNew
  <2>. QED
    BY <2>1 DEF SendersFit
<1>4. CASE /\ Len(new) = 1 /\ writes' = {}
           /\ SenderFits(new[1], ftp_data_buffer_', strand', transfers', received', fin')
  <2>1. \A k \in Chain' : k = n + 1 /\ strand'[k] = new[1]
    BY <1>1, <1>2, <1>4
  <2>. QED
    BY <1>4, <2>1 DEF SendersFit
<1>. QED
    BY <1>3, <1>4

LEMMA SendingKept ==
    ASSUME Core, NEW d, NEW new, Moves(d, new), TablesTyped', UNCHANGED <<transfers, file, sent, fin>>,
           \A j \in Handled \ Gone(d) : received'[j] = received[j],
           Apart(new), Pairs(new), NewIds(new) \cap (Handled \ Gone(d)) = {},
           \A m \in 1 .. Len(new) : HandlerFits(new[m], transfers', file', sent', received'),
           \/ ftp_data_buffer_' # <<>>
           \/ d = 0 /\ ftp_data_buffer_' = ftp_data_buffer_
           \/ d = 1 /\ ~Queues(strand[1])
    PROVE /\ TransfersTyped' /\ StrandFits' /\ QueuedInPairs'
          /\ \A j, k \in Driving' : strand'[j].id = strand'[k].id => j = k
          /\ Handled' \subseteq (Handled \ Gone(d)) \cup NewIds(new)
          /\ FilesFit'
<1>1. /\ StrandFits /\ AtOnePlace /\ QueuedInPairs /\ TransfersTyped /\ TablesTyped /\ FilesFit
    BY DEF Core
<1>2. IsSeq(strand) /\ d \in {0, 1}
    BY <1>1 DEF StrandFits, Moves
<1>3. /\ \A j, k \in Driving' : strand'[j].id = strand'[k].id => j = k
      /\ Handled' \subseteq (Handled \ Gone(d)) \cup NewIds(new)
    BY <1>1, <1>2, PlacesMove
<1>4. QueuedInPairs'
    BY <1>1, <1>2, PairsMove DEF Pairs
<1>5. TransfersTyped' /\ Grown /\ \A i \in Ids : sent[i] <= sent'[i]
    BY SameTables
<1>6. ASSUME NEW k \in 1 .. Len(strand), k > d
      PROVE HandlerFits(strand[k], transfers', file', sent', received')
  <2>. DEFINE h == strand[k]
  <2>1. HandlerFits(h, transfers, file, sent, received)
    BY <1>1 DEF StrandFits
  <2>2. Drives(h) => h.id \in Handled \ Gone(d)
    <3>. SUFFICES ASSUME Drives(h) PROVE h.id \in Handled \ Gone(d)
        OBVIOUS
    <3>1. k \in Driving /\ h.id \in Handled
        BY DEF Driving, Handled
    <3>2. CASE d = 1 /\ Drives(strand[1])
        <4>1. 1 \in Driving /\ k # 1
            BY <1>2, <1>6, <3>2, SeqLen DEF Driving
        <4>. QED
            BY <1>1, <3>1, <3>2, <4>1 DEF Gone, AtOnePlace
    <3>3. CASE ~(d = 1 /\ Drives(strand[1]))
        BY <3>1, <3>3 DEF Gone
    <3>. QED
        BY <3>2, <3>3
  <2>3. Drives(h) /\ h.do \notin {"send", "written"} => received'[h.id] = received[h.id]
    BY <2>2
  <2>4. h.do = "read" => file'[h.id] = file[h.id]
    OBVIOUS
  <2>. HIDE DEF h
  <2>5. HandlerFits(h, transfers', file', sent', received')
    BY <1>1, <1>5, <2>1, <2>3, <2>4, StillFits
  <2>. QED
    BY <2>5 DEF h
<1>7. StrandFits'
    BY <1>1, <1>6, StrandFitsKept
<1>8. FilesFit'
    BY <1>1 DEF FilesFit
<1>. QED
    BY <1>3, <1>4, <1>5, <1>7, <1>8

LEMMA SendKept ==
    ASSUME Core, Send
    PROVE Core'
<1>. DEFINE i == First.id
            b == ftp_data_buffer_
            x == transfers[i].data
<1>1. /\ strand # <<>> /\ First.do = "send" /\ ThenPosts(<<>>)
      /\ UNCHANGED <<ftp_data_socket_, reads, file, sent, fin, received, accepts, transfers>>
      /\ \/ /\ Head(b) # Null /\ writes' = writes \cup {[id |-> i, data |-> Head(b)]}
            /\ UNCHANGED <<ftp_data_buffer_, closed, final>>
         \/ /\ Head(b) = Null /\ ftp_data_buffer_' = Tail(b) /\ closed' = closed \cup {i}
            /\ sendFinal(i, 226) /\ UNCHANGED writes
    BY DEF Send, Runs, KeepControl, client, accepting
<1>2. Drives(First) /\ First.do \in Downloading /\ ~Queues(First) /\ ~EndsQueue(First)
    BY <1>1 DEF Drives, EndsQueue, Queues, Downloading
<1>3. /\ i \in Begun /\ i \in Ids /\ i \in Handled /\ Gone(1) = {i} /\ final[i] = <<>> /\ IsSeq(strand)
      /\ transfers[i].cmd # "Stor" /\ 1 \in 1 .. Len(strand)
    BY <1>1, <1>2, FirstFits DEF HandlerFits
<1>4. TransfersTyped /\ TablesTyped /\ FilesFit /\ SetsFit /\ SendersFit /\ IsSeq(b)
    BY DEF Core, SetsFit
<1>5. /\ \A k \in Chain : k = 1
      /\ writes = {}
      /\ SenderFits(First, b, strand, transfers, received, fin)
  <2>1. 1 \in Chain
    BY <1>1, <1>3 DEF Chain, First
  <2>. QED
    BY <1>4, <2>1 DEF SendersFit, First
<1>6. /\ b # <<>> /\ Head(b) = b[1]
      /\ \/ b[1] = <<x>> /\ Len(b) # 1 /\ b[2] = Null /\ received[i] = <<>>
         \/ b[1] = Null /\ Has(i)
  <2>1. \/ BeginsWith(b, strand, x) /\ received[i] = <<>>
        \/ b # <<>> /\ b[1] = Null /\ Has(i)
    BY <1>1, <1>5 DEF SenderFits, Has
  <2>2. b # <<>> /\ (BeginsWith(b, strand, x) => b[1] = <<x>> /\ Len(b) # 1 /\ b[2] = Null)
    BY <1>2, <2>1 DEF BeginsWith, First
  <2>. QED
    BY <1>4, <2>1, <2>2, Tailed
<1>7. <<x>> # Null
    BY Few DEF Null
<1>8. Moves(1, <<>>)
    BY <1>1, <1>3, Moving, Few
<1>. HIDE DEF i, b, x
<1>9. ASSUME TablesTyped'
      PROVE /\ TransfersTyped' /\ StrandFits' /\ QueuedInPairs' /\ FilesFit'
            /\ \A j, k \in Driving' : strand'[j].id = strand'[k].id => j = k
            /\ Handled' \subseteq Handled \ {i}
  <2>1. \A m \in 1 .. Len(<<>>) : HandlerFits(<<>>[m], transfers', file', sent', received')
    BY NoneNew
  <2>2. UNCHANGED <<transfers, file, sent, fin>> /\ received' = received /\ ~Queues(strand[1])
    BY <1>1, <1>2 DEF First
  <2>3. Apart(<<>>) /\ Pairs(<<>>) /\ NewIds(<<>>) = {}
    BY NoneNew
  <2>4. /\ TransfersTyped' /\ StrandFits' /\ QueuedInPairs' /\ FilesFit'
        /\ \A j, k \in Driving' : strand'[j].id = strand'[k].id => j = k
        /\ Handled' \subseteq (Handled \ Gone(1)) \cup NewIds(<<>>)
    BY <1>8, <1>9, <2>1, <2>2, <2>3, SendingKept
  <2>. QED
    BY <1>3, <2>3, <2>4
<1>10. i \notin Elements(accepts) \cup reads \cup Writing
    BY <1>3, Places
<1>11. CASE Head(b) # Null
  <2>. DEFINE w == [id |-> i, data |-> Head(b)]
  <2>1. /\ writes' = {w} /\ w.id = i /\ w.data = <<x>>
        /\ UNCHANGED <<ftp_data_buffer_, closed, final>>
        /\ b[1] = <<x>> /\ Len(b) # 1 /\ b[2] = Null /\ received[i] = <<>>
    BY <1>1, <1>5, <1>6, <1>11
  <2>. HIDE DEF w
  <2>2. TablesTyped'
    BY <1>1, <1>4, <2>1 DEF TablesTyped
  <2>3. OneFinalReply' /\ DownloadsArrive'
    BY <1>1, <2>1, SameFinal
  <2>4. Writing' = {i}
    BY <2>1 DEF Writing
  <2>5. AtOnePlace'
    <3>1. accepts' = accepts /\ reads' = reads /\ final' = final
        BY <1>1, <2>1
    <3>2. OneMoves(i)
        BY <1>3, <1>9, <1>10, <2>2, <2>4, <3>1, SameAccepts DEF OneMoves
    <3>. QED
        BY <3>2, PlacesKept
  <2>6. SetsFit'
    <3>1. IsSeq(ftp_data_buffer_') /\ reads' \subseteq Begun /\ Writing' \subseteq Begun /\ closed' \subseteq Begun
          /\ (\A j \in reads' : transfers[j].cmd = "Stor" /\ received[j] = <<>>) /\ \A j \in Writing' : transfers[j].cmd # "Stor"
      <4>1. IsSeq(ftp_data_buffer_')
        BY <1>4, <2>1 DEF SetsFit, IsSeq, Elements
      <4>2. reads' \subseteq Begun /\ closed' \subseteq Begun /\ \A j \in reads' : transfers[j].cmd = "Stor" /\ received[j] = <<>>
        BY <1>1, <1>4, <2>1 DEF SetsFit
      <4>3. Writing' \subseteq Begun /\ \A j \in Writing' : transfers[j].cmd # "Stor"
        BY <1>3, <2>4
      <4>. QED
        BY <4>1, <4>2, <4>3
    <3>. QED
        BY <1>1, <2>1, <3>1, SameAccepts, SetsKept
  <2>7. WriteFits(w, ftp_data_buffer_', strand', transfers', received')
    BY <1>1, <1>6, <2>1 DEF WriteFits, BeginsWith, b, x
  <2>8. SendersFit'
    BY <1>3, <1>5, <1>8, <2>1, <2>7, LastSender
  <2>. QED
    BY <1>9, <2>2, <2>3, <2>5, <2>6, <2>8 DEF Core
<1>12. CASE Head(b) = Null
  <2>1. /\ ftp_data_buffer_' = Tail(b) /\ closed' = closed \cup {i} /\ sendFinal(i, 226) /\ writes' = {}
        /\ Has(i)
    BY <1>1, <1>5, <1>6, <1>7, <1>12
  <2>2. /\ final' \in [Ids -> Seq({226, 426, 450})]
        /\ OneFinalReply' /\ DownloadsArrive'
        /\ \A j \in Ids : j # i => final'[j] = final[j]
    <3>1. UNCHANGED <<transfers, received, fin>> /\ 226 \in {226, 426, 450}
        BY <1>1
    <3>. QED
        BY <1>3, <2>1, <3>1, FinalGiven
  <2>3. TablesTyped'
    BY <1>1, <1>4, <2>2 DEF TablesTyped
  <2>4. accepts' = accepts /\ reads' = reads /\ Writing' = {}
    BY <1>1, <2>1 DEF Writing
  <2>5. AtOnePlace'
    <3>1. OneMoves(i)
        BY <1>3, <1>9, <1>10, <2>2, <2>3, <2>4, SameAccepts DEF OneMoves
    <3>. QED
        BY <3>1, PlacesKept
  <2>6. SetsFit'
    <3>1. IsSeq(ftp_data_buffer_')
        BY <1>4, <1>6, <2>1, Tailed
    <3>2. reads' \subseteq Begun /\ Writing' \subseteq Begun /\ closed' \subseteq Begun
          /\ (\A j \in reads' : transfers[j].cmd = "Stor" /\ received[j] = <<>>) /\ \A j \in Writing' : transfers[j].cmd # "Stor"
        BY <1>1, <1>3, <1>4, <2>1, <2>4 DEF SetsFit
    <3>3. \A j \in Ids : j \notin Begun => final'[j] = final[j]
        BY <1>3, <2>2
    <3>. QED
        BY <1>1, <2>4, <3>1, <3>2, <3>3, SameAccepts, SetsKept
  <2>7. SendersFit'
    BY <1>3, <1>5, <1>8, <2>1, LastSender
  <2>. QED
    BY <1>9, <2>2, <2>3, <2>5, <2>6, <2>7 DEF Core
<1>. QED
    BY <1>11, <1>12

LEMMA WrittenKept ==
    ASSUME Core, Written
    PROVE Core'
<1>. DEFINE i == First.id
            b == ftp_data_buffer_
            x == transfers[i].data
            ok == First.arg = "ok"
            h == Handler("send", i, Null)
            new == IF ok /\ Tail(b) # <<>> THEN <<h>> ELSE <<>>
<1>1. /\ strand # <<>> /\ First.do = "written" /\ ThenPosts(new) /\ ftp_data_buffer_' = Tail(b)
      /\ UNCHANGED <<ftp_data_socket_, reads, writes, closed, file, final>>
      /\ UNCHANGED <<sent, fin, received, accepts, transfers>>
    BY DEF Written, Runs, KeepControl, client, accepting
<1>2. Drives(First) /\ First.do \in Downloading /\ ~Queues(First) /\ ~EndsQueue(First)
    BY <1>1 DEF Drives, EndsQueue, Queues, Downloading
<1>3. /\ i \in Begun /\ i \in Ids /\ i \in Handled /\ Gone(1) = {i} /\ final[i] = <<>> /\ IsSeq(strand)
      /\ transfers[i].cmd # "Stor" /\ 1 \in 1 .. Len(strand)
    BY <1>1, <1>2, FirstFits DEF HandlerFits
<1>4. TransfersTyped /\ TablesTyped /\ FilesFit /\ SetsFit /\ SendersFit /\ IsSeq(b)
    BY DEF Core, SetsFit
<1>5. /\ \A k \in Chain : k = 1
      /\ writes = {}
      /\ SenderFits(First, b, strand, transfers, received, fin)
  <2>1. 1 \in Chain
    BY <1>1, <1>3 DEF Chain, First
  <2>. QED
    BY <1>4, <2>1 DEF SendersFit, First
<1>6. b # <<>> /\ Len(b) # 1 /\ b[2] = Null /\ (ok => Has(i))
    BY <1>1, <1>5 DEF SenderFits, BeginsWith, Has
<1>7. IsSeq(Tail(b)) /\ Tail(b) # <<>> /\ Tail(b)[1] = Null
  <2>1. /\ IsSeq(Tail(b)) /\ Len(Tail(b)) = Len(b) - 1 /\ Len(b) \in Nat \ {0}
        /\ \A k \in 1 .. Len(b) - 1 : Tail(b)[k] = b[k + 1]
    BY <1>4, <1>6, Tailed
  <2>2. 1 \in 1 .. Len(b) - 1 /\ Len(Tail(b)) # 0
    BY <1>6, <2>1
  <2>3. Tail(b)[1] = b[1 + 1] /\ 1 + 1 = 2
    BY <2>1, <2>2
  <2>4. Tail(b) # <<>>
    BY <2>2, Few
  <2>. QED
    BY <1>6, <2>1, <2>3, <2>4
<1>8. new = IF ok THEN <<h>> ELSE <<>>
    BY <1>7
<1>9. h.do = "send" /\ h.id = i /\ Drives(h)
    BY Fields DEF Drives, EndsQueue
<1>. HIDE DEF i, b, x, ok, h, new
<1>10. TablesTyped' /\ OneFinalReply' /\ DownloadsArrive'
    BY <1>1, <1>4, SameFinal DEF TablesTyped
<1>11. /\ IsSeq(new) /\ Apart(new) /\ Pairs(new)
       /\ NewIds(new) = IF ok THEN {i} ELSE {}
       /\ \A m \in 1 .. Len(new) : HandlerFits(new[m], transfers', file', sent', received')
  <2>1. CASE ~ok
    BY <1>8, <2>1, NoneNew, Few
  <2>2. CASE ok
    <3>1. HandlerFits(h, transfers', file', sent', received')
        BY <1>1, <1>3, <1>9 DEF HandlerFits, Kinds, Uploading, Downloading, Begun
    <3>2. new = <<h>> /\ IsSeq(<<h>>)
        BY <1>8, <2>2, Few
    <3>. QED
        BY <1>9, <2>2, <3>1, <3>2, OneNew
  <2>. QED
    BY <2>1, <2>2
<1>12. Moves(1, new)
    BY <1>1, <1>3, <1>11, Moving
<1>13. /\ TransfersTyped' /\ StrandFits' /\ QueuedInPairs' /\ FilesFit'
       /\ \A j, k \in Driving' : strand'[j].id = strand'[k].id => j = k
       /\ Handled' \subseteq Handled
  <2>1. UNCHANGED <<transfers, file, sent, fin>> /\ received' = received /\ ~Queues(strand[1])
    BY <1>1, <1>2 DEF First
  <2>2. NewIds(new) \cap (Handled \ Gone(1)) = {}
    BY <1>3, <1>11
  <2>3. /\ TransfersTyped' /\ StrandFits' /\ QueuedInPairs' /\ FilesFit'
        /\ \A j, k \in Driving' : strand'[j].id = strand'[k].id => j = k
        /\ Handled' \subseteq (Handled \ Gone(1)) \cup NewIds(new)
    BY <1>10, <1>11, <1>12, <2>1, <2>2, SendingKept
  <2>. QED
    BY <1>3, <1>11, <2>3
<1>14. accepts' = accepts /\ reads' = reads /\ Writing' = Writing /\ final' = final
    BY <1>1 DEF Writing
<1>15. AtOnePlace'
  <2>1. i \notin Elements(accepts) \cup reads \cup Writing
    BY <1>3, Places
  <2>2. OneMoves(i)
    BY <1>3, <1>13, <1>14, <2>1, SameAccepts DEF OneMoves
  <2>. QED
    BY <2>2, PlacesKept
<1>16. SetsFit'
  <2>1. IsSeq(ftp_data_buffer_')
    BY <1>1, <1>7
  <2>2. reads' \subseteq Begun /\ Writing' \subseteq Begun /\ closed' \subseteq Begun
        /\ (\A j \in reads' : transfers[j].cmd = "Stor" /\ received[j] = <<>>) /\ \A j \in Writing' : transfers[j].cmd # "Stor"
    BY <1>1, <1>4, <1>14 DEF SetsFit
  <2>. QED
    BY <1>1, <1>14, <2>1, <2>2, SameAccepts, SetsKept
<1>17. SendersFit'
  <2>1. CASE ~ok
    <3>1. new = <<>>
        BY <1>8, <2>1
    <3>. QED
        BY <1>1, <1>3, <1>5, <1>12, <3>1, LastSender
  <2>2. CASE ok
    <3>1. Len(new) = 1 /\ new[1] = h
        BY <1>8, <2>2, Few
    <3>2. SenderFits(h, ftp_data_buffer_', strand', transfers', received', fin')
        BY <1>1, <1>6, <1>7, <1>9, <2>2 DEF SenderFits, Has
    <3>. QED
        BY <1>1, <1>3, <1>5, <1>12, <3>1, <3>2, LastSender
  <2>. QED
    BY <2>1, <2>2
<1>. QED
    BY <1>10, <1>13, <1>15, <1>16, <1>17 DEF Core

LEMMA WriteDoneKept ==
    ASSUME Core, WriteDone
    PROVE Core'
<1>1. PICK w \in writes, v \in {"ok", "failed"} :
        /\ writes' = writes \ {w}
        /\ Dispatch("written", w.id, v)
        /\ \/ v = "ok" /\ received' = [received EXCEPT ![w.id] = IF fin[w.id] = "reset" THEN @ ELSE @ \o w.data]
           \/ v = "failed" /\ received' = received
    BY DEF WriteDone
<1>. DEFINE i == w.id
            b == ftp_data_buffer_
            x == transfers[i].data
            h == Handler("written", i, v)
<1>2. /\ strand' = Append(strand, h)
      /\ UNCHANGED <<ftp_data_buffer_, ftp_data_socket_, reads, closed, file, final>>
      /\ UNCHANGED <<sent, fin, accepts, transfers>>
    BY <1>1 DEF WriteDone, KeepSession, Dispatch
<1>3. /\ TransfersTyped /\ TablesTyped /\ FilesFit /\ SetsFit /\ SendersFit /\ IsSeq(strand)
      /\ OneFinalReply /\ DownloadsArrive
    BY DEF Core, StrandFits
<1>4. /\ i \in Writing /\ i \in Begun /\ i \in Ids /\ final[i] = <<>>
      /\ i \notin Elements(accepts) \cup Handled \cup reads /\ transfers[i].cmd # "Stor"
  <2>1. i \in Writing
    BY DEF Writing
  <2>. QED
    BY <1>3, <2>1, Places DEF SetsFit
<1>5. /\ Chain = {} /\ writes' = {} /\ Writing' = {}
      /\ w.data = <<x>> /\ BeginsWith(b, strand, x) /\ Len(b) # 1 /\ received[i] = <<>>
  <2>1. \A u \in writes : u = w
    BY <1>3 DEF SendersFit
  <2>2. Chain = {} /\ WriteFits(w, b, strand, transfers, received)
    BY <1>3 DEF SendersFit
  <2>. QED
    BY <1>1, <2>1, <2>2 DEF WriteFits, Writing
<1>6. h.do = "written" /\ h.id = i /\ h.arg = v /\ Drives(h)
    BY Fields DEF Drives, EndsQueue
<1>7. <<>> \o <<x>> = <<x>> /\ <<x>> # <<>>
    BY Few
<1>. HIDE DEF i, b, x, h
<1>8. /\ DOMAIN received' = Ids
      /\ \A j \in Ids : j # i => received'[j] = received[j]
      /\ received'[i] \in {<<>>, <<x>>}
      /\ v = "ok" => received'[i] # <<>> \/ fin[i] = "reset"
  <2>1. DOMAIN received = Ids
    BY <1>3 DEF TablesTyped
  <2>2. CASE received' = received /\ v = "failed"
    BY <1>5, <2>1, <2>2
  <2>3. CASE received' = [received EXCEPT ![i] = IF fin[i] = "reset" THEN received[i] ELSE <<x>>]
    BY <1>4, <1>5, <1>7, <2>1, <2>3
  <2>4. w.id = i
    BY DEF i
  <2>5. received[i] \o w.data = <<x>>
    BY <1>5, <1>7
  <2>. QED
    BY <1>1, <2>2, <2>3, <2>4, <2>5
<1>9. TablesTyped'
    BY <1>2, <1>3, <1>8 DEF TablesTyped
<1>10. OneFinalReply' /\ DownloadsArrive'
  <2>1. OneFinalReply'
    BY <1>2, <1>3 DEF OneFinalReply
  <2>2. \A j \in 1 .. Len(transfers) : j \in Ids
    BY <1>3, IdsAre DEF Begun
  <2>3. final[i] # <<226>>
    BY <1>4, Few
  <2>4. \A j \in 1 .. Len(transfers) : transfers[j].cmd # "Stor" =>
           /\ received'[j] \in {<<>>, <<transfers[j].data>>}
           /\ final[j] = <<226>> /\ fin[j] # "reset" => received'[j] # <<>>
    BY <1>3, <1>8, <2>2, <2>3 DEF DownloadsArrive, x
  <2>. QED
    BY <1>2, <2>1, <2>4 DEF DownloadsArrive
<1>11. HandlerFits(h, transfers', file', sent', received')
    BY <1>2, <1>4, <1>6 DEF HandlerFits, Kinds, Uploading, Downloading, Begun
<1>12. Moves(0, <<h>>)
    BY <1>2, <1>3, Moving
<1>13. /\ TransfersTyped' /\ StrandFits' /\ QueuedInPairs' /\ FilesFit'
       /\ \A j, k \in Driving' : strand'[j].id = strand'[k].id => j = k
       /\ Handled' \subseteq Handled \cup {i}
  <2>1. UNCHANGED <<transfers, file, sent, fin>> /\ ftp_data_buffer_' = ftp_data_buffer_
    BY <1>2
  <2>2. \A j \in Handled \ Gone(0) : received'[j] = received[j]
    BY <1>4, <1>8, Places
  <2>3. /\ Apart(<<h>>) /\ Pairs(<<h>>) /\ NewIds(<<h>>) = {i}
        /\ \A m \in 1 .. Len(<<h>>) : HandlerFits(<<h>>[m], transfers', file', sent', received')
    BY <1>6, <1>11, OneNew
  <2>4. NewIds(<<h>>) \cap (Handled \ Gone(0)) = {}
    BY <1>4, <2>3
  <2>. DEFINE new == <<h>>
  <2>. HIDE DEF new
  <2>5. /\ TransfersTyped' /\ StrandFits' /\ QueuedInPairs' /\ FilesFit'
        /\ \A j, k \in Driving' : strand'[j].id = strand'[k].id => j = k
        /\ Handled' \subseteq (Handled \ Gone(0)) \cup NewIds(<<h>>)
    BY <1>9, <1>12, <2>1, <2>2, <2>3, <2>4, SendingKept
  <2>. QED
    BY <2>3, <2>5
<1>14. accepts' = accepts /\ reads' = reads /\ final' = final
    BY <1>2
<1>15. AtOnePlace'
  <2>1. OneMoves(i)
    BY <1>4, <1>5, <1>13, <1>14, SameAccepts DEF OneMoves
  <2>. QED
    BY <2>1, PlacesKept
<1>16. SetsFit'
  <2>1. Begun' = Begun /\ Begun \subseteq Ids /\ Begun = 1 .. Len(transfers) /\ Len(transfers) \in Nat
        /\ Elements(accepts) \subseteq Begun
    BY <1>2, <1>3, IdsAre, Places DEF Begun
  <2>2. \A j \in Elements(accepts) \cup reads : received'[j] = <<>>
    BY <1>3, <1>4, <1>8, <2>1 DEF SetsFit
  <2>3. \A j \in Ids : j > Len(transfers) => received'[j] = <<>> /\ final[j] = <<>>
    <3>1. \A j \in Ids : j > Len(transfers) => j \notin Begun
        BY <2>1
    <3>2. \A j \in Ids : j > Len(transfers) => received[j] = <<>> /\ final[j] = <<>>
        BY <1>3 DEF SetsFit
    <3>. QED
        BY <1>4, <1>8, <2>1, <3>1, <3>2
  <2>4. IsSeq(ftp_data_buffer_')
    BY <1>2, <1>3 DEF SetsFit, IsSeq, Elements
  <2>. QED
    BY <1>2, <1>3, <1>5, <2>1, <2>2, <2>3, <2>4 DEF SetsFit, Elements
<1>17. SendersFit'
  <2>1. SenderFits(h, ftp_data_buffer_', strand', transfers', received', fin')
    <3>1. BeginsWith(b, strand', x)
        BY <1>5 DEF BeginsWith
    <3>2. ftp_data_buffer_' = b /\ transfers'[h.id].data = x
        BY <1>2, <1>6 DEF b, x
    <3>. QED
        BY <1>2, <1>5, <1>6, <1>8, <3>1, <3>2 DEF SenderFits
  <2>2. Len(<<h>>) = 1 /\ <<h>>[1] = h
    BY Few
  <2>. QED
    BY <1>3, <1>5, <1>12, <2>1, <2>2, LastSender
<1>. QED
    BY <1>9, <1>10, <1>13, <1>15, <1>16, <1>17 DEF Core

(* The queue begins with what it began with, and has its end by then. *)
LEMMA BeginsAppended ==
    ASSUME NEW b, IsSeq(b), NEW q, NEW r, NEW x, BeginsWith(b, q, x), NEW y,
           EndsQueue(q[1]) => y = Null
    PROVE BeginsWith(Append(b, y), r, x) /\ Len(Append(b, y)) # 1
<1>1. /\ Len(Append(b, y)) = Len(b) + 1 /\ Len(b) \in Nat /\ IsSeq(Append(b, y))
      /\ \A k \in 1 .. Len(b) : Append(b, y)[k] = b[k]
      /\ Append(b, y)[Len(b) + 1] = y
    BY Appended
<1>2. Len(b) # 0 /\ b[1] = <<x>>
    BY SeqLen DEF BeginsWith
<1>. DEFINE c == Append(b, y)
<1>3. c[1] = <<x>> /\ Len(c) # 1 /\ Len(c) # 0
    BY <1>1, <1>2
<1>4. c[2] = Null
  <2>1. CASE Len(b) = 1
    <3>1. y = Null /\ 1 + 1 = 2
        BY <2>1 DEF BeginsWith
    <3>. QED
        BY <1>1, <2>1, <3>1
  <2>2. CASE Len(b) # 1
    <3>1. b[2] = Null
        BY <2>2 DEF BeginsWith
    <3>2. Len(b) \in Nat /\ Len(b) # 0
        BY <1>1, <1>2
    <3>. DEFINE m == Len(b)
    <3>3. m \in Nat /\ m # 0 /\ m # 1
        BY <2>2, <3>2
    <3>4. 2 \in 1 .. m
        <4>. HIDE DEF m
        <4>. QED
            BY <3>3
    <3>. QED
        BY <1>1, <3>1, <3>4
  <2>. QED
    BY <2>1, <2>2
<1>5. c # <<>>
    BY <1>3, Few
<1>. QED
    BY <1>3, <1>4, <1>5 DEF BeginsWith

LEMMA EnqueueKept ==
    ASSUME Core, Enqueue
    PROVE Core'
<1>. DEFINE i == First.id
            b == ftp_data_buffer_
            x == transfers[i].data
            y == First.arg
            h == Handler("send", i, Null)
            new == IF b = <<>> THEN <<h>> ELSE <<>>
<1>1. /\ strand # <<>> /\ First.do = "enqueue" /\ ThenPosts(new) /\ ftp_data_buffer_' = Append(b, y)
      /\ UNCHANGED <<ftp_data_socket_, reads, writes, closed, file, final>>
      /\ UNCHANGED <<sent, fin, received, accepts, transfers>>
    BY DEF Enqueue, Runs, KeepControl, client, accepting
<1>2. First.do \in Downloading /\ (Drives(First) <=> y # Null) /\ (EndsQueue(First) <=> y = Null)
      /\ (Queues(First) <=> y # Null)
    BY <1>1 DEF Drives, EndsQueue, Queues, Downloading
<1>3. /\ i \in Begun /\ i \in Ids /\ IsSeq(strand) /\ transfers[i].cmd # "Stor" /\ 1 \in 1 .. Len(strand)
      /\ y \in {<<x>>, Null} /\ Len(strand) \in Nat
      /\ y # Null => i \in Handled /\ Gone(1) = {i} /\ final[i] = <<>> /\ received[i] = <<>>
      /\ y = Null => Gone(1) = {}
    BY <1>1, <1>2, FirstFits DEF HandlerFits
<1>4. TransfersTyped /\ TablesTyped /\ FilesFit /\ SetsFit /\ SendersFit /\ QueuedInPairs /\ IsSeq(b)
    BY DEF Core, SetsFit
<1>5. /\ y = Null => b # <<>>
      /\ y # Null => 1 < Len(strand) /\ EndsQueue(strand[1 + 1])
    BY <1>2, <1>3, <1>4 DEF QueuedInPairs, First
<1>6. b = <<>> => Chain = {} /\ writes = {}
  <2>1. ASSUME NEW k \in Chain, b = <<>> PROVE FALSE
    <3>1. SenderFits(strand[k], b, strand, transfers, received, fin) /\ strand[k].do \in {"send", "written"}
        BY <1>4 DEF SendersFit, Chain
    <3>. QED
        BY <2>1, <3>1 DEF SenderFits, BeginsWith
  <2>2. ASSUME NEW w \in writes, b = <<>> PROVE FALSE
    BY <1>4, <2>2 DEF SendersFit, WriteFits, BeginsWith
  <2>. QED
    BY <2>1, <2>2
<1>7. /\ IsSeq(Append(b, y)) /\ Append(b, y) # <<>>
      /\ b # <<>> => Append(b, y)[1] = b[1]
      /\ b = <<>> => Len(Append(b, y)) = 1 /\ Append(b, y)[1] = y
  <2>1. /\ IsSeq(Append(b, y)) /\ Len(Append(b, y)) = Len(b) + 1 /\ Len(b) \in Nat
        /\ \A k \in 1 .. Len(b) : Append(b, y)[k] = b[k]
        /\ Append(b, y)[Len(b) + 1] = y
    BY <1>4, Appended
  <2>2. b = <<>> <=> Len(b) = 0
    BY <1>4, SeqLen
  <2>3. Append(b, y) # <<>>
    BY <2>1, Few
  <2>. QED
    BY <2>1, <2>2, <2>3
<1>8. h.do = "send" /\ h.id = i /\ Drives(h)
    BY Fields DEF Drives, EndsQueue
<1>. HIDE DEF i, b, x, y, h, new
<1>9. TablesTyped' /\ OneFinalReply' /\ DownloadsArrive'
    BY <1>1, <1>4, SameFinal DEF TablesTyped
<1>10. /\ IsSeq(new) /\ Apart(new) /\ Pairs(new)
       /\ NewIds(new) = IF b = <<>> THEN {i} ELSE {}
       /\ \A m \in 1 .. Len(new) : HandlerFits(new[m], transfers', file', sent', received')
  <2>1. CASE b # <<>>
    BY <2>1, NoneNew, Few DEF new
  <2>2. CASE b = <<>>
    <3>1. HandlerFits(h, transfers', file', sent', received')
        BY <1>1, <1>3, <1>8 DEF HandlerFits, Kinds, Uploading, Downloading, Begun
    <3>2. new = <<h>> /\ IsSeq(<<h>>)
        BY <2>2, Few DEF new
    <3>. QED
        BY <1>8, <2>2, <3>1, <3>2, OneNew
  <2>. QED
    BY <2>1, <2>2
<1>11. Moves(1, new)
    BY <1>1, <1>3, <1>10, Moving
<1>12. /\ TransfersTyped' /\ StrandFits' /\ QueuedInPairs' /\ FilesFit'
       /\ \A j, k \in Driving' : strand'[j].id = strand'[k].id => j = k
       /\ Handled' \subseteq Handled
  <2>1. UNCHANGED <<transfers, file, sent, fin>> /\ received' = received /\ ftp_data_buffer_' # <<>>
    BY <1>1, <1>7
  <2>2. NewIds(new) \cap (Handled \ Gone(1)) = {}
    BY <1>3, <1>5, <1>10
  <2>3. /\ TransfersTyped' /\ StrandFits' /\ QueuedInPairs' /\ FilesFit'
        /\ \A j, k \in Driving' : strand'[j].id = strand'[k].id => j = k
        /\ Handled' \subseteq (Handled \ Gone(1)) \cup NewIds(new)
    BY <1>9, <1>10, <1>11, <2>1, <2>2, SendingKept
  <2>. QED
    BY <1>3, <1>5, <1>10, <2>3
<1>13. accepts' = accepts /\ reads' = reads /\ Writing' = Writing /\ final' = final
    BY <1>1 DEF Writing
<1>14. AtOnePlace'
  <2>1. 0 \notin Elements(accepts) \cup Handled \cup reads \cup Writing
    BY IdsAre, <1>4, Places
  <2>2. OneMoves(0)
    BY <1>12, <1>13, <2>1, SameAccepts DEF OneMoves
  <2>. QED
    BY <2>2, PlacesKept
<1>15. SetsFit'
  <2>1. IsSeq(ftp_data_buffer_')
    BY <1>1, <1>7
  <2>2. reads' \subseteq Begun /\ Writing' \subseteq Begun /\ closed' \subseteq Begun
        /\ (\A j \in reads' : transfers[j].cmd = "Stor" /\ received[j] = <<>>) /\ \A j \in Writing' : transfers[j].cmd # "Stor"
    BY <1>1, <1>4, <1>13 DEF SetsFit
  <2>. QED
    BY <1>1, <1>13, <2>1, <2>2, SameAccepts, SetsKept
<1>16. SendersFit'
  <2>1. CASE b = <<>>
    <3>1. Len(new) = 1 /\ new[1] = h
        BY <2>1, Few DEF new
    <3>2. y = <<x>> /\ y # Null /\ received[i] = <<>>
        BY <1>3, <1>5, <2>1
    <3>3. strand' # <<>> /\ strand'[1] = strand[1 + 1]
        <4>1. LET n == Len(strand) - 1
              IN /\ Len(strand') = n + Len(new) /\ Len(new) \in Nat /\ n \in Nat
                 /\ \A k \in 1 .. n : strand'[k] = strand[k + 1]
            BY <1>3, <1>11, Positions DEF Shifted
        <4>2. 1 \in 1 .. Len(strand) - 1
            BY <1>3, <1>5, <3>2
        <4>3. Len(strand') # 0
            BY <3>1, <4>1
        <4>. QED
            BY <4>1, <4>2, <4>3, Few
    <3>4. BeginsWith(Append(b, y), strand', x)
        BY <1>5, <1>7, <2>1, <3>2, <3>3 DEF BeginsWith
    <3>5. SenderFits(h, ftp_data_buffer_', strand', transfers', received', fin')
        BY <1>1, <1>8, <3>2, <3>4 DEF SenderFits, x
    <3>6. Chain = {} /\ writes' = {}
        BY <1>1, <1>6, <2>1
    <3>. QED
        BY <1>3, <1>11, <3>1, <3>5, <3>6, LastSender
  <2>2. CASE b # <<>>
    <3>1. Moves(1, <<>>)
        BY <1>11, <2>2 DEF new
    <3>2. /\ \A k \in Chain' : k + 1 \in Chain /\ strand'[k] = strand[k + 1]
          /\ \A k \in Chain' : k \in Nat
        BY <1>3, <3>1, ChainMoves, NoneNew
    <3>3. ASSUME NEW z, BeginsWith(b, strand, z)
          PROVE BeginsWith(ftp_data_buffer_', strand', z) /\ Len(ftp_data_buffer_') # 1
        <4>1. EndsQueue(strand[1]) => y = Null
            BY <1>2 DEF First
        <4>2. BeginsWith(Append(b, y), strand', z) /\ Len(Append(b, y)) # 1
            BY <1>4, <3>3, <4>1, BeginsAppended
        <4>. QED
            BY <1>1, <4>2
    <3>4. ftp_data_buffer_' # <<>> /\ ftp_data_buffer_'[1] = b[1]
        BY <1>1, <1>7, <2>2
    <3>5. /\ \A j, k \in Chain : j = k
          /\ \A v, w \in writes : v = w
          /\ Chain # {} => writes = {}
          /\ \A k \in Chain : SenderFits(strand[k], b, strand, transfers, received, fin)
          /\ \A w \in writes : WriteFits(w, b, strand, transfers, received)
        BY <1>4 DEF SendersFit, b
    <3>6. ASSUME NEW k \in Chain'
          PROVE SenderFits(strand'[k], ftp_data_buffer_', strand', transfers', received', fin')
        <4>. DEFINE g == strand'[k]
        <4>1. SenderFits(g, b, strand, transfers, received, fin)
            BY <3>2, <3>5
        <4>2. SenderFits(g, ftp_data_buffer_', strand', transfers, received, fin)
            <5>. HIDE DEF g
            <5>. QED
                BY <3>3, <3>4, <4>1 DEF SenderFits
        <4>. QED
            BY <1>1, <4>2
    <3>7. \A w \in writes' : WriteFits(w, ftp_data_buffer_', strand', transfers', received')
        BY <1>1, <3>3, <3>5 DEF WriteFits
    <3>8. \A j, k \in Chain' : j = k
        <4>. TAKE j, k \in Chain'
        <4>1. j + 1 = k + 1 /\ j \in Nat /\ k \in Nat
            BY <3>2, <3>5
        <4>. QED
            BY <4>1
    <3>9. Chain' # {} => writes' = {}
        BY <1>1, <3>2, <3>5
    <3>. QED
        BY <1>1, <3>5, <3>6, <3>7, <3>8, <3>9 DEF SendersFit
  <2>. QED
    BY <2>1, <2>2
<1>. QED
    BY <1>9, <1>12, <1>14, <1>15, <1>16 DEF Core

-------------------------------------------------------------------------------
(* The commands that begin a transfer, and those that cancel accepts. *)
LEMMA Empties == Elements(<<>>) = {} /\ \A j, k \in 1 .. Len(<<>>) : <<>>[j] = <<>>[k] => j = k
BY NoneNew DEF Elements

LEMMA StartsKept ==
    ASSUME Core, Starts, UNCHANGED <<sent, fin, received, streams>>
    PROVE Core'
<1>1. PICK t : Begins150(t)
    BY DEF Starts
<1>. DEFINE n == Len(transfers)
            i == n + 1
            h == Handler("aborted", i, Null)
<1>2. /\ n \in Nat /\ n < MaxTransfers /\ MaxTransfers \in Nat /\ i \in Nat
      /\ transfers' = Append(transfers, t)
      /\ UNCHANGED <<ftp_data_buffer_, ftp_data_socket_, reads, writes, closed, file, final, sent, fin, received>>
      /\ \/ accepts' = Append(accepts, i) /\ strand' = strand
         \/ accepts' = accepts /\ strand' = Append(strand, h)
    BY <1>1, IdsAre DEF Begins150, streams, Core
<1>3. TransfersTyped /\ TablesTyped /\ FilesFit /\ SetsFit /\ IsSeq(strand) /\ OneFinalReply /\ DownloadsArrive
      /\ IsSeq(transfers) /\ Begun = 1 .. n /\ Begun \subseteq Ids /\ accepts \in Seq(Begun) /\ IsSeq(accepts)
    BY Places DEF Core, StrandFits, TransfersTyped, Begun, SetsFit
<1>4. /\ IsSeq(transfers') /\ Len(transfers') = n + 1
      /\ \A j \in Begun : transfers'[j] = transfers[j]
    BY <1>2, <1>3, Appended
<1>5. h.do = "aborted" /\ h.id = i /\ Drives(h)
    BY Fields DEF Drives, EndsQueue
<1>. HIDE DEF n, i, h
<1>6. /\ Begun' = Begun \cup {i} /\ i \notin Begun /\ i \in Ids /\ n < i
      /\ \A j \in Ids : j > n + 1 => j > n
    BY <1>2, <1>3, <1>4, IdsAre DEF Begun, i, n
<1>7. received[i] = <<>> /\ final[i] = <<>>
    BY <1>3, <1>6 DEF SetsFit, n
<1>8. i \notin Elements(accepts) \cup Handled \cup reads \cup Writing
    BY <1>6, Places
<1>9. /\ TransfersTyped' /\ TablesTyped' /\ FilesFit' /\ Grown
      /\ \A j \in Ids : sent[j] <= sent'[j] /\ (fin[j] = "reset" => fin'[j] = "reset")
  <2>1. Len(transfers') \in 0 .. MaxTransfers
    BY <1>2, <1>4
  <2>2. TransfersTyped'
    BY <1>4, <2>1 DEF TransfersTyped, IsSeq, Elements
  <2>3. Len(transfers) <= Len(transfers')
    BY <1>2, <1>4 DEF n
  <2>4. Grown
    BY <1>4, <2>2, <2>3 DEF Grown
  <2>5. TablesTyped' /\ FilesFit'
    BY <1>2, <1>3 DEF TablesTyped, FilesFit
  <2>6. \A j \in Ids : sent[j] <= sent'[j] /\ (fin[j] = "reset" => fin'[j] = "reset")
    BY <1>2, <1>3, IdsAre DEF TablesTyped
  <2>. QED
    BY <2>2, <2>4, <2>5, <2>6
<1>10. OneFinalReply' /\ DownloadsArrive'
  <2>1. OneFinalReply'
    BY <1>2, <1>3 DEF OneFinalReply
  <2>2. \A j \in 1 .. Len(transfers') : j \in Begun \/ j = i
    BY <1>6 DEF Begun
  <2>3. final[i] # <<226>>
    BY <1>7, Few
  <2>4. \A j \in 1 .. Len(transfers') : transfers'[j].cmd # "Stor" =>
           /\ received[j] \in {<<>>, <<transfers'[j].data>>}
           /\ final[j] = <<226>> /\ fin[j] # "reset" => received[j] # <<>>
    <3>. SUFFICES ASSUME NEW j \in 1 .. Len(transfers'), transfers'[j].cmd # "Stor"
                  PROVE /\ received[j] \in {<<>>, <<transfers'[j].data>>}
                        /\ final[j] = <<226>> /\ fin[j] # "reset" => received[j] # <<>>
        OBVIOUS
    <3>1. CASE j = i
        BY <1>7, <2>3, <3>1
    <3>2. CASE j \in Begun
        BY <1>3, <1>4, <3>2 DEF DownloadsArrive, Begun
    <3>. QED
        BY <2>2, <3>1, <3>2
  <2>. QED
    BY <1>2, <2>1, <2>4 DEF DownloadsArrive
<1>11. FileGrows(0) /\ UNCHANGED <<ftp_data_buffer_, writes, received>>
    BY <1>2 DEF FileGrows
<1>12. /\ StrandFits' /\ QueuedInPairs' /\ SendersFit'
       /\ \A j, m \in Driving' : strand'[j].id = strand'[m].id => j = m
       /\ IF strand' = strand THEN Handled' \subseteq Handled ELSE Handled' \subseteq Handled \cup {i}
  <2>1. CASE strand' = strand
    <3>1. Moves(0, <<>>)
        BY <1>3, <2>1, Moving
    <3>2. \A m \in 1 .. Len(<<>>) : HandlerFits(<<>>[m], transfers', file', sent', received') /\ <<>>[m].do \notin {"send", "written"}
        BY NoneNew
    <3>3. /\ StrandFits' /\ QueuedInPairs' /\ SendersFit'
          /\ \A j, m \in Driving' : strand'[j].id = strand'[m].id => j = m
          /\ Handled' \subseteq (Handled \ Gone(0)) \cup NewIds(<<>>)
        BY <1>9, <1>11, <3>1, <3>2, NoneNew, OrdinaryKept
    <3>. QED
        BY <2>1, <3>3, NoneNew
  <2>2. CASE strand' # strand
    <3>1. Moves(0, <<h>>)
        BY <1>2, <1>3, <2>2, Moving
    <3>2. HandlerFits(h, transfers', file', sent', received')
        BY <1>2, <1>5, <1>6, <1>7 DEF HandlerFits, Kinds, Uploading, Downloading, Begun
    <3>3. Apart(<<h>>) /\ Pairs(<<h>>) /\ NewIds(<<h>>) = {i}
        BY <1>5, OneNew
    <3>4. \A m \in 1 .. Len(<<h>>) : /\ HandlerFits(<<h>>[m], transfers', file', sent', received')
                                     /\ <<h>>[m].do \notin {"send", "written"}
        BY <1>5, <3>2, OneNew
    <3>5. NewIds(<<h>>) \cap (Handled \ Gone(0)) = {}
        BY <1>8, <3>3
    <3>6. /\ StrandFits' /\ QueuedInPairs' /\ SendersFit'
          /\ \A j, m \in Driving' : strand'[j].id = strand'[m].id => j = m
          /\ Handled' \subseteq (Handled \ Gone(0)) \cup NewIds(<<h>>)
        BY <1>9, <1>11, <3>1, <3>3, <3>4, <3>5, OrdinaryKept
    <3>. QED
        BY <2>2, <3>3, <3>6
  <2>. QED
    BY <2>1, <2>2
<1>13. /\ accepts' \in Seq(Begun') /\ IsSeq(accepts')
       /\ \A j, m \in 1 .. Len(accepts') : accepts'[j] = accepts'[m] => j = m
       /\ \/ Elements(accepts') \subseteq Elements(accepts)
          \/ strand' = strand /\ Elements(accepts') \subseteq Elements(accepts) \cup {i}
  <2>1. accepts \in Seq(Begun')
    BY <1>3, <1>6, Wider
  <2>2. CASE accepts' = accepts
    BY <1>3, <2>1, <2>2, SameAccepts
  <2>3. CASE accepts' = Append(accepts, i) /\ strand' = strand
    <3>1. /\ IsSeq(accepts') /\ Len(accepts') = Len(accepts) + 1 /\ Len(accepts) \in Nat
          /\ \A k \in 1 .. Len(accepts) : accepts'[k] = accepts[k]
          /\ accepts'[Len(accepts) + 1] = i
        BY <1>3, <2>3, Appended
    <3>2. accepts' \in Seq(Begun')
        BY <1>6, <2>1, <2>3, AppendProperties
    <3>3. \A k \in 1 .. Len(accepts) : accepts[k] # i
        BY <1>8 DEF Elements
    <3>4. \A j, m \in 1 .. Len(accepts) : accepts[j] = accepts[m] => j = m
        BY Places
    <3>5. \A k \in 1 .. Len(accepts') : k \in 1 .. Len(accepts) \/ k = Len(accepts) + 1
        BY <3>1
    <3>6. \A j, m \in 1 .. Len(accepts') : accepts'[j] = accepts'[m] => j = m
        BY <3>1, <3>3, <3>4, <3>5
    <3>7. Elements(accepts') \subseteq Elements(accepts) \cup {i}
        BY <3>1, <3>5 DEF Elements
    <3>. QED
        BY <2>3, <3>1, <3>2, <3>6, <3>7
  <2>. QED
    BY <1>2, <2>2, <2>3
<1>14. reads' = reads /\ Writing' = Writing /\ final' = final
    BY <1>2 DEF Writing
<1>15. AtOnePlace'
  <2>1. \/ Elements(accepts') \subseteq Elements(accepts) /\ Handled' \subseteq Handled \cup {i}
        \/ Handled' \subseteq Handled /\ Elements(accepts') \subseteq Elements(accepts) \cup {i}
    BY <1>12, <1>13
  <2>2. /\ Elements(accepts') \subseteq Elements(accepts) \cup {i} /\ Handled' \subseteq Handled \cup {i}
        /\ i \in Elements(accepts') => i \notin Handled'
    BY <1>8, <2>1
  <2>3. OneMoves(i)
    BY <1>7, <1>8, <1>12, <1>13, <1>14, <2>2 DEF OneMoves
  <2>. QED
    BY <2>3, PlacesKept
<1>16. SetsFit'
  <2>1. \A j \in Elements(accepts') : received[j] = <<>>
    BY <1>3, <1>7, <1>13 DEF SetsFit
  <2>2. ftp_data_socket_' \in 0 .. Len(transfers')
    BY <1>2, <1>3, <1>4 DEF SetsFit, n
  <2>3. reads' \subseteq Begun' /\ closed' \subseteq Begun' /\ Writing' \subseteq Begun'
    BY <1>2, <1>3, <1>6, <1>14 DEF SetsFit
  <2>4. /\ \A j \in reads' : transfers'[j].cmd = "Stor" /\ received'[j] = <<>>
        /\ \A j \in Writing' : transfers'[j].cmd # "Stor"
    BY <1>2, <1>3, <1>4, <1>14 DEF SetsFit
  <2>5. \A j \in Ids : j > Len(transfers') => received'[j] = <<>> /\ final'[j] = <<>>
    BY <1>2, <1>3, <1>4, <1>6 DEF SetsFit, n
  <2>6. IsSeq(ftp_data_buffer_')
    BY <1>2, <1>3 DEF SetsFit, IsSeq, Elements
  <2>. QED
    BY <1>2, <1>13, <2>1, <2>2, <2>3, <2>4, <2>5, <2>6 DEF SetsFit
<1>. QED
    BY <1>9, <1>10, <1>12, <1>15, <1>16 DEF Core

LEMMA CancelledIs ==
    ASSUME Core
    PROVE /\ IsSeq(Cancelled) /\ Len(Cancelled) = Len(accepts) /\ Len(accepts) \in Nat
          /\ \A k \in 1 .. Len(accepts) : /\ Cancelled[k].do = "aborted" /\ Cancelled[k].id = accepts[k]
                                          /\ accepts[k] \in Elements(accepts)
<1>1. Len(accepts) \in Nat
    BY Places, SeqLen
<1>. DEFINE T == {Cancelled[k] : k \in 1 .. Len(accepts)}
<1>2. Cancelled \in [1 .. Len(accepts) -> T] /\ \A k \in 1 .. Len(accepts) : Cancelled[k] = Handler("aborted", accepts[k], Null)
    BY DEF Cancelled
<1>. HIDE DEF T
<1>3. Cancelled \in Seq(T)
    BY <1>1, <1>2, SeqDef
<1>4. IsSeq(Cancelled) /\ Len(Cancelled) = Len(accepts)
    BY <1>1, <1>2, <1>3, SeqIs, LenProperties
<1>. QED
    BY <1>1, <1>2, <1>4, Fields DEF Elements

LEMMA CancelsKept ==
    ASSUME Core, Cancels, UNCHANGED <<sent, fin, received, streams, transfers>>
    PROVE Core'
<1>. DEFINE e == Handler("close", 0, Null)
<1>1. PICK tail \in {<<>>, <<e>>} : strand' = strand \o (Cancelled \o tail)
  <2>1. IsSeq(strand) /\ IsSeq(Cancelled) /\ IsSeq(<<e>>)
    BY CancelledIs, Few DEF Core, StrandFits
  <2>2. Cancelled \o <<>> = Cancelled
    BY <2>1, ConcatEmptySeq DEF IsSeq
  <2>3. (strand \o Cancelled) \o <<e>> = strand \o (Cancelled \o <<e>>)
    <3>. DEFINE S == Elements(strand) \cup Elements(Cancelled) \cup Elements(<<e>>)
    <3>1. strand \in Seq(S) /\ Cancelled \in Seq(S) /\ <<e>> \in Seq(S)
        BY <2>1, Wider DEF IsSeq
    <3>. HIDE DEF S, e
    <3>. QED
        BY <3>1, ConcatAssociative
  <2>. HIDE DEF e
  <2>4. strand' = strand \o Cancelled \/ strand' = (strand \o Cancelled) \o <<e>>
    BY DEF Cancels, e
  <2>. QED
    BY <2>2, <2>3, <2>4
<1>. DEFINE new == Cancelled \o tail
            n == Len(accepts)
<1>2. /\ UNCHANGED <<ftp_data_buffer_, ftp_data_socket_, reads, writes, closed, file, final>>
      /\ accepts' = <<>>
    BY DEF Cancels, streams
<1>3. TransfersTyped /\ TablesTyped /\ FilesFit /\ SetsFit /\ IsSeq(strand)
    BY DEF Core, StrandFits
<1>4. /\ IsSeq(Cancelled) /\ Len(Cancelled) = n /\ n \in Nat
      /\ \A k \in 1 .. n : /\ Cancelled[k].do = "aborted" /\ Cancelled[k].id = accepts[k]
                           /\ accepts[k] \in Elements(accepts)
    BY CancelledIs
<1>5. IsSeq(tail) /\ Len(tail) \in {0, 1} /\ (Len(tail) = 1 => tail[1] = e)
    BY Few
<1>6. e.do = "close" /\ e.id = 0 /\ ~Drives(e)
    BY Fields DEF Drives
<1>. HIDE DEF e, new, n
<1>7. /\ IsSeq(new) /\ Len(new) = n + Len(tail)
      /\ \A k \in 1 .. Len(new) : \/ k \in 1 .. n /\ new[k] = Cancelled[k]
                                  \/ new[k] = e
  <2>0. IsSeq(Cancelled) /\ IsSeq(tail)
    BY <1>4, <1>5
  <2>1. /\ IsSeq(new) /\ Len(new) = Len(Cancelled) + Len(tail)
        /\ \A j \in 1 .. Len(Cancelled) : new[j] = Cancelled[j]
        /\ \A j \in 1 .. Len(tail) : new[Len(Cancelled) + j] = tail[j]
    BY <2>0, Joined DEF new
  <2>2. ASSUME NEW k \in 1 .. Len(new), k \notin 1 .. n PROVE new[k] = e
    <3>1. Len(tail) = 1 /\ k = n + 1 /\ 1 \in 1 .. Len(tail)
        BY <1>4, <1>5, <2>1, <2>2
    <3>2. new[n + 1] = tail[1]
        BY <1>4, <2>1, <3>1
    <3>. QED
        BY <1>5, <3>1, <3>2
  <2>. QED
    BY <1>4, <2>1, <2>2
<1>8. \A k \in 1 .. Len(new) : /\ new[k].do \in {"aborted", "close"}
                               /\ Drives(new[k]) => k \in 1 .. n /\ new[k].id = accepts[k]
    BY <1>4, <1>6, <1>7
<1>9. /\ Apart(new) /\ Pairs(new) /\ NewIds(new) \subseteq Elements(accepts)
  <2>1. \A j, k \in 1 .. n : accepts[j] = accepts[k] => j = k
    BY Places DEF n
  <2>2. Apart(new)
    BY <1>8, <2>1 DEF Apart
  <2>3. Pairs(new)
    BY <1>8 DEF Pairs, EndsQueue, Queues
  <2>4. NewIds(new) \subseteq Elements(accepts)
    BY <1>4, <1>8 DEF NewIds
  <2>. QED
    BY <2>2, <2>3, <2>4
<1>10. /\ TransfersTyped' /\ Grown /\ TablesTyped' /\ FilesFit'
       /\ \A j \in Ids : sent[j] <= sent'[j] /\ (fin[j] = "reset" => fin'[j] = "reset")
    BY <1>2, <1>3, SameTables DEF TablesTyped, FilesFit
<1>11. OneFinalReply' /\ DownloadsArrive'
    BY <1>2, SameFinal
<1>12. \A m \in 1 .. Len(new) : /\ HandlerFits(new[m], transfers', file', sent', received')
                                /\ new[m].do \notin {"send", "written"}
  <2>1. HandlerFits(e, transfers', file', sent', received')
    BY <1>6 DEF HandlerFits, Kinds, Uploading, Downloading
  <2>2. ASSUME NEW k \in 1 .. n PROVE HandlerFits(Cancelled[k], transfers', file', sent', received')
    <3>1. accepts[k] \in Begun /\ received[accepts[k]] = <<>>
        BY <1>3, <1>4, Places DEF SetsFit
    <3>2. Cancelled[k].do = "aborted" /\ Cancelled[k].id = accepts[k]
        BY <1>4
    <3>. QED
        BY <3>1, <3>2 DEF HandlerFits, Kinds, Uploading, Downloading, Begun
  <2>. QED
    BY <1>7, <1>8, <2>1, <2>2
<1>13. /\ StrandFits' /\ QueuedInPairs' /\ SendersFit'
       /\ \A j, m \in Driving' : strand'[j].id = strand'[m].id => j = m
       /\ Handled' \subseteq (Handled \ Gone(0)) \cup NewIds(new)
  <2>1. Moves(0, new)
    BY <1>1, <1>3, <1>7, Moving DEF new
  <2>2. FileGrows(0) /\ UNCHANGED <<ftp_data_buffer_, writes, received>>
    BY <1>2 DEF FileGrows
  <2>3. NewIds(new) \cap (Handled \ Gone(0)) = {}
    BY <1>9, Places
  <2>. QED
    BY <1>9, <1>10, <1>12, <2>1, <2>2, <2>3, OrdinaryKept
<1>14. reads' = reads /\ Writing' = Writing /\ final' = final /\ accepts' = <<>>
    BY <1>2 DEF Writing
<1>15. AtOnePlace'
  <2>. DEFINE H == Handled \cup Elements(accepts)
  <2>1. Elements(accepts') = {} /\ Handled' \subseteq H
    BY <1>9, <1>13, <1>14, Empties
  <2>2. H \cap (reads \cup Writing) = {} /\ reads \cap Writing = {}
        /\ \A j \in H \cup reads \cup Writing : final[j] = <<>>
    BY Places
  <2>3. \A j, k \in 1 .. Len(accepts') : accepts'[j] = accepts'[k] => j = k
    BY <1>14, Empties
  <2>. HIDE DEF H
  <2>4. /\ Elements(accepts') \cap (Handled' \cup reads' \cup Writing') = {}
        /\ Handled' \cap (reads' \cup Writing') = {}
        /\ reads' \cap Writing' = {}
    BY <1>14, <2>1, <2>2
  <2>5. \A j \in Elements(accepts') \cup Handled' \cup reads' \cup Writing' : final'[j] = <<>>
    BY <1>14, <2>1, <2>2
  <2>. QED
    BY <1>13, <2>3, <2>4, <2>5 DEF AtOnePlace
<1>16. SetsFit'
  <2>1. IsSeq(ftp_data_buffer_') /\ reads' \subseteq Begun /\ Writing' \subseteq Begun /\ closed' \subseteq Begun
        /\ (\A j \in reads' : transfers[j].cmd = "Stor" /\ received[j] = <<>>) /\ \A j \in Writing' : transfers[j].cmd # "Stor"
    BY <1>2, <1>3, <1>14 DEF SetsFit, IsSeq, Elements
  <2>2. accepts' \in Seq(Begun) /\ Elements(accepts') \subseteq Elements(accepts)
    BY <1>14, Empties, EmptySeq
  <2>. QED
    BY <1>2, <1>14, <2>1, <2>2, SetsKept
<1>. QED
    BY <1>10, <1>11, <1>13, <1>15, <1>16 DEF Core

-------------------------------------------------------------------------------
(* The invariant. *)
LEMMA CoreKept ==
    ASSUME Core, Next
    PROVE Core'
<1>1. CASE Command
  <2>1. /\ UNCHANGED <<client, streams>>
        /\ KeepTransfers \/ Starts \/ CancelsOnly
    BY <1>1, CommandDoes
  <2>2. UNCHANGED <<sent, fin, received, streams>>
    BY <2>1 DEF client
  <2>3. CASE KeepTransfers
    <3>1. UNCHANGED <<sent, fin, received, accepts, strand, streams, transfers>>
        BY <2>2, <2>3 DEF KeepTransfers, accepting
    <3>. QED
        BY <3>1, QuietKept
  <2>4. CASE Starts
    BY <2>2, <2>4, StartsKept
  <2>5. CASE CancelsOnly
    <3>1. UNCHANGED <<sent, fin, received, streams, transfers>> /\ Cancels
        BY <2>2, <2>5 DEF CancelsOnly
    <3>. QED
        BY <3>1, CancelsKept
  <2>. QED
    BY <2>1, <2>3, <2>4, <2>5
<1>2. CASE Leave \/ Connect \/ Elsewhere
  <2>1. UNCHANGED <<sent, fin, received, accepts, strand, streams, transfers>>
    BY <1>2 DEF Leave, Connect, Elsewhere, KeepSession, client, streams, accepting
  <2>. QED
    BY <2>1, QuietKept
<1>3. CASE ReceiveFails
  <2>1. Cancels
    BY <1>3 DEF ReceiveFails, Cancels
  <2>2. UNCHANGED <<sent, fin, received, streams, transfers>>
    BY <1>3 DEF ReceiveFails, client
  <2>. QED
    BY <2>1, <2>2, CancelsKept
<1>4. CASE DataStrand
    BY <1>4, AbortedKept, AcceptedKept, EnqueueKept, SendKept, WrittenKept, ReadKept, SaveKept, CloseKept DEF DataStrand
<1>5. CASE Network
    BY <1>2, <1>5, AcceptKept, WriteDoneKept, ReadDoneKept DEF Network
<1>6. ASSUME NEW i \in Ids, ClientSends(i) \/ ClientEnds(i) \/ ClientResets(i) PROVE Core'
    BY <1>6, ClientKept
<1>. QED
    BY <1>1, <1>2, <1>3, <1>4, <1>5, <1>6 DEF Next

LEMMA InitIInv == Init => IInv
<1>. SUFFICES ASSUME Init PROVE Registers /\ Ports /\ Core
    BY IInvIs
<1>1. Registers /\ Ports
  <2>1. /\ last_ftp_command_ = "Unrecognized" /\ last_username_ = Nobody /\ logged_in_user_ = Nobody
        /\ commands = 0 /\ eof = FALSE
        /\ acceptor = "closed" /\ accepts = <<>> /\ backlog = 0
    BY DEF Init
  <2>2. 0 \in 0 .. MaxCommands /\ 0 \in 0 .. MaxBacklog
    BY BoundsAssumption
  <2>3. Registers
    BY <2>1, <2>2 DEF Registers, LoginIsVerified, LoggedIn
  <2>4. Ports
    BY <2>1, <2>2 DEF Ports, AcceptsHaveAPort
  <2>. QED
    BY <2>3, <2>4
<1>2. /\ accepts = <<>> /\ strand = <<>> /\ ftp_data_buffer_ = <<>> /\ transfers = <<>>
      /\ reads = {} /\ writes = {} /\ closed = {} /\ ftp_data_socket_ = 0
      /\ file = [i \in Ids |-> <<>>] /\ final = [i \in Ids |-> <<>>] /\ received = [i \in Ids |-> <<>>]
      /\ sent = [i \in Ids |-> 0] /\ fin = [i \in Ids |-> "open"]
    BY DEF Init
<1>3. /\ IsSeq(<<>>) /\ Len(<<>>) = 0 /\ Elements(<<>>) = {}
      /\ \A S : <<>> \in Seq(S)
    BY Few, Empties, EmptySeq
<1>4. TransfersTyped /\ TablesTyped /\ FilesFit
  <2>1. TransfersTyped
    BY <1>2, <1>3, IdsAre DEF TransfersTyped
  <2>2. TablesTyped
    BY <1>2, <1>3, IdsAre DEF TablesTyped
  <2>3. FilesFit
    BY <1>2, <1>3 DEF FilesFit, Prefixed
  <2>. QED
    BY <2>1, <2>2, <2>3
<1>5. Driving = {} /\ Handled = {} /\ Chain = {} /\ Writing = {}
    BY <1>2, <1>3 DEF Driving, Handled, Chain, Writing
<1>6. StrandFits /\ QueuedInPairs /\ SendersFit
    BY <1>2, <1>3, <1>5 DEF StrandFits, QueuedInPairs, SendersFit
<1>7. AtOnePlace
    BY <1>2, <1>3, <1>5, Empties DEF AtOnePlace
<1>8. SetsFit
    BY <1>2, <1>3, <1>5 DEF SetsFit
<1>9. OneFinalReply /\ DownloadsArrive
    BY <1>2, <1>3 DEF OneFinalReply, DownloadsArrive
<1>. QED
    BY <1>1, <1>4, <1>6, <1>7, <1>8, <1>9 DEF Core

LEMMA NextIInv == IInv /\ Next => IInv'
<1>. SUFFICES ASSUME IInv, Next PROVE Registers' /\ Ports' /\ Core'
    BY IInvNext
<1>1. Registers /\ Ports /\ Core
    BY IInvIs
<1>2. IsSeq(accepts)
    BY <1>1, Places
<1>. QED
    BY <1>1, <1>2, RegistersKept, PortsKept, CoreKept

LEMMA StutterIInv == IInv /\ UNCHANGED vars => IInv'
<1>. SUFFICES ASSUME IInv, UNCHANGED vars PROVE Registers' /\ Ports' /\ Core'
    BY IInvNext
<1>1. Registers /\ Ports /\ Core
    BY IInvIs
<1>2. Registers' /\ Ports'
    BY <1>1 DEF vars, login, client, accepting, Registers, Ports, LoginIsVerified, LoggedIn, AcceptsHaveAPort
<1>3. UNCHANGED <<sent, fin, received, accepts, strand, streams, transfers>>
    BY DEF vars, client, accepting
<1>. QED
    BY <1>1, <1>2, <1>3, QuietKept

(* Every reachable state has the invariant. *)
THEOREM Invariance == Spec => []IInv
<1>1. IInv /\ [Next]_vars => IInv'
    BY NextIInv, StutterIInv
<1>. QED
    BY InitIInv, <1>1, PTL DEF Spec

(* Every variable keeps to its values; nothing is pending or open for a    *)
(* transfer that was not begun; what is received of an upload is the       *)
(* beginning of it, each byte once and in its place.                       *)
THEOREM Types == Spec => []TypeOK
<1>1. IInv => TypeOK
    BY DEF IInv
<1>. QED
    BY Invariance, <1>1, PTL

(* No sequence of USER, PASS, QUIT and rejected commands leaves an earlier *)
(* login, or one that was not verified.                                    *)
THEOREM LoginsAreVerified == Spec => []LoginIsVerified
<1>1. IInv => LoginIsVerified
    BY DEF IInv
<1>. QED
    BY Invariance, <1>1, PTL

(* A transfer has one final reply. *)
THEOREM RepliedOnce == Spec => []OneFinalReply
<1>1. IInv => OneFinalReply
    BY DEF IInv
<1>. QED
    BY Invariance, <1>1, PTL

(* A download's connection brings that download's data and nothing else,   *)
(* and all of it when 226 acknowledges it.                                 *)
THEOREM DownloadsAreWhole == Spec => []DownloadsArrive
<1>1. IInv => DownloadsArrive
    BY DEF IInv
<1>. QED
    BY Invariance, <1>1, PTL

(* A file that appears is the beginning of one upload to that path: never  *)
(* of two, never out of order.                                             *)
THEOREM FilesAreUploads == Spec => StoredFilesAreUploads
<1>. DEFINE Uploaded == \A p \in DOMAIN fs' \ DOMAIN fs :
                fs'[p] = OtherFile \/
                \E i \in 1 .. Len(transfers) : transfers[i].path = p /\ IsPrefix(fs'[p], Upload(i))
<1>1. IInv /\ Next => Uploaded
  <2>. SUFFICES ASSUME IInv, Next, NEW p \in DOMAIN fs', p \notin DOMAIN fs
                PROVE fs'[p] = OtherFile \/
                      \E i \in 1 .. Len(transfers) : transfers[i].path = p /\ IsPrefix(fs'[p], Upload(i))
    OBVIOUS
  <2>1. ASSUME NEW q, NEW f, add(q, f) PROVE p = q /\ fs'[p] = f
    BY <2>1 DEF add
  <2>2. ~(fs' = fs) /\ ~\E q : remove(q)
    BY DEF remove
  <2>3. CASE \E q : add(q, OtherFile)
    BY <2>1, <2>3
  <2>4. CASE Save
    <3>. DEFINE i == First.id
    <3>1. strand # <<>> /\ First.do = "save" /\ add(transfers[i].path, file[i])
        BY <2>4 DEF Save, Runs
    <3>2. i \in Begun /\ i \in Ids
        BY <3>1, IInvIs, FirstFits
    <3>3. IsPrefix(file[i], Upload(i))
        BY <3>2 DEF IInv, TypeOK
    <3>4. p = transfers[i].path /\ fs'[p] = file[i]
        BY <2>1, <3>1
    <3>. HIDE DEF i
    <3>. QED
        BY <3>2, <3>3, <3>4 DEF Begun
  <2>. QED
    BY <2>2, <2>3, <2>4, FilesDo
<1>2. IInv /\ [Next]_vars => [Uploaded]_vars
    BY <1>1
<1>. HIDE DEF Uploaded
<1>3. Spec => [][Uploaded]_vars
    BY Invariance, <1>2, PTL DEF Spec
<1>. QED
    BY <1>3 DEF StoredFilesAreUploads, Uploaded

-------------------------------------------------------------------------------
(* A client that begins a command when the transfer before has ended, and   *)
(* resets no connection.                                                    *)
Stays == ~eof /\ \A i \in Ids : fin[i] # "reset"

CalmHandler(h, c, f, s) ==
    /\ h.do # "close"
    /\ h.do = "written" => h.arg = "ok"
    /\ h.do = "read" /\ ~h.arg.ok => c[h.id] = "eof" /\ Len(f[h.id] \o h.arg.bytes) = s[h.id]
    /\ h.do = "save" => c[h.id] = "eof" /\ f[h.id] = [k \in 1 .. s[h.id] |-> <<h.id, k>>]

Calm == \A k \in 1 .. Len(strand) : CalmHandler(strand[k], fin, file, sent)

Over == \A i \in Begun : i # Len(transfers) \/ i \in closed => final[i] # <<>>

FrontFits == strand # <<>> /\ EndsQueue(strand[1]) => Len(ftp_data_buffer_) = 1 /\ ftp_data_buffer_[1] # Null

QueueFits ==
    /\ QueuedIsPending /\ Len(ftp_data_buffer_) <= 2
    /\ Len(ftp_data_buffer_) = 2 => ftp_data_buffer_[1] # Null
    /\ FrontFits

Settles == Stays /\ Calm /\ Over /\ QueueFits

LEMMA OneByOneIs == OneByOne <=> Settles
BY DEF OneByOne, Settles, Stays, Calm, CalmHandler, Over, QueueFits, FrontFits, Upload

LEMMA OneByOneNext == OneByOneInv' <=> IInv' /\ Settles'
<1>1. OneByOneInv <=> IInv /\ Settles
    BY OneByOneIs DEF OneByOneInv
<1>. QED
    BY <1>1, PTL

(* Whatever is under way is so for the last transfer, and in one place. *)
LEMMA LastOnly ==
    ASSUME Core, Over
    PROVE \A i \in Elements(accepts) \cup Handled \cup reads \cup Writing : i = Len(transfers) /\ i \notin closed
<1>. TAKE i \in Elements(accepts) \cup Handled \cup reads \cup Writing
<1>1. i \in Begun /\ final[i] = <<>>
    BY Places
<1>. QED
    BY <1>1 DEF Over

LEMMA FirstOnly ==
    ASSUME Core, Over, strand # <<>>, Drives(First)
    PROVE /\ Elements(accepts) = {} /\ reads = {} /\ Writing = {} /\ writes = {}
          /\ Driving = {1} /\ Chain \subseteq {1} /\ First.id = Len(transfers) /\ First.id \notin closed
<1>1. 1 \in Driving /\ First.id \in Handled
    BY FirstFits
<1>2. /\ \A i \in Elements(accepts) \cup Handled \cup reads \cup Writing : i = Len(transfers) /\ i \notin closed
      /\ Elements(accepts) \cap (Handled \cup reads \cup Writing) = {}
      /\ Handled \cap (reads \cup Writing) = {}
    BY LastOnly, Places
<1>3. \A k \in Driving : strand[k].id \in Handled
    BY DEF Handled
<1>4. \A k \in Driving : k = 1
    BY <1>1, <1>2, <1>3 DEF Core, AtOnePlace
<1>5. Chain \subseteq Driving
    BY DEF Chain, Driving, Drives, EndsQueue
<1>6. Elements(accepts) = {} /\ reads = {} /\ Writing = {}
    BY <1>1, <1>2
<1>7. writes = {}
    BY <1>6 DEF Writing
<1>. QED
    BY <1>1, <1>2, <1>4, <1>5, <1>6, <1>7

LEMMA CalmKept ==
    ASSUME IsSeq(strand), NEW d, NEW new, Moves(d, new),
           \A k \in 1 .. Len(strand) : k > d => CalmHandler(strand[k], fin', file', sent'),
           \A m \in 1 .. Len(new) : CalmHandler(new[m], fin', file', sent')
    PROVE Calm'
<1>. DEFINE n == Len(strand) - d
<1>1. /\ n \in Nat /\ Len(strand) \in Nat /\ Len(new) \in Nat /\ d \in {0, 1}
      /\ IsSeq(strand') /\ Len(strand') = n + Len(new)
      /\ \A k \in 1 .. n : strand'[k] = strand[k + d] /\ k + d \in 1 .. Len(strand)
      /\ \A m \in 1 .. Len(new) : strand'[n + m] = new[m]
      /\ \A k \in 1 .. n + Len(new) :
            k \in 1 .. n \/ (k - n \in 1 .. Len(new) /\ strand'[k] = new[k - n])
  <2>1. Shifted(d, new)
    BY Positions
  <2>. QED
    BY <2>1 DEF Shifted
<1>2. \A k \in 1 .. n : CalmHandler(strand'[k], fin', file', sent')
  <2>. TAKE k \in 1 .. n
  <2>1. k + d > d
    BY <1>1
  <2>. QED
    BY <1>1, <2>1
<1>3. \A k \in 1 .. Len(strand') : CalmHandler(strand'[k], fin', file', sent')
    BY <1>1, <1>2
<1>. QED
    BY <1>3 DEF Calm

(* Which handlers can come to the front as the end of a transmission. *)
LEMMA FrontMoves ==
    ASSUME IsSeq(strand), QueuedInPairs, NEW d, NEW new, Moves(d, new), Pairs(new),
           strand' # <<>>, EndsQueue(strand'[1])
    PROVE \/ d = 0 /\ strand # <<>> /\ EndsQueue(strand[1])
          \/ d = 1 /\ Queues(strand[1])
<1>. DEFINE n == Len(strand) - d
<1>1. /\ n \in Nat /\ Len(strand) \in Nat /\ Len(new) \in Nat /\ d \in {0, 1}
      /\ IsSeq(strand') /\ Len(strand') = n + Len(new)
      /\ \A k \in 1 .. n : strand'[k] = strand[k + d] /\ k + d \in 1 .. Len(strand)
      /\ \A m \in 1 .. Len(new) : strand'[n + m] = new[m]
      /\ \A k \in 1 .. n + Len(new) :
            k \in 1 .. n \/ (k - n \in 1 .. Len(new) /\ strand'[k] = new[k - n])
  <2>1. Shifted(d, new)
    BY Positions
  <2>. QED
    BY <2>1 DEF Shifted
<1>2. 1 \in 1 .. n + Len(new)
    BY <1>1, SeqLen
<1>3. 1 \in 1 .. n
  <2>. SUFFICES ASSUME 1 \notin 1 .. n PROVE FALSE
    OBVIOUS
  <2>1. n = 0 /\ 1 \in 1 .. Len(new)
    BY <1>1, <1>2
  <2>2. strand'[0 + 1] = new[1]
    BY <1>1, <2>1
  <2>3. EndsQueue(new[1])
    BY <2>2
  <2>. QED
    BY <2>1, <2>3 DEF Pairs
<1>4. strand'[1] = strand[1 + d] /\ 1 + d \in 1 .. Len(strand)
    BY <1>1, <1>3
<1>5. CASE d = 0
    BY <1>4, <1>5, Few
<1>6. CASE d = 1
  <2>1. 1 + 1 \in 1 .. Len(strand) /\ 1 + 1 # 1 /\ (1 + 1) - 1 = 1 /\ EndsQueue(strand[1 + 1])
    BY <1>4, <1>6
  <2>2. Queues(strand[(1 + 1) - 1])
    BY <2>1 DEF QueuedInPairs
  <2>. QED
    BY <1>6, <2>1, <2>2
<1>. QED
    BY <1>1, <1>5, <1>6

LEMMA FrontKept ==
    ASSUME IsSeq(strand), QueuedInPairs, FrontFits, NEW d, NEW new, Moves(d, new), Pairs(new),
           d = 1 => ~Queues(strand[1]), UNCHANGED ftp_data_buffer_
    PROVE FrontFits'
<1>. SUFFICES ASSUME strand' # <<>>, EndsQueue(strand'[1])
              PROVE Len(ftp_data_buffer_') = 1 /\ ftp_data_buffer_'[1] # Null
    BY DEF FrontFits
<1>1. \/ d = 0 /\ strand # <<>> /\ EndsQueue(strand[1])
      \/ d = 1 /\ Queues(strand[1])
    BY FrontMoves
<1>2. strand # <<>> /\ EndsQueue(strand[1])
    BY <1>1
<1>. QED
    BY <1>2 DEF FrontFits

LEMMA FrontGone ==
    ASSUME IsSeq(strand), QueuedInPairs, NEW new, Moves(1, new), Pairs(new), ~Queues(strand[1])
    PROVE FrontFits'
<1>. SUFFICES ASSUME strand' # <<>>, EndsQueue(strand'[1]) PROVE FALSE
    BY DEF FrontFits
<1>1. \/ 1 = 0 /\ strand # <<>> /\ EndsQueue(strand[1])
      \/ 1 = 1 /\ Queues(strand[1])
    BY FrontMoves
<1>. QED
    BY <1>1

(* What is queued stays pending. *)
LEMMA PendingKept ==
    ASSUME IsSeq(strand), NEW d, NEW new, Moves(d, new), QueuedIsPending, ftp_data_buffer_ # <<>>,
           d = 1 => strand[1].do \notin {"send", "written"}, writes' = writes
    PROVE QueuedIsPending'
<1>. DEFINE n == Len(strand) - d
<1>1. /\ n \in Nat /\ Len(strand) \in Nat /\ Len(new) \in Nat /\ d \in {0, 1}
      /\ IsSeq(strand') /\ Len(strand') = n + Len(new)
      /\ \A k \in 1 .. n : strand'[k] = strand[k + d] /\ k + d \in 1 .. Len(strand)
      /\ \A m \in 1 .. Len(new) : strand'[n + m] = new[m]
      /\ \A k \in 1 .. n + Len(new) :
            k \in 1 .. n \/ (k - n \in 1 .. Len(new) /\ strand'[k] = new[k - n])
  <2>1. Shifted(d, new)
    BY Positions
  <2>. QED
    BY <2>1 DEF Shifted
<1>. SUFFICES ASSUME writes' = {}
              PROVE \E k \in 1 .. Len(strand') : strand'[k].do \in {"send", "written"}
    BY DEF QueuedIsPending
<1>2. PICK k \in 1 .. Len(strand) : strand[k].do \in {"send", "written"}
    BY DEF QueuedIsPending
<1>3. k \in Nat /\ k > d /\ k <= Len(strand)
    BY <1>1, <1>2
<1>4. k - d \in 1 .. n /\ (k - d) + d = k
  <2>1. d \in Nat /\ Len(strand) \in Nat
        BY <1>1
  <2>. QED
        BY <1>3, <2>1
<1>5. strand'[k - d] = strand[k] /\ k - d \in 1 .. Len(strand')
    BY <1>1, <1>4
<1>. QED
    BY <1>2, <1>5

(* Steps that do not touch the queue. *)
LEMMA QueueStays ==
    ASSUME Core, QueueFits, NEW d, NEW new, Moves(d, new), Pairs(new),
           d = 1 => strand[1].do \notin {"send", "written", "enqueue"},
           UNCHANGED <<ftp_data_buffer_, writes>>
    PROVE QueueFits'
<1>0. IsSeq(strand) /\ QueuedInPairs
    BY DEF Core, StrandFits
<1>2. FrontFits'
  <2>1. FrontFits /\ (d = 1 => ~Queues(strand[1]))
    BY DEF QueueFits, Queues
  <2>. QED
    BY <1>0, <2>1, FrontKept
<1>3. QueuedIsPending'
  <2>1. QueuedIsPending /\ (d = 1 => strand[1].do \notin {"send", "written"})
    BY DEF QueueFits
  <2>2. CASE ftp_data_buffer_ = <<>>
    BY <2>2 DEF QueuedIsPending
  <2>3. CASE ftp_data_buffer_ # <<>>
    BY <1>0, <2>1, <2>3, PendingKept
  <2>. QED
    BY <2>2, <2>3
<1>. QED
    BY <1>2, <1>3 DEF QueueFits

LEMMA OverGiven ==
    ASSUME Core, Over, NEW i \in Begun, final[i] = <<>>, NEW c \in {226, 426, 450}, sendFinal(i, c),
           closed' \subseteq closed \cup {i}, transfers' = transfers
    PROVE Over'
<1>1. i \in Ids /\ Begun \subseteq Ids /\ final \in [Ids -> Seq({226, 426, 450})]
    BY IdsAre DEF Core, TablesTyped
<1>2. Append(final[i], c) = <<c>> /\ <<c>> # <<>>
    BY Few
<1>3. final'[i] # <<>> /\ \A j \in Ids : j # i => final'[j] = final[j]
    BY <1>1, <1>2 DEF sendFinal
<1>4. Begun' = Begun
    BY DEF Begun
<1>. QED
    BY <1>1, <1>3, <1>4 DEF Over

LEMMA CalmStays ==
    ASSUME IsSeq(strand), Calm, NEW d, NEW new, Moves(d, new), UNCHANGED <<fin, sent>>,
           \A k \in 1 .. Len(strand) :
               k > d /\ strand[k].do \in {"read", "save"} => file'[strand[k].id] = file[strand[k].id],
           \A m \in 1 .. Len(new) : CalmHandler(new[m], fin', file', sent')
    PROVE Calm'
<1>1. ASSUME NEW k \in 1 .. Len(strand), k > d PROVE CalmHandler(strand[k], fin', file', sent')
  <2>1. CalmHandler(strand[k], fin, file, sent)
    BY DEF Calm
  <2>2. strand[k].do \in {"read", "save"} => file'[strand[k].id] = file[strand[k].id]
    BY <1>1
  <2>. DEFINE h == strand[k]
  <2>. HIDE DEF h
  <2>3. CalmHandler(h, fin, file, sent) /\ (h.do \in {"read", "save"} => file'[h.id] = file[h.id])
    BY <2>1, <2>2 DEF h
  <2>4. CalmHandler(h, fin', file', sent')
    BY <2>3 DEF CalmHandler
  <2>. QED
    BY <2>4 DEF h
<1>2. \A k \in 1 .. Len(strand) : k > d => CalmHandler(strand[k], fin', file', sent')
    BY <1>1
<1>. QED
    BY <1>2, CalmKept

LEMMA AbortedSettles ==
    ASSUME Core, Settles, Aborted
    PROVE Settles'
<1>. DEFINE i == First.id
<1>1. /\ strand # <<>> /\ First.do = "aborted" /\ sendFinal(i, 426) /\ ThenPosts(<<>>)
      /\ UNCHANGED <<ftp_data_buffer_, writes, closed, file>>
      /\ UNCHANGED <<eof, sent, fin, transfers>>
    BY DEF Aborted, Runs, KeepControl, client
<1>2. Drives(First)
    BY <1>1 DEF Drives, EndsQueue
<1>3. i \in Begun /\ final[i] = <<>> /\ IsSeq(strand)
    BY <1>1, <1>2, FirstFits
<1>4. Moves(1, <<>>)
    BY <1>1, <1>3, Moving, Few
<1>5. Stays' /\ Calm /\ Over /\ QueueFits
    BY <1>1 DEF Settles, Stays
<1>6. Calm'
  <2>1. \A k \in 1 .. Len(strand) :
            k > 1 /\ strand[k].do \in {"read", "save"} => file'[strand[k].id] = file[strand[k].id]
    BY <1>1
  <2>2. \A m \in 1 .. Len(<<>>) : CalmHandler(<<>>[m], fin', file', sent')
    BY NoneNew
  <2>3. UNCHANGED <<fin, sent>>
    BY <1>1
  <2>. QED
    BY <1>3, <1>4, <1>5, <2>1, <2>2, <2>3, CalmStays
<1>7. Over'
  <2>1. closed' \subseteq closed \cup {i} /\ transfers' = transfers /\ 426 \in {226, 426, 450}
    BY <1>1
  <2>. QED
    BY <1>1, <1>3, <1>5, <2>1, OverGiven
<1>8. QueueFits'
  <2>1. UNCHANGED <<ftp_data_buffer_, writes>> /\ strand[1].do \notin {"send", "written", "enqueue"}
    BY <1>1 DEF First
  <2>. QED
    BY <1>4, <1>5, <2>1, NoneNew, QueueStays
<1>. QED
    BY <1>5, <1>6, <1>7, <1>8 DEF Settles

LEMMA SameOver ==
    ASSUME Over, UNCHANGED <<transfers, closed, final>>
    PROVE Over'
BY DEF Over, Begun

LEMMA AcceptedSettles ==
    ASSUME Core, Settles, Accepted
    PROVE Settles'
<1>. DEFINE i == First.id
            x == <<transfers[i].data>>
            e == Handler("enqueue", i, x)
            o == Handler("enqueue", i, Null)
            up == transfers[i].cmd = "Stor"
            new == IF up THEN <<>> ELSE <<e, o>>
<1>1. /\ strand # <<>> /\ First.do = "accepted" /\ ThenPosts(new)
      /\ UNCHANGED <<ftp_data_buffer_, writes, closed, final, file>>
      /\ UNCHANGED <<eof, sent, fin, transfers>>
    BY DEF Accepted, Runs, KeepControl, client
<1>2. IsSeq(strand)
    BY <1>1, FirstFits
<1>3. /\ IsSeq(new) /\ Pairs(new)
      /\ \A m \in 1 .. Len(new) : CalmHandler(new[m], fin', file', sent')
  <2>1. CASE up
    BY <2>1, NoneNew, Few
  <2>2. CASE ~up
    <3>1. /\ e.do = "enqueue" /\ e.arg = x /\ x # Null
          /\ o.do = "enqueue" /\ o.arg = Null
        BY Fields, Few DEF Null
    <3>. HIDE DEF e, o
    <3>2. /\ Queues(e) /\ EndsQueue(o) /\ ~EndsQueue(e) /\ ~Queues(o)
        BY <3>1 DEF EndsQueue, Queues
    <3>3. CalmHandler(e, fin', file', sent') /\ CalmHandler(o, fin', file', sent')
        BY <3>1 DEF CalmHandler
    <3>4. IsSeq(new) /\ Len(new) = 2 /\ new[1] = e /\ new[2] = o
        BY <2>2, Few
    <3>. HIDE DEF new
    <3>5. \A m \in 1 .. Len(new) : m = 1 \/ m = 2
        BY <3>4
    <3>6. Pairs(new)
        BY <3>2, <3>4, <3>5 DEF Pairs
    <3>. QED
        BY <3>3, <3>4, <3>5, <3>6
  <2>. QED
    BY <2>1, <2>2
<1>. HIDE DEF new
<1>4. Moves(1, new)
    BY <1>1, <1>2, <1>3, Moving
<1>5. Stays' /\ Calm /\ Over /\ QueueFits
    BY <1>1 DEF Settles, Stays
<1>6. Calm'
  <2>1. \A k \in 1 .. Len(strand) :
            k > 1 /\ strand[k].do \in {"read", "save"} => file'[strand[k].id] = file[strand[k].id]
    BY <1>1
  <2>2. UNCHANGED <<fin, sent>>
    BY <1>1
  <2>. QED
    BY <1>2, <1>3, <1>4, <1>5, <2>1, <2>2, CalmStays
<1>7. Over'
    BY <1>1, <1>5, SameOver
<1>8. QueueFits'
  <2>1. UNCHANGED <<ftp_data_buffer_, writes>> /\ strand[1].do \notin {"send", "written", "enqueue"}
    BY <1>1 DEF First
  <2>. QED
    BY <1>3, <1>4, <1>5, <2>1, QueueStays
<1>. QED
    BY <1>5, <1>6, <1>7, <1>8 DEF Settles

(* What fills the beginning of an upload is the whole of it. *)
LEMMA WholeIs ==
    ASSUME NEW i \in Ids, NEW n \in Nat, NEW f \in Seq(Ids \X Nat), Prefixed(f, i, n), Len(f) = n
    PROVE f = [k \in 1 .. n |-> <<i, k>>]
<1>1. f \in [1 .. n -> Ids \X Nat]
    BY LenProperties
<1>2. \A k \in 1 .. n : f[k] = <<i, k>>
    BY DEF Prefixed
<1>. QED
    BY <1>1, <1>2

LEMMA ReadSettles ==
    ASSUME Core, Settles, Read
    PROVE Settles'
<1>. DEFINE i == First.id
            h == Handler("save", i, Null)
            new == IF First.arg.ok THEN <<>> ELSE <<h>>
            all == file[i] \o First.arg.bytes
<1>1. /\ strand # <<>> /\ First.do = "read" /\ ThenPosts(new)
      /\ file' = [file EXCEPT ![i] = all]
      /\ UNCHANGED <<ftp_data_buffer_, writes, closed, final>>
      /\ UNCHANGED <<eof, sent, fin, transfers>>
    BY DEF Read, Runs, KeepControl, client
<1>2. Drives(First)
    BY <1>1 DEF Drives, EndsQueue
<1>3. /\ i \in Begun /\ i \in Ids /\ IsSeq(strand) /\ 1 \in 1 .. Len(strand)
      /\ First.arg.bytes \in Seq(Ids \X Nat) /\ Prefixed(all, i, sent[i])
    BY <1>1, <1>2, FirstFits DEF HandlerFits
<1>4. /\ file \in [Ids -> Seq(Ids \X Nat)] /\ sent[i] \in Nat
  <2>1. TablesTyped
    BY DEF Core
  <2>. QED
    <3>1. file \in [Ids -> Seq(Ids \X Nat)] /\ sent \in [Ids -> 0 .. MaxUpload]
        BY <2>1 DEF TablesTyped
    <3>2. sent[i] \in 0 .. MaxUpload /\ MaxUpload \in Nat
        BY <1>3, <3>1, IdsAre
    <3>. QED
        BY <3>1, <3>2
<1>5. all \in Seq(Ids \X Nat)
    BY <1>3, <1>4, ConcatProperties
<1>6. ~First.arg.ok => fin[i] = "eof" /\ Len(all) = sent[i]
  <2>1. CalmHandler(First, fin, file, sent)
    BY <1>3 DEF Settles, Calm, First
  <2>. QED
    BY <1>1, <2>1 DEF CalmHandler
<1>. HIDE DEF all
<1>7. file'[i] = all
    BY <1>1, <1>3, <1>4
<1>8. ~First.arg.ok => fin[i] = "eof" /\ file'[i] = [k \in 1 .. sent[i] |-> <<i, k>>]
    BY <1>3, <1>4, <1>5, <1>6, <1>7, WholeIs
<1>9. /\ IsSeq(new) /\ Pairs(new)
      /\ \A m \in 1 .. Len(new) : CalmHandler(new[m], fin', file', sent')
  <2>1. CASE First.arg.ok
    BY <2>1, NoneNew, Few
  <2>2. CASE ~First.arg.ok
    <3>1. h.do = "save" /\ h.id = i
        BY Fields
    <3>2. CalmHandler(h, fin', file', sent')
        BY <1>1, <1>8, <2>2, <3>1 DEF CalmHandler
    <3>3. new = <<h>>
        BY <2>2
    <3>. HIDE DEF h, new
    <3>4. IsSeq(<<h>>)
        BY Few
    <3>5. Pairs(<<h>>) /\ \A m \in 1 .. Len(<<h>>) : <<h>>[m] = h
        BY <3>1, OneNew
    <3>. QED
        BY <3>2, <3>3, <3>4, <3>5
  <2>. QED
    BY <2>1, <2>2
<1>. HIDE DEF new
<1>10. Moves(1, new)
    BY <1>1, <1>3, <1>9, Moving
<1>11. Stays' /\ Calm /\ Over /\ QueueFits
    BY <1>1 DEF Settles, Stays
<1>12. Calm'
  <2>1. \A k \in 1 .. Len(strand) :
            k > 1 /\ strand[k].do \in {"read", "save"} => file'[strand[k].id] = file[strand[k].id]
    <3>. SUFFICES ASSUME NEW k \in 1 .. Len(strand), k > 1, strand[k].do \in {"read", "save"} PROVE FALSE
        OBVIOUS
    <3>1. k \in Driving /\ k # 1
        BY DEF Driving, Drives, EndsQueue
    <3>. QED
        BY <1>1, <1>2, <1>11, <3>1, FirstOnly
  <2>2. UNCHANGED <<fin, sent>>
    BY <1>1
  <2>. QED
    BY <1>3, <1>9, <1>10, <1>11, <2>1, <2>2, CalmStays
<1>13. Over'
    BY <1>1, <1>11, SameOver
<1>14. QueueFits'
  <2>1. UNCHANGED <<ftp_data_buffer_, writes>> /\ strand[1].do \notin {"send", "written", "enqueue"}
    BY <1>1 DEF First
  <2>. QED
    BY <1>9, <1>10, <1>11, <2>1, QueueStays
<1>. QED
    BY <1>11, <1>12, <1>13, <1>14 DEF Settles

LEMMA PendingNew ==
    ASSUME IsSeq(strand), NEW d, NEW new, Moves(d, new), Len(new) = 1, new[1].do \in {"send", "written"}
    PROVE QueuedIsPending'
<1>. DEFINE k == Len(strand) - d + 1
<1>1. Shifted(d, new)
    BY Positions
<1>2. k \in 1 .. Len(strand') /\ strand'[k] = new[1]
  <2>. DEFINE n == Len(strand) - d
  <2>1. n \in Nat /\ Len(strand') = n + Len(new) /\ \A m \in 1 .. Len(new) : strand'[n + m] = new[m]
    BY <1>1 DEF Shifted
  <2>2. k = n + 1
    OBVIOUS
  <2>. HIDE DEF k, n
  <2>. QED
    BY <2>1, <2>2
<1>. HIDE DEF k
<1>. QED
    BY <1>2 DEF QueuedIsPending

LEMMA PostSettles ==
    ASSUME Core, Settles, NEW h, strand' = Append(strand, h), h.do # "enqueue", CalmHandler(h, fin, file, sent),
           UNCHANGED <<eof, fin, sent, file, transfers, closed, final, ftp_data_buffer_>>,
           writes' = writes \/ h.do = "written"
    PROVE Settles'
<1>1. IsSeq(strand) /\ QueuedInPairs
    BY DEF Core, StrandFits
<1>2. Moves(0, <<h>>)
    BY <1>1, Moving
<1>3. Len(<<h>>) = 1 /\ Pairs(<<h>>) /\ <<h>>[1] = h /\ \A m \in 1 .. Len(<<h>>) : <<h>>[m] = h
    BY OneNew, Few
<1>4. Stays' /\ Calm /\ Over /\ QueueFits
    BY DEF Settles, Stays
<1>5. Calm'
  <2>1. \A k \in 1 .. Len(strand) :
            k > 0 /\ strand[k].do \in {"read", "save"} => file'[strand[k].id] = file[strand[k].id]
    OBVIOUS
  <2>2. \A m \in 1 .. Len(<<h>>) : CalmHandler(<<h>>[m], fin', file', sent')
    BY <1>3
  <2>3. UNCHANGED <<fin, sent>>
    OBVIOUS
  <2>. QED
    BY <1>1, <1>2, <1>4, <2>1, <2>2, <2>3, CalmStays
<1>6. Over'
    BY <1>4, SameOver
<1>7. QueueFits'
  <2>1. CASE writes' = writes
    <3>1. UNCHANGED <<ftp_data_buffer_, writes>> /\ 0 # 1
        BY <2>1
    <3>. QED
        BY <1>2, <1>3, <1>4, <3>1, QueueStays
  <2>2. CASE h.do = "written"
    <3>1. QueuedIsPending'
        BY <1>1, <1>2, <1>3, <2>2, PendingNew
    <3>2. FrontFits /\ 0 # 1
        BY <1>4 DEF QueueFits
    <3>3. FrontFits'
        BY <1>1, <1>2, <1>3, <3>2, FrontKept
    <3>. QED
        BY <1>4, <3>1, <3>3 DEF QueueFits
  <2>. QED
    BY <2>1, <2>2
<1>. QED
    BY <1>4, <1>5, <1>6, <1>7 DEF Settles

LEMMA AcceptSettles ==
    ASSUME Core, Settles, Accept
    PROVE Settles'
<1>1. PICK k \in 1 .. Len(accepts), v \in {"accepted", "aborted"} : Dispatch(v, accepts[k], Null)
    BY DEF Accept
<1>. DEFINE h == Handler(v, accepts[k], Null)
<1>2. strand' = Append(strand, h)
    BY <1>1 DEF Dispatch
<1>3. h.do \in {"accepted", "aborted"}
    BY Fields
<1>. HIDE DEF h
<1>4. CalmHandler(h, fin, file, sent)
    BY <1>3 DEF CalmHandler
<1>5. UNCHANGED <<eof, fin, sent, file, transfers, closed, final, ftp_data_buffer_>> /\ writes' = writes
    BY DEF Accept, KeepSession, client
<1>. QED
    BY <1>2, <1>3, <1>4, <1>5, PostSettles

(* A write fails only on a connection the client has reset, or of a        *)
(* transfer that is over.                                                  *)
LEMMA WriteDoneSettles ==
    ASSUME Core, Settles, WriteDone
    PROVE Settles'
<1>1. PICK w \in writes, v \in {"ok", "failed"} :
             /\ Dispatch("written", w.id, v)
             /\ v = "ok" \/ w.id \in closed \/ fin[w.id] = "reset"
    BY DEF WriteDone
<1>2. w.id \in Writing /\ Over /\ Stays
    BY DEF Writing, Settles
<1>3. w.id \notin closed /\ w.id \in Ids
    BY <1>2, LastOnly, Places
<1>4. v = "ok"
    BY <1>1, <1>2, <1>3 DEF Stays
<1>. DEFINE h == Handler("written", w.id, v)
<1>5. strand' = Append(strand, h)
    BY <1>1 DEF Dispatch
<1>6. h.do = "written" /\ h.arg = "ok"
    BY <1>4, Fields
<1>. HIDE DEF h
<1>7. CalmHandler(h, fin, file, sent)
    BY <1>6 DEF CalmHandler
<1>8. UNCHANGED <<eof, fin, sent, file, transfers, closed, final, ftp_data_buffer_>>
    BY DEF WriteDone, KeepSession
<1>. QED
    BY <1>5, <1>6, <1>7, <1>8, PostSettles

(* A read ends early only with the upload, all of which it then has. *)
LEMMA ReadDoneSettles ==
    ASSUME Core, Settles, NEW i \in Ids, ReadDone(i)
    PROVE Settles'
<1>1. PICK n \in 0 .. BufferSize, b \in BOOLEAN :
        /\ Len(file[i]) + n <= sent[i]
        /\ Dispatch("read", i, [ok |-> b, bytes |-> SubSeq(Upload(i), Len(file[i]) + 1, Len(file[i]) + n)])
        /\ ~b => (fin[i] = "eof" /\ Len(file[i]) + n = sent[i]) \/ fin[i] = "reset" \/ i \in closed
    BY DEF ReadDone
<1>. DEFINE bytes == SubSeq(Upload(i), Len(file[i]) + 1, Len(file[i]) + n)
            x == [ok |-> b, bytes |-> bytes]
            h == Handler("read", i, x)
<1>2. i \in reads /\ Over /\ Stays
    BY DEF ReadDone, Settles
<1>3. i \notin closed
    BY <1>2, LastOnly
<1>4. ~b => fin[i] = "eof" /\ Len(file[i]) + n = sent[i]
    BY <1>1, <1>2, <1>3 DEF Stays
<1>5. /\ sent[i] \in Nat /\ file[i] \in Seq(Ids \X Nat) /\ Prefixed(file[i], i, sent[i])
      /\ n \in Nat /\ Len(file[i]) + n <= sent[i]
  <2>1. TablesTyped /\ FilesFit
    BY DEF Core
  <2>. QED
    BY <1>1, <2>1, IdsAre, BoundsAssumption DEF TablesTyped, FilesFit
<1>6. bytes \in Seq(Ids \X Nat) /\ Len(bytes) = n
    BY <1>5, NextBytes DEF Upload
<1>. HIDE DEF bytes
<1>7. Len(file[i] \o bytes) = Len(file[i]) + n
    BY <1>5, <1>6, ConcatProperties
<1>8. strand' = Append(strand, h)
    BY <1>1 DEF Dispatch, bytes
<1>9. h.do = "read" /\ h.id = i /\ h.arg.ok = b /\ h.arg.bytes = bytes
    BY Fields
<1>. HIDE DEF h
<1>10. CalmHandler(h, fin, file, sent)
    BY <1>4, <1>7, <1>9 DEF CalmHandler
<1>11. UNCHANGED <<eof, fin, sent, file, transfers, closed, final, ftp_data_buffer_>> /\ writes' = writes
    BY DEF ReadDone, KeepSession, client
<1>. QED
    BY <1>8, <1>9, <1>10, <1>11, PostSettles

LEMMA QuietSettles ==
    ASSUME Settles, UNCHANGED <<eof, fin, sent, file, transfers, closed, final, ftp_data_buffer_, writes, strand>>
    PROVE Settles'
<1>1. Stays' /\ Over'
    BY SameOver DEF Settles, Stays
<1>2. Calm'
    BY DEF Settles, Calm
<1>3. QueueFits'
    BY DEF Settles, QueueFits, QueuedIsPending, FrontFits
<1>. QED
    BY <1>1, <1>2, <1>3 DEF Settles

(* A transfer begins when those before it are over. *)
LEMMA CommandSettles ==
    ASSUME Obliging, Core, Settles, Command
    PROVE Settles'
<1>1. /\ UNCHANGED <<eof, fin, sent, file, closed, final, ftp_data_buffer_, writes>>
      /\ Settled \/ KeepTransfers \/ CancelsOnly
      /\ KeepTransfers \/ Starts \/ CancelsOnly
    BY CommandDoes DEF Obliging, client, streams
<1>2. TransfersTyped /\ IsSeq(strand) /\ Begun \subseteq Ids /\ closed \subseteq Begun
    BY IdsAre DEF Core, StrandFits, SetsFit
<1>3. Stays' /\ Calm /\ Over /\ QueueFits
    BY <1>1 DEF Settles, Stays
<1>4. Settled => \A i \in Begun : final[i] # <<>>
    BY <1>1, <1>2 DEF Settles, Stays, Settled, Begun
<1>5. ASSUME NEW new, Moves(0, new), Pairs(new), Over',
             \A m \in 1 .. Len(new) : CalmHandler(new[m], fin', file', sent')
      PROVE Settles'
  <2>1. Calm'
    <3>1. \A k \in 1 .. Len(strand) :
              k > 0 /\ strand[k].do \in {"read", "save"} => file'[strand[k].id] = file[strand[k].id]
        BY <1>1
    <3>2. UNCHANGED <<fin, sent>>
        BY <1>1
    <3>. QED
        BY <1>2, <1>3, <1>5, <3>1, <3>2, CalmStays
  <2>2. QueueFits'
    <3>1. UNCHANGED <<ftp_data_buffer_, writes>> /\ 0 # 1
        BY <1>1
    <3>. QED
        BY <1>3, <1>5, <3>1, QueueStays
  <2>. QED
    BY <1>3, <1>5, <2>1, <2>2 DEF Settles
<1>6. CASE KeepTransfers
  <2>1. UNCHANGED <<transfers, strand>>
    BY <1>6 DEF KeepTransfers
  <2>. QED
    BY <1>1, <2>1, QuietSettles
<1>7. CASE Starts /\ Settled
  <2>1. PICK t : Begins150(t)
    BY <1>7 DEF Starts
  <2>. DEFINE h == Handler("aborted", Len(transfers) + 1, Null)
  <2>2. h.do = "aborted"
    BY Fields
  <2>3. strand' = strand \/ strand' = Append(strand, h)
    BY <2>1 DEF Begins150
  <2>. HIDE DEF h
  <2>4. Over'
    <3>1. Len(transfers) \in Nat /\ Len(transfers') = Len(transfers) + 1
        BY <1>2, <2>1, Appended DEF TransfersTyped, Begins150
    <3>2. Len(transfers) + 1 \notin closed
        BY <1>2, <3>1 DEF Begun
    <3>3. \A i \in 1 .. Len(transfers') : i \in Begun \/ i = Len(transfers) + 1
        BY <3>1 DEF Begun
    <3>. QED
        BY <1>1, <1>4, <1>7, <3>1, <3>2, <3>3 DEF Over, Begun
  <2>5. CASE strand' = strand
    <3>1. Moves(0, <<>>)
        BY <1>2, <2>5, Moving
    <3>. QED
        BY <1>5, <2>4, <3>1, NoneNew
  <2>6. CASE strand' = Append(strand, h)
    <3>1. Moves(0, <<h>>)
        BY <1>2, <2>6, Moving
    <3>2. CalmHandler(h, fin', file', sent')
        BY <2>2 DEF CalmHandler
    <3>3. Pairs(<<h>>) /\ \A m \in 1 .. Len(<<h>>) : <<h>>[m] = h
        BY <2>2, OneNew
    <3>. QED
        BY <1>5, <2>4, <3>1, <3>2, <3>3
  <2>. QED
    BY <2>3, <2>5, <2>6
<1>8. CASE CancelsOnly
  <2>1. strand' = strand \o Cancelled /\ transfers' = transfers
    BY <1>8 DEF CancelsOnly
  <2>2. IsSeq(Cancelled) /\ \A m \in 1 .. Len(Cancelled) : Cancelled[m].do = "aborted"
    BY CancelledIs
  <2>3. Moves(0, Cancelled)
    BY <1>2, <2>1, <2>2, Moving
  <2>4. Pairs(Cancelled)
    BY <2>2 DEF Pairs, EndsQueue, Queues
  <2>5. \A m \in 1 .. Len(Cancelled) : CalmHandler(Cancelled[m], fin', file', sent')
    BY <2>2 DEF CalmHandler
  <2>6. Over'
    BY <1>1, <1>3, <2>1, SameOver
  <2>. QED
    BY <1>5, <2>3, <2>4, <2>5, <2>6
<1>. QED
    BY <1>1, <1>6, <1>7, <1>8

(* What the last transfer has left behind it, nothing of it is held by     *)
(* another handler: there is no socket to be closed.                       *)
LEMMA SaveSettles ==
    ASSUME Core, Settles, Save
    PROVE Settles'
<1>. DEFINE i == First.id
            c == IF Stored(transfers[i].path) THEN 450 ELSE 226
<1>1. /\ strand # <<>> /\ First.do = "save" /\ ThenPosts(<<>>) /\ sendFinal(i, c) /\ closeFtpDataSocket
      /\ UNCHANGED <<ftp_data_buffer_, writes, file>>
      /\ UNCHANGED <<eof, sent, fin, transfers>>
    BY DEF Save, Runs, KeepControl, client
<1>2. Drives(First)
    BY <1>1 DEF Drives, EndsQueue
<1>3. i \in Begun /\ final[i] = <<>> /\ IsSeq(strand)
    BY <1>1, <1>2, FirstFits
<1>4. Stays' /\ Calm /\ Over /\ QueueFits
    BY <1>1 DEF Settles, Stays
<1>5. reads = {} /\ writes = {} /\ Driving = {1}
    BY <1>1, <1>2, <1>4, FirstOnly
<1>6. ~HeldBy(Tail(strand), ftp_data_socket_)
  <2>. SUFFICES ASSUME HeldBy(Tail(strand), ftp_data_socket_) PROVE FALSE
    OBVIOUS
  <2>1. /\ Len(Tail(strand)) = Len(strand) - 1 /\ Len(strand) \in Nat \ {0}
        /\ \A k \in 1 .. Len(strand) - 1 : Tail(strand)[k] = strand[k + 1]
    BY <1>1, <1>3, Tailed
  <2>2. PICK k \in 1 .. Len(strand) - 1 : strand[k + 1].do \notin {"aborted", "save", "close"}
    BY <1>5, <2>1 DEF HeldBy
  <2>3. k + 1 \in 1 .. Len(strand) /\ k + 1 # 1 /\ (k + 1) - 1 = k /\ k \in 1 .. Len(strand)
    BY <2>1
  <2>4. EndsQueue(strand[k + 1])
    BY <1>5, <2>2, <2>3 DEF Driving, Drives
  <2>5. Queues(strand[k])
    BY <2>3, <2>4 DEF Core, QueuedInPairs
  <2>6. k \in Driving
    BY <2>3, <2>5 DEF Driving, Drives, Queues, EndsQueue
  <2>. QED
    BY <1>1, <1>5, <2>5, <2>6 DEF Queues, First
<1>7. closed' = closed
    BY <1>1, <1>6 DEF closeFtpDataSocket
<1>8. Over'
  <2>1. c \in {226, 426, 450} /\ closed' \subseteq closed \cup {i}
    BY <1>7
  <2>2. transfers' = transfers /\ sendFinal(i, c)
    BY <1>1
  <2>. HIDE DEF i, c
  <2>. QED
    BY <1>3, <1>4, <2>1, <2>2, OverGiven
<1>9. Moves(1, <<>>)
    BY <1>1, <1>3, Moving, Few
<1>10. Calm'
  <2>1. \A k \in 1 .. Len(strand) :
            k > 1 /\ strand[k].do \in {"read", "save"} => file'[strand[k].id] = file[strand[k].id]
    BY <1>1
  <2>2. \A m \in 1 .. Len(<<>>) : CalmHandler(<<>>[m], fin', file', sent')
    BY NoneNew
  <2>3. UNCHANGED <<fin, sent>>
    BY <1>1
  <2>. QED
    BY <1>3, <1>4, <1>9, <2>1, <2>2, <2>3, CalmStays
<1>11. QueueFits'
  <2>1. UNCHANGED <<ftp_data_buffer_, writes>> /\ strand[1].do \notin {"send", "written", "enqueue"}
    BY <1>1 DEF First
  <2>. QED
    BY <1>4, <1>9, <2>1, NoneNew, QueueStays
<1>. QED
    BY <1>4, <1>8, <1>10, <1>11 DEF Settles

(* The upload of a client does not change any more when it has ended. *)
LEMMA ClientSettles ==
    ASSUME Core, Settles, NEW i \in Ids, ClientSends(i) \/ ClientEnds(i)
    PROVE Settles'
<1>1. /\ fin[i] = "open"
      /\ sent' = [sent EXCEPT ![i] = @ + 1] \/ sent' = sent
      /\ fin' = [fin EXCEPT ![i] = "eof"] \/ fin' = fin
      /\ UNCHANGED <<eof, file, transfers, closed, final, ftp_data_buffer_, writes, strand>>
    BY DEF ClientSends, ClientEnds, KeepSession
<1>2. sent \in [Ids -> 0 .. MaxUpload] /\ fin \in [Ids -> {"open", "eof", "reset"}]
    BY DEF Core, TablesTyped
<1>3. \A j \in Ids : j # i => sent'[j] = sent[j] /\ fin'[j] = fin[j]
    BY <1>1, <1>2
<1>4. fin'[i] # "reset" \/ fin'[i] = fin[i]
    BY <1>1, <1>2
<1>5. Stays'
    BY <1>1, <1>3, <1>4 DEF Settles, Stays
<1>6. Over'
    BY <1>1, SameOver DEF Settles
<1>7. QueueFits'
    BY <1>1 DEF Settles, QueueFits, QueuedIsPending, FrontFits
<1>8. Calm'
  <2>. SUFFICES ASSUME NEW k \in 1 .. Len(strand)
                PROVE CalmHandler(strand[k], fin', file', sent')
    BY <1>1 DEF Calm
  <2>. DEFINE h == strand[k]
  <2>1. CalmHandler(h, fin, file, sent)
    BY DEF Settles, Calm
  <2>2. h.do # "close" => h.id \in Ids
    BY IdsAre DEF Core, StrandFits, HandlerFits, Begun
  <2>. HIDE DEF h
  <2>3. h.do = "read" /\ ~h.arg.ok => h.id \in Ids /\ h.id # i
    BY <1>1, <2>1, <2>2 DEF CalmHandler
  <2>4. h.do = "save" => h.id \in Ids /\ h.id # i
    BY <1>1, <2>1, <2>2 DEF CalmHandler
  <2>5. CalmHandler(h, fin', file', sent')
    BY <1>1, <1>3, <2>1, <2>3, <2>4 DEF CalmHandler
  <2>. QED
    BY <2>5 DEF h
<1>. QED
    BY <1>5, <1>6, <1>7, <1>8 DEF Settles

(* The queue is empty when the data of the last transfer comes, and holds  *)
(* only that when the end of it does.                                      *)
LEMMA EnqueueSettles ==
    ASSUME Core, Settles, Enqueue
    PROVE Settles'
<1>. DEFINE y == First.arg
            b == ftp_data_buffer_
            h == Handler("send", First.id, Null)
            new == IF b = <<>> THEN <<h>> ELSE <<>>
<1>1. /\ strand # <<>> /\ First.do = "enqueue" /\ ThenPosts(new)
      /\ ftp_data_buffer_' = Append(b, y)
      /\ UNCHANGED <<writes, closed, final, file>>
      /\ UNCHANGED <<eof, sent, fin, transfers>>
    BY DEF Enqueue, Runs, KeepControl, client
<1>2. IsSeq(strand) /\ QueuedInPairs /\ IsSeq(b)
    BY DEF Core, StrandFits, SetsFit
<1>3. /\ IsSeq(ftp_data_buffer_') /\ Len(ftp_data_buffer_') = Len(b) + 1 /\ Len(b) \in Nat
      /\ \A k \in 1 .. Len(b) : ftp_data_buffer_'[k] = b[k]
      /\ ftp_data_buffer_'[Len(b) + 1] = y
  <2>. HIDE DEF b, y
  <2>. QED
    BY <1>1, <1>2, Appended
<1>4. Stays' /\ Calm /\ Over /\ QueueFits
    BY <1>1 DEF Settles, Stays
<1>5. h.do = "send"
    BY Fields
<1>. HIDE DEF h
<1>6. /\ IsSeq(new) /\ Pairs(new)
      /\ \A m \in 1 .. Len(new) : CalmHandler(new[m], fin', file', sent')
  <2>1. CASE b = <<>>
    <3>1. IsSeq(<<h>>) /\ Pairs(<<h>>) /\ \A m \in 1 .. Len(<<h>>) : <<h>>[m] = h
        BY <1>5, OneNew, Few
    <3>2. CalmHandler(h, fin', file', sent')
        BY <1>5 DEF CalmHandler
    <3>. QED
        BY <2>1, <3>1, <3>2
  <2>2. CASE b # <<>>
    BY <2>2, NoneNew, Few
  <2>. QED
    BY <2>1, <2>2
<1>7. b = <<>> => Len(new) = 1 /\ new[1].do = "send"
    BY <1>5, Few
<1>. HIDE DEF new
<1>8. Moves(1, new)
    BY <1>1, <1>2, <1>6, Moving
<1>9. Calm'
  <2>1. \A k \in 1 .. Len(strand) :
            k > 1 /\ strand[k].do \in {"read", "save"} => file'[strand[k].id] = file[strand[k].id]
    BY <1>1
  <2>2. UNCHANGED <<fin, sent>>
    BY <1>1
  <2>. QED
    BY <1>2, <1>4, <1>6, <1>8, <2>1, <2>2, CalmStays
<1>10. Over'
    BY <1>1, <1>4, SameOver
<1>11. CASE y # Null
  <2>1. Drives(First)
    BY <1>1, <1>11 DEF Drives, EndsQueue
  <2>2. writes = {} /\ Chain \subseteq {1}
    BY <1>1, <1>4, <2>1, FirstOnly
  <2>3. b = <<>>
    BY <1>1, <1>4, <2>2 DEF QueueFits, QueuedIsPending, Chain, First
  <2>4. Len(b) = 0 /\ Len(ftp_data_buffer_') = 1 /\ ftp_data_buffer_'[1] = y
    BY <1>3, <2>3, Few
  <2>5. QueuedIsPending'
    <3>1. Len(new) = 1 /\ new[1].do \in {"send", "written"}
        BY <1>7, <2>3
    <3>. QED
        BY <1>2, <1>8, <3>1, PendingNew
  <2>6. QueueFits'
    BY <1>11, <2>4, <2>5 DEF QueueFits, FrontFits
  <2>. QED
    BY <1>4, <1>9, <1>10, <2>6 DEF Settles
<1>12. CASE y = Null
  <2>1. EndsQueue(strand[1]) /\ ~Queues(strand[1])
    BY <1>1, <1>12 DEF EndsQueue, Queues, First
  <2>2. Len(b) = 1 /\ b[1] # Null
    BY <1>1, <1>4, <2>1 DEF QueueFits, FrontFits
  <2>3. Len(ftp_data_buffer_') = 2 /\ ftp_data_buffer_'[1] # Null
    BY <1>3, <2>2
  <2>4. FrontFits'
    BY <1>2, <1>6, <1>8, <2>1, FrontGone
  <2>5. QueuedIsPending'
    <3>1. b # <<>>
        BY <2>2, Few
    <3>2. strand[1].do \notin {"send", "written"} /\ writes' = writes /\ QueuedIsPending
        BY <1>1, <1>4 DEF First, QueueFits
    <3>. QED
        BY <1>2, <1>8, <3>1, <3>2, PendingKept
  <2>6. QueueFits'
    BY <2>3, <2>4, <2>5 DEF QueueFits
  <2>. QED
    BY <1>4, <1>9, <1>10, <2>6 DEF Settles
<1>. QED
    BY <1>11, <1>12

LEMMA SendSettles ==
    ASSUME Core, Settles, Send
    PROVE Settles'
<1>. DEFINE i == First.id
            b == ftp_data_buffer_
<1>1. /\ strand # <<>> /\ First.do = "send" /\ ThenPosts(<<>>)
      /\ UNCHANGED <<eof, sent, fin, file, transfers>>
    BY DEF Send, Runs, KeepControl, client
<1>2. Drives(First)
    BY <1>1 DEF Drives, EndsQueue
<1>3. i \in Begun /\ final[i] = <<>> /\ IsSeq(strand) /\ 1 \in 1 .. Len(strand) /\ QueuedInPairs /\ IsSeq(b)
    BY <1>1, <1>2, FirstFits DEF Core, SetsFit
<1>4. Stays' /\ Calm /\ Over /\ QueueFits
    BY <1>1 DEF Settles, Stays
<1>5. Moves(1, <<>>)
    BY <1>1, <1>3, Moving, Few
<1>6. Calm'
  <2>1. \A k \in 1 .. Len(strand) :
            k > 1 /\ strand[k].do \in {"read", "save"} => file'[strand[k].id] = file[strand[k].id]
    BY <1>1
  <2>2. \A m \in 1 .. Len(<<>>) : CalmHandler(<<>>[m], fin', file', sent')
    BY NoneNew
  <2>3. UNCHANGED <<fin, sent>>
    BY <1>1
  <2>. QED
    BY <1>3, <1>4, <1>5, <2>1, <2>2, <2>3, CalmStays
<1>7. FrontFits'
  <2>1. ~Queues(strand[1])
    BY <1>1 DEF Queues, First
  <2>. QED
    BY <1>3, <1>5, <2>1, NoneNew, FrontGone
<1>8. b # <<>>
  <2>1. 1 \in Chain
    BY <1>1, <1>3 DEF Chain, First
  <2>2. SenderFits(First, b, strand, transfers, received, fin)
    BY <2>1 DEF Core, SendersFit, First
  <2>. QED
    BY <1>1, <2>2 DEF SenderFits, BeginsWith
<1>9. Head(b) = b[1] /\ Len(b) \in Nat \ {0} /\ Len(Tail(b)) = Len(b) - 1 /\ IsSeq(Tail(b))
  <2>. HIDE DEF b
  <2>. QED
    BY <1>3, <1>8, Tailed
<1>10. CASE /\ writes' = writes \cup {[id |-> i, data |-> Head(b)]}
            /\ UNCHANGED <<ftp_data_buffer_, closed, final>>
  <2>1. writes' # {}
    BY <1>10
  <2>2. QueuedIsPending'
    BY <2>1 DEF QueuedIsPending
  <2>3. QueueFits'
    BY <1>4, <1>7, <1>10, <2>2 DEF QueueFits
  <2>4. Over'
    BY <1>1, <1>4, <1>10, SameOver
  <2>. QED
    BY <1>4, <1>6, <2>3, <2>4 DEF Settles
<1>11. CASE /\ Head(b) = Null
            /\ ftp_data_buffer_' = Tail(b) /\ closed' = closed \cup {i} /\ sendFinal(i, 226)
  <2>1. Len(b) = 1
    BY <1>4, <1>9, <1>11 DEF QueueFits
  <2>2. Len(Tail(b)) = 0 /\ Tail(b) = <<>>
    <3>. DEFINE t == Tail(b)
    <3>1. IsSeq(t) /\ Len(t) = 0
        BY <1>9, <2>1
    <3>. HIDE DEF t
    <3>2. t = <<>>
        BY <3>1, SeqLen
    <3>. QED
        BY <3>1, <3>2 DEF t
  <2>3. ftp_data_buffer_' = <<>> /\ Len(ftp_data_buffer_') = 0
    BY <1>11, <2>2
  <2>4. QueueFits'
    BY <1>7, <2>3 DEF QueueFits, QueuedIsPending
  <2>5. Over'
    <3>1. /\ 226 \in {226, 426, 450} /\ closed' \subseteq closed \cup {i} /\ transfers' = transfers
          /\ sendFinal(i, 226)
        BY <1>1, <1>11
    <3>. HIDE DEF i
    <3>. QED
        BY <1>3, <1>4, <3>1, OverGiven
  <2>. QED
    BY <1>4, <1>6, <2>4, <2>5 DEF Settles
<1>. QED
    BY <1>10, <1>11 DEF Send

LEMMA WrittenSettles ==
    ASSUME Core, Settles, Written
    PROVE Settles'
<1>. DEFINE b == ftp_data_buffer_
            h == Handler("send", First.id, Null)
<1>1. /\ strand # <<>> /\ First.do = "written"
      /\ ftp_data_buffer_' = Tail(b)
      /\ UNCHANGED <<eof, sent, fin, file, transfers, closed, final>>
    BY DEF Written, Runs, KeepControl, client
<1>2. 1 \in 1 .. Len(strand) /\ IsSeq(strand) /\ QueuedInPairs /\ IsSeq(b)
    BY <1>1, FirstFits DEF Core, SetsFit
<1>3. Stays' /\ Calm /\ Over /\ QueueFits
    BY <1>1 DEF Settles, Stays
<1>4. First.arg = "ok"
    BY <1>1, <1>2, <1>3 DEF Calm, CalmHandler, First
<1>5. b # <<>> /\ Len(b) # 1
  <2>1. 1 \in Chain
    BY <1>1, <1>2 DEF Chain, First
  <2>2. SenderFits(First, b, strand, transfers, received, fin)
    BY <2>1 DEF Core, SendersFit, First
  <2>. QED
    BY <1>1, <2>2 DEF SenderFits, BeginsWith
<1>6. Len(b) \in Nat \ {0} /\ Len(Tail(b)) = Len(b) - 1 /\ IsSeq(Tail(b))
  <2>. HIDE DEF b
  <2>. QED
    BY <1>2, <1>5, Tailed
<1>7. Len(Tail(b)) = 1 /\ Tail(b) # <<>>
  <2>1. Len(b) <= 2
    BY <1>3 DEF QueueFits
  <2>2. Len(Tail(b)) = 1
    BY <1>5, <1>6, <2>1
  <2>3. Len(<<>>) = 0
    BY Few
  <2>4. ASSUME Tail(b) = <<>> PROVE FALSE
    <3>1. Len(Tail(b)) = Len(<<>>)
        BY <2>4
    <3>. QED
        BY <2>2, <2>3, <3>1
  <2>. QED
    BY <2>2, <2>4
<1>8. ThenPosts(<<h>>)
    BY <1>4, <1>7 DEF Written
<1>9. h.do = "send"
    BY Fields
<1>. HIDE DEF h
<1>10. IsSeq(<<h>>) /\ Len(<<h>>) = 1 /\ <<h>>[1] = h /\ Pairs(<<h>>) /\ \A m \in 1 .. Len(<<h>>) : <<h>>[m] = h
    BY <1>9, OneNew, Few
<1>11. Moves(1, <<h>>)
    BY <1>1, <1>2, <1>8, <1>10, Moving
<1>12. Calm'
  <2>1. \A k \in 1 .. Len(strand) :
            k > 1 /\ strand[k].do \in {"read", "save"} => file'[strand[k].id] = file[strand[k].id]
    BY <1>1
  <2>2. CalmHandler(h, fin', file', sent')
    BY <1>9 DEF CalmHandler
  <2>3. UNCHANGED <<fin, sent>>
    BY <1>1
  <2>. QED
    BY <1>2, <1>3, <1>10, <1>11, <2>1, <2>2, <2>3, CalmStays
<1>13. QueueFits'
  <2>1. QueuedIsPending'
    BY <1>2, <1>9, <1>10, <1>11, PendingNew
  <2>2. ~Queues(strand[1])
    BY <1>1 DEF Queues, First
  <2>3. FrontFits'
    BY <1>2, <1>10, <1>11, <2>2, FrontGone
  <2>. QED
    BY <1>1, <1>7, <2>1, <2>3 DEF QueueFits
<1>14. Over'
    BY <1>1, <1>3, SameOver
<1>. QED
    BY <1>3, <1>12, <1>13, <1>14 DEF Settles

LEMMA NextSettles ==
    ASSUME Obliging, Core, Settles, Next
    PROVE Settles'
<1>1. CASE Command
    BY <1>1, CommandSettles
<1>2. CASE Leave
    BY <1>2 DEF Leave, Obliging
<1>3. CASE ReceiveFails
    BY <1>3 DEF ReceiveFails, Settles, Stays
<1>4. CASE Connect \/ Elsewhere
  <2>1. UNCHANGED <<eof, fin, sent, file, transfers, closed, final, ftp_data_buffer_, writes, strand>>
    BY <1>4 DEF Connect, Elsewhere, KeepSession, client, streams
  <2>. QED
    BY <2>1, QuietSettles
<1>5. CASE Close
  <2>1. strand # <<>> /\ First.do = "close"
    BY <1>5 DEF Close, Runs
  <2>2. 1 \in 1 .. Len(strand)
    BY <2>1, FirstFits
  <2>. QED
    BY <2>1, <2>2 DEF Settles, Calm, CalmHandler, First
<1>6. CASE DataStrand
    BY <1>5, <1>6, AbortedSettles, AcceptedSettles, EnqueueSettles, SendSettles, WrittenSettles,
       ReadSettles, SaveSettles DEF DataStrand
<1>7. CASE Network
    BY <1>4, <1>7, AcceptSettles, WriteDoneSettles, ReadDoneSettles DEF Network
<1>8. ASSUME NEW i \in Ids, ClientSends(i) \/ ClientEnds(i) \/ ClientResets(i) PROVE Settles'
  <2>1. ~ClientResets(i)
    BY DEF ClientResets, Obliging
  <2>. QED
    BY <1>8, <2>1, ClientSettles
<1>. QED
    BY <1>1, <1>2, <1>3, <1>4, <1>6, <1>7, <1>8 DEF Next

LEMMA InitSettles == Init => Settles
<1>. SUFFICES ASSUME Init PROVE Settles
    OBVIOUS
<1>1. /\ eof = FALSE /\ fin = [i \in Ids |-> "open"]
      /\ strand = <<>> /\ ftp_data_buffer_ = <<>> /\ transfers = <<>>
    BY DEF Init
<1>2. Len(<<>>) = 0
    BY Few
<1>. QED
    BY <1>1, <1>2 DEF Settles, Stays, Calm, Over, QueueFits, FrontFits, QueuedIsPending, Begun

(* An obliging client's transfers come one by one: only the last of them   *)
(* is under way, the queue holds the data of that one and the end of it,   *)
(* and a read that ends before the buffer is full has come to the end.     *)
THEOREM ComeOneByOne == Obliging => (Spec => []OneByOneInv)
<1>. SUFFICES ASSUME Obliging PROVE Spec => []OneByOneInv
    OBVIOUS
<1>1. Init => OneByOneInv
    BY InitIInv, InitSettles, OneByOneIs DEF OneByOneInv
<1>2. OneByOneInv /\ [Next]_vars => OneByOneInv'
  <2>. SUFFICES ASSUME OneByOneInv, [Next]_vars PROVE IInv' /\ Settles'
    BY OneByOneNext
  <2>1. IInv /\ Core /\ Settles
    BY OneByOneIs, IInvIs DEF OneByOneInv
  <2>2. CASE Next
    BY <2>1, <2>2, NextIInv, NextSettles
  <2>3. CASE UNCHANGED vars
    <3>1. UNCHANGED <<eof, fin, sent, file, transfers, closed, final, ftp_data_buffer_, writes, strand>>
        BY <2>3 DEF vars, client, streams
    <3>. QED
        BY <2>1, <2>3, <3>1, StutterIInv, QuietSettles
  <2>. QED
    BY <2>2, <2>3
<1>. QED
    BY <1>1, <1>2, PTL DEF Spec

(* Whenever the queue is not empty a write is pending (session.cpp:247).   *)
THEOREM QueueIsPending == Obliging => (Spec => []QueuedIsPending)
<1>1. OneByOneInv => QueuedIsPending
    BY DEF OneByOneInv, OneByOne
<1>. QED
    BY <1>1, ComeOneByOne, PTL

(* A file that appears is the whole of an upload. *)
THEOREM FilesAreWhole == Obliging => (Spec => StoredFilesAreWhole)
<1>. DEFINE Whole == \A p \in DOMAIN fs' \ DOMAIN fs :
                fs'[p] = OtherFile \/
                \E i \in 1 .. Len(transfers) :
                    transfers[i].path = p /\ fin[i] = "eof" /\ fs'[p] = Upload(i)
<1>1. OneByOneInv /\ Next => Whole
  <2>. SUFFICES ASSUME OneByOneInv, Next, NEW p \in DOMAIN fs', p \notin DOMAIN fs
                PROVE fs'[p] = OtherFile \/
                      \E i \in 1 .. Len(transfers) :
                          transfers[i].path = p /\ fin[i] = "eof" /\ fs'[p] = Upload(i)
    OBVIOUS
  <2>1. ASSUME NEW q, NEW f, add(q, f) PROVE p = q /\ fs'[p] = f
    BY <2>1 DEF add
  <2>2. ~(fs' = fs) /\ ~\E q : remove(q)
    BY DEF remove
  <2>3. CASE \E q : add(q, OtherFile)
    BY <2>1, <2>3
  <2>4. CASE Save
    <3>. DEFINE i == First.id
    <3>1. strand # <<>> /\ First.do = "save" /\ add(transfers[i].path, file[i])
        BY <2>4 DEF Save, Runs
    <3>2. Core
        BY IInvIs DEF OneByOneInv
    <3>3. i \in Begun /\ 1 \in 1 .. Len(strand)
        BY <3>1, <3>2, FirstFits
    <3>4. fin[i] = "eof" /\ file[i] = Upload(i)
        BY <3>1, <3>3 DEF OneByOneInv, OneByOne, First
    <3>5. p = transfers[i].path /\ fs'[p] = file[i]
        BY <2>1, <3>1
    <3>. HIDE DEF i
    <3>. QED
        BY <3>3, <3>4, <3>5 DEF Begun
  <2>. QED
    BY <2>2, <2>3, <2>4, FilesDo
<1>2. OneByOneInv /\ [Next]_vars => [Whole]_vars
    BY <1>1
<1>. HIDE DEF Whole
<1>3. Obliging => (Spec => [][Whole]_vars)
    BY <1>2, ComeOneByOne, PTL DEF Spec
<1>. QED
    BY <1>3 DEF StoredFilesAreWhole, Whole
=============================================================================
