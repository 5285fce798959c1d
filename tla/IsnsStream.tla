---------------------------- MODULE IsnsStream -----------------------------
(***************************************************************************)
(* The thread that reads one TCP connection (TCP_RecvThread in iSNStrcv.c) *)
(* cuts the stream of bytes into messages and forwards them to main.       *)
(* A byte is known by its place in the stream.  A message is its header,   *)
(* which gives the length, and what follows it.                            *)
(***************************************************************************)
EXTENDS Integers, Sequences, SequencesExt, FiniteSetsExt, Functions

CONSTANTS
  Header,     \* bytes of a header (sizeof(SNS_Msg_Hdr))
  MaxBuffer,  \* bytes of the buffer (MAX_BUFFER)
  Sizes,      \* the sizes of the messages that clients send
  MaxSent     \* bound: messages that the client sends

ASSUME StreamAssumption ==
  /\ Header \in Nat \ {0} /\ MaxBuffer \in Nat \ {0} /\ Header <= MaxBuffer
  /\ Sizes \subseteq Nat /\ \A s \in Sizes : s >= Header
  /\ MaxSent \in Nat

VARIABLES
  sent,        \* the sizes of the messages that the client has sent
  written,     \* the bytes that it has sent of them
  hungUp,      \* the client has closed the connection
  pipelined,   \* it has sent a message before the one before was forwarded
  received,    \* the bytes that the thread has received
  buffer, startIndex, endIndex,
  pc,          \* where the thread is
  closedBy,    \* why the thread has closed the connection
  sns_ready,
  forwarded    \* the bytes of each message forwarded

client == <<sent, written, hungUp, pipelined>>
thread == <<received, buffer, startIndex, endIndex, pc, closedBy, forwarded>>
vars == <<client, thread, sns_ready>>

Junk == -1   \* a place of the buffer that nothing was received into

TypeOK ==
  /\ sent \in Seq(Sizes) /\ Len(sent) <= MaxSent
  /\ received \in Nat /\ written \in Nat /\ received <= written
  /\ buffer \in [1 .. MaxBuffer -> {Junk} \cup 0 .. written]
  /\ 0 <= startIndex /\ startIndex <= endIndex /\ endIndex <= MaxBuffer
  /\ pc \in {"poll", "parse", "closed", "astray"}
  /\ closedBy \in {"nobody", "client", "full", "timeout", "error"}
  /\ {hungUp, pipelined, sns_ready} \subseteq BOOLEAN

Init ==
  /\ sent = <<>> /\ written = 0 /\ hungUp = FALSE /\ pipelined = FALSE
  /\ received = 0 /\ buffer = [i \in 1 .. MaxBuffer |-> Junk]
  /\ startIndex = 0 /\ endIndex = 0
  /\ pc = "poll" /\ closedBy = "nobody"
  /\ sns_ready = FALSE /\ forwarded = <<>>

\* The places in the stream behind the messages whose sizes are s.
Ends(s) ==
  LET f[i \in 0 .. Len(s)] == IF i = 0 THEN 0 ELSE f[i - 1] + s[i] IN f

\* The place in the stream behind the i-th message.
End(i) == Ends(sent)[i]

\* The bytes of the i-th message.
Message(i) == [k \in 1 .. sent[i] |-> End(i - 1) + k - 1]

(***************************************************************************)
(* The client.                                                             *)
(***************************************************************************)

Send ==
  /\ ~hungUp /\ Len(sent) < MaxSent
  /\ \E s \in Sizes :
       /\ sent' = Append(sent, s)
       /\ \/ written' = written + s /\ hungUp' = FALSE
          \/ \E k \in 1 .. s - 1 : written' = written + k /\ hungUp' = TRUE
  /\ pipelined' = (pipelined \/ Len(forwarded) < Len(sent))
  /\ UNCHANGED <<thread, sns_ready>>

HangUp ==
  /\ ~hungUp /\ hungUp' = TRUE
  /\ UNCHANGED <<sent, written, pipelined, thread, sns_ready>>

SetReady ==
  /\ ~sns_ready /\ sns_ready' = TRUE
  /\ UNCHANGED <<client, thread>>

(***************************************************************************)
(* The thread.                                                             *)
(***************************************************************************)

Close(why) ==
  /\ pc' = "closed" /\ closedBy' = why
  /\ UNCHANGED <<received, buffer, startIndex, endIndex, forwarded>>

Readable == written > received \/ hungUp

\* Mutant: the thread polls again when there is no room.
RecvEndOfFile ==
  /\ pc = "poll" /\ Readable
  /\ endIndex < MaxBuffer /\ written = received /\ Close("client")
  /\ UNCHANGED <<client, sns_ready>>

\* recv of nothing ends the connection: the client has hung up, or there is
\* no room to receive into.
RecvNothing ==
  /\ pc = "poll" /\ Readable
  /\ \/ endIndex = MaxBuffer /\ Close("full")
     \/ endIndex < MaxBuffer /\ written = received /\ Close("client")
  /\ UNCHANGED <<client, sns_ready>>

\* Mutant: the room is taken to be the whole buffer.
RecvAnywhere ==
  /\ pc = "poll"
  /\ \E n \in 1 .. Min({MaxBuffer, written - received}) :
       /\ buffer' = [i \in 1 .. MaxBuffer |->
                       IF i \in endIndex + 1 .. endIndex + n
                       THEN received + i - endIndex - 1 ELSE buffer[i]]
       /\ endIndex' = endIndex + n /\ received' = received + n
  /\ pc' = "parse"
  /\ UNCHANGED <<client, startIndex, closedBy, forwarded, sns_ready>>

Recv ==
  /\ pc = "poll"
  /\ \E n \in 1 .. Min({MaxBuffer - endIndex, written - received}) :
       /\ buffer' = [i \in 1 .. MaxBuffer |->
                       IF i \in endIndex + 1 .. endIndex + n
                       THEN received + i - endIndex - 1 ELSE buffer[i]]
       /\ endIndex' = endIndex + n /\ received' = received + n
  /\ pc' = "parse"
  /\ UNCHANGED <<client, startIndex, closedBy, forwarded, sns_ready>>

\* poll sees nothing for the time of SOCKET_TIMEOUT_VALUE, or poll or recv
\* fails.
Timeout ==
  /\ pc = "poll" /\ ~Readable /\ Close("timeout")
  /\ UNCHANGED <<client, sns_ready>>

Fail ==
  /\ pc = "poll" /\ Close("error")
  /\ UNCHANGED <<client, sns_ready>>

Pending == endIndex - startIndex

Bytes(n) == SubSeq(buffer, startIndex + 1, startIndex + n)

\* msg_size, read from the header at startIndex; where no header begins
\* there, the bytes still give some number.
MsgSize ==
  LET here == {i \in 1 .. Len(sent) :
                 IsPrefix(Bytes(Header), Message(i))}
  IN  IF here = {} THEN Header ELSE sent[CHOOSE i \in here : TRUE]

\* Mutant: the part of the message that has arrived is forwarded.
HasHeader == Pending >= Header

HasMessage == Pending >= Header /\ Pending >= MsgSize

\* The message is forwarded, once the server is ready; its header is then in the
\* byte order of the host, which is left out here.
Forward ==
  /\ pc = "parse" /\ HasMessage /\ sns_ready
  /\ forwarded' = Append(forwarded, Bytes(MsgSize))
  /\ startIndex' = startIndex + MsgSize
  /\ UNCHANGED <<client, received, buffer, endIndex, pc, closedBy, sns_ready>>

\* Mutant: what is pending stays where it is in the buffer.
NotMoved ==
  /\ pc = "parse" /\ ~HasMessage
  /\ IF Pending = 0 THEN startIndex' = 0 /\ endIndex' = 0
     ELSE UNCHANGED <<startIndex, endIndex>>
  /\ pc' = "poll"
  /\ UNCHANGED <<client, received, buffer, closedBy, forwarded, sns_ready>>

\* Mutant: the indices go on from a buffer that is empty.
MoveNotReset ==
  /\ pc = "parse" /\ ~HasMessage /\ Pending = 0
  /\ pc' = "poll"
  /\ UNCHANGED <<client, received, buffer, startIndex, endIndex, closedBy,
                 forwarded, sns_ready>>

MoveUnlessEmpty ==
  \/ MoveNotReset
  \/ /\ pc = "parse" /\ ~HasMessage /\ Pending > 0
     /\ startIndex' = 0 /\ endIndex' = Pending
     /\ \/ /\ buffer' = [i \in 1 .. MaxBuffer |->
                           IF i <= Pending THEN buffer[startIndex + i]
                           ELSE buffer[i]]
           /\ pc' = "poll"
        \/ /\ 0 < startIndex /\ startIndex < Pending
           /\ buffer' = buffer /\ pc' = "astray"
     /\ UNCHANGED <<client, received, closedBy, forwarded, sns_ready>>

\* What is pending moves to the begin of the buffer.  memcpy is defined only
\* where the two places do not overlap: otherwise what the buffer holds then
\* depends on the library, and what is read from it later is not modelled.
Move ==
  /\ pc = "parse" /\ ~HasMessage
  /\ startIndex' = 0 /\ endIndex' = Pending
  /\ \/ /\ buffer' = [i \in 1 .. MaxBuffer |->
                        IF i <= Pending THEN buffer[startIndex + i]
                        ELSE buffer[i]]
        /\ pc' = "poll"
     \/ /\ 0 < startIndex /\ startIndex < Pending
        /\ buffer' = buffer /\ pc' = "astray"
  /\ UNCHANGED <<client, received, closedBy, forwarded, sns_ready>>

Next ==
  \/ Send \/ HangUp \/ SetReady
  \/ RecvNothing \/ Recv \/ Timeout \/ Fail \/ Forward \/ Move

Spec == Init /\ [][Next]_vars

\* The thread runs, and the server becomes ready.  A timeout or a failure is
\* not bound to happen.
FairSpec ==
  /\ Spec
  /\ WF_vars(RecvNothing \/ Recv \/ Forward \/ Move)
  /\ WF_vars(SetReady)

(***************************************************************************)
(* Properties.                                                             *)
(***************************************************************************)

Complete == {i \in 1 .. Len(sent) : End(i) <= written}
Oversized == {i \in 1 .. Len(sent) : sent[i] > MaxBuffer}

\* However the network cuts the stream, the messages forwarded are the first
\* ones sent, each byte for byte, and main never gets a part of one.
Intact ==
  /\ Len(forwarded) <= Cardinality(Complete)
  /\ \A i \in 1 .. Len(forwarded) : forwarded[i] = Message(i)

\* Only a client that sends a message before the one before was forwarded can
\* make the buffer overlap itself.
SerialNeverAstray == pc = "astray" => pipelined

\* A connection is closed for want of room only at a message that does not fit
\* into the whole buffer, and because the client has hung up only when every
\* message it sent in full has been forwarded.
ClosedRightly ==
  /\ closedBy = "full" => Len(forwarded) + 1 \in Oversized
  /\ closedBy = "client" => Len(forwarded) = Cardinality(Complete)

\* Each message that arrives in full is forwarded, unless its connection ends:
\* a message that is too long for the buffer does not leave it waiting.
EachSettled ==
  \A i \in 1 .. MaxSent :
    i \in Complete ~> Len(forwarded) >= i \/ pc \in {"closed", "astray"}
=============================================================================
