------------------------- MODULE IsnsClientProofs --------------------------
(***************************************************************************)
(* Theorems about the threads of the iSNS client: whatever they do to the  *)
(* buffer and the ring they share, an inquiry is echoed; and as long as    *)
(* they have not met in either, a command gets its own answer.             *)
(***************************************************************************)
EXTENDS IsnsClient, SequenceTheorems, TLAPS

Msgs == [kind : {"none", "rsp", "esi", "scn"}, xid : 0 .. MaxCmds + MaxEvents]

(***************************************************************************)
(* What holds whatever the threads do.                                     *)
(***************************************************************************)

Types ==
  /\ cmd \in Buffers /\ rbuffer \in Buffers /\ toServer \in Seq(Buffers)
  /\ ui \in {"idle", "append", "convert", "send", "wait", "gone"}
  /\ xid \in 0 .. MaxCmds /\ events \in 0 .. MaxEvents
  /\ rcv \in {"recv", "create", "append", "convert", "send", "copy"}
  /\ toClient \in Seq(Msgs) /\ msg \in Msgs
  /\ msg_q \in [Slots -> -1 .. MaxCmds] /\ answer \in -1 .. MaxCmds
  /\ msgCurrentIndex \in Slots /\ msgCurrentHead \in Slots
  /\ enableESIFlag \in BOOLEAN /\ deaf \in BOOLEAN /\ dropped \in BOOLEAN
  /\ spoilt \in BOOLEAN /\ torn \in BOOLEAN

\* The numbers of commands and of the server's own messages do not overlap.
Numbering(b) == b.func = "req" => b.xid <= MaxCmds
Kinds(m) == /\ m.kind = "rsp" => m.xid <= MaxCmds
            /\ m.kind \in {"esi", "scn"} => m.xid > MaxCmds

Numbers ==
  /\ Numbering(cmd) /\ Numbering(rbuffer)
  /\ \A i \in DOMAIN toServer : Numbering(toServer[i])
  /\ Kinds(msg)
  /\ \A i \in DOMAIN toClient : Kinds(toClient[i]) /\ toClient[i].kind # "none"

\* Where the receiving thread is tells what it has received.
Receiving ==
  /\ rcv = "copy" => msg.kind = "rsp"
  /\ rcv \in {"create", "append", "convert", "send"} => msg.kind \in {"esi", "scn"}

\* The response to an inquiry is built in a buffer that no one else writes.
Echoed(b) == b.func = "esirsp" => WellFormed(b) /\ b.xid > MaxCmds

Echoing ==
  /\ cmd.func # "esirsp"
  /\ \A i \in DOMAIN toServer : Echoed(toServer[i])
  /\ msg.kind = "esi" /\ rcv \in {"append", "convert", "send"} =>
       /\ rbuffer.func = "esirsp" /\ rbuffer.xid = msg.xid
       /\ rbuffer.parts = IF rcv = "append" THEN <<>> ELSE <<"esirsp">>
       /\ rbuffer.swapped = (rcv = "send")

(***************************************************************************)
(* What holds as long as the threads have not met.                         *)
(***************************************************************************)

Requests == {i \in DOMAIN toServer : toServer[i].func = "req"}
Answers  == {i \in DOMAIN toClient : toClient[i].kind = "rsp"}
Full     == {i \in Slots : msg_q[i] # 0}

\* Only one thread at a time builds in `cmd', and the buffer is its own.
Alone ==
  /\ ~(Building /\ Notifying)
  /\ Building => cmd.func = "req" /\ cmd.xid = xid
  /\ Notifying => cmd.func = "scnrsp"

\* The command that is waited for is in one place: on its way to the server,
\* on its way back, or in the entry of the ring that the menu looks at.
InOnePlace ==
  /\ \A i, j \in Requests : i = j
  /\ \A i, j \in Answers : i = j
  /\ Requests # {} => Answers = {} /\ Full = {}
  /\ Answers # {} => Full = {}
  /\ Full \subseteq {msgCurrentHead}

\* Whatever is under way has the number of the command that is waited for.
OwnNumber ==
  /\ Requests # {} \/ Answers # {} \/ Full # {} => ui = "wait"
  /\ \A i \in Requests : toServer[i].xid = xid
  /\ \A i \in Answers : toClient[i].xid = xid
  /\ rcv = "copy" => msg.xid = xid
  /\ \A i \in Full : msg_q[i] = IF rcv = "copy" THEN -1 ELSE xid

\* The two indexes of the ring agree.
Aligned ==
  /\ rcv = "copy" => Full # {}
  /\ msgCurrentIndex = IF Full # {} /\ rcv # "copy"
                       THEN NextIndex(msgCurrentHead) ELSE msgCurrentHead

MenuState ==
  /\ ui # "gone"
  /\ ui # "idle" => xid > 0 /\ answer = 0
  /\ answer \in {0, xid}

Paired == Alone /\ InOnePlace /\ OwnNumber /\ Aligned /\ MenuState

Safe == Types /\ Numbers /\ Receiving /\ Echoing

\* A client that has ended has left its last command where it was.
Ended == Unharmed /\ ui = "gone" => answer \in {0, xid}

Inv == Safe /\ Ended /\ (Unharmed /\ ui # "gone" => Paired)

(***************************************************************************)
(* Sequences and buffers.                                                  *)
(***************************************************************************)

LEMMA AppendElements ==
  ASSUME NEW S, NEW s \in Seq(S), NEW x \in S
  PROVE  /\ Append(s, x) \in Seq(S)
         /\ Len(s) \in Nat /\ DOMAIN s = 1 .. Len(s)
         /\ DOMAIN Append(s, x) = 1 .. Len(s) + 1
         /\ \A i \in DOMAIN s : Append(s, x)[i] = s[i]
         /\ Append(s, x)[Len(s) + 1] = x
OBVIOUS

LEMMA TailElements ==
  ASSUME NEW S, NEW s \in Seq(S), s # <<>>
  PROVE  /\ Tail(s) \in Seq(S)
         /\ Head(s) = s[1] /\ Head(s) \in S /\ 1 \in DOMAIN s
         /\ DOMAIN s \subseteq Nat
         /\ \A i \in DOMAIN Tail(s) : i + 1 \in DOMAIN s /\ Tail(s)[i] = s[i + 1]
OBVIOUS

LEMMA BufferOperations ==
  /\ \A f \in Funcs, n \in 0 .. MaxCmds + MaxEvents :
       /\ Hdr(f, n) \in Buffers
       /\ Hdr(f, n).func = f /\ Hdr(f, n).xid = n
       /\ Hdr(f, n).parts = <<>> /\ Hdr(f, n).swapped = FALSE
  /\ \A b \in Buffers, f \in Funcs :
       /\ Append1(b, f) \in Buffers
       /\ Append1(b, f).func = b.func /\ Append1(b, f).xid = b.xid
       /\ Append1(b, f).parts = Append(b.parts, f)
       /\ Append1(b, f).swapped = b.swapped
  /\ \A b \in Buffers :
       /\ Swap(b) \in Buffers
       /\ Swap(b).func = b.func /\ Swap(b).xid = b.xid
       /\ Swap(b).parts = b.parts /\ Swap(b).swapped = ~b.swapped
<1>1. ASSUME NEW f \in Funcs, NEW n \in 0 .. MaxCmds + MaxEvents
      PROVE  /\ Hdr(f, n) \in Buffers
             /\ Hdr(f, n).func = f /\ Hdr(f, n).xid = n
             /\ Hdr(f, n).parts = <<>> /\ Hdr(f, n).swapped = FALSE
  BY DEF Hdr, Buffers
<1>2. ASSUME NEW b \in Buffers, NEW f \in Funcs
      PROVE  /\ Append1(b, f) \in Buffers
             /\ Append1(b, f).func = b.func /\ Append1(b, f).xid = b.xid
             /\ Append1(b, f).parts = Append(b.parts, f)
             /\ Append1(b, f).swapped = b.swapped
  <2>1. b.parts \in Seq(Funcs)
    BY DEF Buffers
  <2>2. Append(b.parts, f) \in Seq(Funcs)
    BY <2>1
  <2> QED BY <2>2 DEF Append1, Buffers
<1>3. ASSUME NEW b \in Buffers
      PROVE  /\ Swap(b) \in Buffers
             /\ Swap(b).func = b.func /\ Swap(b).xid = b.xid
             /\ Swap(b).parts = b.parts /\ Swap(b).swapped = ~b.swapped
  BY DEF Swap, Buffers
<1> QED BY <1>1, <1>2, <1>3

LEMMA NextIndexType == \A i \in Slots : NextIndex(i) \in Slots
BY ClientAssumption DEF NextIndex, Slots

(***************************************************************************)
(* The steps, whatever the threads do.                                     *)
(***************************************************************************)

LEMMA MenuSafe ==
  ASSUME Safe, MenuNext \/ SetESI
  PROVE  Safe'
<1> USE DEF Safe, menu, receiver, server
<1>1. CASE CreateCommand
  <2>1. xid' \in 0 .. MaxCmds /\ cmd' = Hdr("req", xid')
    BY <1>1, ClientAssumption DEF CreateCommand, Types
  <2>2. cmd' \in Buffers /\ cmd'.func = "req" /\ cmd'.xid = xid'
    BY <2>1, BufferOperations, ClientAssumption DEF Funcs
  <2>3. Types'
    BY <1>1, <2>1, <2>2, ClientAssumption
       DEF CreateCommand, MenuStep, Types, Notifying
  <2>4. Numbers' /\ Receiving'
    BY <1>1, <2>1, <2>2, ClientAssumption
       DEF CreateCommand, Numbers, Numbering, Kinds, Receiving
  <2>5. Echoing'
    BY <1>1, <2>2 DEF CreateCommand, Echoing, Echoed, WellFormed
  <2> QED BY <2>3, <2>4, <2>5
<1>2. CASE AppendAttr \/ ConvertCommand
  <2>1. /\ cmd' \in Buffers /\ cmd'.func = cmd.func /\ cmd'.xid = cmd.xid
        /\ UNCHANGED <<xid, answer, enableESIFlag, receiver, server, toServer,
                       msg_q, msgCurrentHead, spoilt, torn>>
        /\ ui' \in {"convert", "send"}
    BY <1>2, BufferOperations
       DEF AppendAttr, ConvertCommand, MenuStep, Types, Funcs
  <2>2. Types'
    BY <2>1 DEF Types
  <2>3. Numbers' /\ Receiving' /\ Echoing'
    BY <2>1 DEF Numbers, Numbering, Kinds, Receiving, Echoing, Echoed, WellFormed
  <2> QED BY <2>2, <2>3
<1>3. CASE GiveUp
  BY <1>3 DEF GiveUp, MenuStep, Types, Numbers, Receiving, Echoing
<1>4. CASE SendCommand
  <2>1. /\ toServer' = Append(toServer, cmd) /\ ui' = "wait"
        /\ UNCHANGED <<xid, answer, enableESIFlag, receiver, server, cmd, msg_q,
                       msgCurrentHead, spoilt, torn>>
    BY <1>4 DEF SendCommand, MenuStep
  <2>2. /\ toServer' \in Seq(Buffers)
        /\ \A i \in DOMAIN toServer' :
             toServer'[i] = cmd \/ \E j \in DOMAIN toServer : toServer'[i] = toServer[j]
    BY <2>1, AppendElements DEF Types
  <2>3. Types'
    BY <2>1, <2>2 DEF Types
  <2>4. Numbers' /\ Receiving' /\ Echoing'
    BY <2>1, <2>2 DEF Numbers, Numbering, Kinds, Receiving, Echoing, Echoed,
                      WellFormed
  <2> QED BY <2>3, <2>4
<1>5. CASE GetMsg
  <2>1. /\ answer' \in -1 .. MaxCmds /\ msg_q' \in [Slots -> -1 .. MaxCmds]
        /\ msgCurrentHead' \in Slots /\ torn' \in BOOLEAN /\ ui' = "idle"
    BY <1>5, NextIndexType, ClientAssumption DEF GetMsg, MenuStep, Types
  <2> QED BY <1>5, <2>1 DEF GetMsg, Types, Numbers, Receiving, Echoing
<1>6. CASE SetESI
  BY <1>6 DEF SetESI, Types, Numbers, Receiving, Echoing
<1> QED BY <1>1, <1>2, <1>3, <1>4, <1>5, <1>6 DEF MenuNext

LEMMA ServerSafe ==
  ASSUME Safe, Notice \/ Serve \/ Lose
  PROVE  Safe'
<1> USE DEF Safe, menu, receiver, server
<1>1. CASE Notice
  <2>1. PICK k \in {"esi", "scn"} :
          toClient' = Append(toClient, [kind |-> k, xid |-> MaxCmds + events'])
    BY <1>1 DEF Notice
  <2> DEFINE m == [kind |-> k, xid |-> MaxCmds + events']
  <2>2. events' \in 0 .. MaxEvents /\ events' > 0
    BY <1>1, ClientAssumption DEF Notice, Types
  <2>3. m \in Msgs /\ Kinds(m) /\ m.kind # "none"
    <3> DEFINE n == MaxCmds + events'
    <3>0. \A e \in 1 .. MaxEvents :
            MaxCmds + e \in 0 .. MaxCmds + MaxEvents /\ MaxCmds + e > MaxCmds
      BY ONLY ClientAssumption
    <3>1. n \in 0 .. MaxCmds + MaxEvents /\ n > MaxCmds
      <4>1. events' \in 1 .. MaxEvents
        BY <2>2, ClientAssumption
      <4> QED BY <3>0, <4>1
    <3> HIDE DEF n
    <3>2. m.kind = k /\ m.xid = n
      BY DEF n
    <3>3. m \in Msgs
      BY <3>1 DEF Msgs, n
    <3> QED BY <3>1, <3>2, <3>3 DEF Kinds
  <2> HIDE DEF m
  <2>4. /\ toClient' \in Seq(Msgs)
        /\ \A i \in DOMAIN toClient' :
             toClient'[i] = m \/ \E j \in DOMAIN toClient : toClient'[i] = toClient[j]
    BY <2>1, <2>3, AppendElements DEF Types, m
  <2>5. Types'
    BY <1>1, <2>2, <2>4 DEF Notice, Types
  <2>6. Numbers' /\ Receiving' /\ Echoing'
    BY <1>1, <2>3, <2>4
       DEF Notice, Numbers, Numbering, Kinds, Receiving, Echoing, Echoed, WellFormed
  <2> QED BY <2>5, <2>6
<1>2. CASE Serve
  <2> DEFINE b == Head(toServer)
             m == [kind |-> "rsp", xid |-> b.xid]
  <2>1. toServer # <<>> /\ toServer' = Tail(toServer)
    BY <1>2 DEF Serve
  <2>2. /\ toServer' \in Seq(Buffers) /\ b \in Buffers /\ Numbering(b)
        /\ \A i \in DOMAIN toServer' :
             \E j \in DOMAIN toServer : toServer'[i] = toServer[j]
    BY <2>1, TailElements DEF Types, Numbers
  <2>3. b.func = "req" => m \in Msgs /\ Kinds(m) /\ m.kind # "none"
    BY <2>2, ClientAssumption DEF Msgs, Kinds, Numbering, Buffers
  <2>4. /\ deaf' \in BOOLEAN
        /\ \/ toClient' = toClient
           \/ b.func = "req" /\ toClient' = Append(toClient, m)
    BY <1>2 DEF Serve, Types, WellFormed
  <2> HIDE DEF m, b
  <2>5. /\ toClient' \in Seq(Msgs)
        /\ \A i \in DOMAIN toClient' :
             Kinds(toClient'[i]) /\ toClient'[i].kind # "none"
    <3>1. CASE toClient' = toClient
      BY <3>1 DEF Types, Numbers
    <3>2. CASE b.func = "req" /\ toClient' = Append(toClient, m)
      <4>1. m \in Msgs /\ Kinds(m) /\ m.kind # "none"
        BY <2>3, <3>2
      <4>2. /\ toClient' \in Seq(Msgs)
            /\ \A i \in DOMAIN toClient' : i \in DOMAIN toClient \/ toClient'[i] = m
            /\ \A i \in DOMAIN toClient : toClient'[i] = toClient[i]
        BY <3>2, <4>1, AppendElements DEF Types
      <4> QED BY <4>1, <4>2 DEF Numbers
    <3> QED BY <2>4, <3>1, <3>2
  <2>6. Types'
    BY <1>2, <2>2, <2>4, <2>5 DEF Serve, Types
  <2>7. Numbers' /\ Receiving' /\ Echoing'
    BY <1>2, <2>2, <2>5
       DEF Serve, Numbers, Numbering, Kinds, Receiving, Echoing, Echoed, WellFormed
  <2> QED BY <2>6, <2>7
<1>3. CASE Lose
  <2>1. /\ toServer' \in Seq(Buffers)
        /\ \A i \in DOMAIN toServer' :
             \E j \in DOMAIN toServer : toServer'[i] = toServer[j]
    BY <1>3, TailElements DEF Lose, Types
  <2>2. Types'
    BY <1>3, <2>1 DEF Lose, Types
  <2>3. Numbers' /\ Receiving' /\ Echoing'
    BY <1>3, <2>1
       DEF Lose, Numbers, Numbering, Kinds, Receiving, Echoing, Echoed, WellFormed
  <2> QED BY <2>2, <2>3
<1> QED BY <1>1, <1>2, <1>3

\* The receiver's step on the buffer of its response.
LEMMA ResponseSafe ==
  ASSUME Safe, CreateResponse \/ AppendResponse \/ ConvertResponse
  PROVE  Safe'
<1> USE DEF Safe, menu, receiver, server
<1> DEFINE b == ResponseBuffer
           c == IF HasOwnBuffer THEN rbuffer' ELSE cmd'
<1>1. /\ msg.kind \in {"esi", "scn"} /\ Response \in Funcs
      /\ b \in Buffers /\ msg.xid \in 0 .. MaxCmds + MaxEvents
      /\ UNCHANGED <<menu, msg, msgCurrentIndex, server, msg_q, msgCurrentHead,
                     torn, toServer>>
      /\ spoilt' \in BOOLEAN
      /\ IF HasOwnBuffer THEN cmd' = cmd ELSE rbuffer' = rbuffer
  BY DEF CreateResponse, AppendResponse, ConvertResponse, RespondStep, ReceiverStep,
         Receiving, Response, Funcs, ResponseBuffer, Types, Msgs, Building
<1>2. CASE CreateResponse
  <2>1. rcv' = "append" /\ c = Hdr(Response, msg.xid)
    BY <1>2 DEF CreateResponse, RespondStep, ReceiverStep
  <2>2. c \in Buffers /\ c.func = Response /\ c.parts = <<>> /\ c.swapped = FALSE
        /\ c.xid = msg.xid
    BY <1>1, <2>1, BufferOperations
  <2> HIDE DEF c
  <2>3. rbuffer' = (IF HasOwnBuffer THEN c ELSE rbuffer)
        /\ cmd' = (IF HasOwnBuffer THEN cmd ELSE c)
    BY <1>1 DEF c
  <2>4. Types'
    BY <1>1, <2>1, <2>2, <2>3 DEF Types
  <2>5. Numbers' /\ Receiving' /\ Echoing'
    BY <1>1, <2>1, <2>2, <2>3
       DEF Numbers, Numbering, Receiving, Echoing, Response, HasOwnBuffer
  <2> QED BY <2>4, <2>5
<1>3. CASE AppendResponse
  <2>1. rcv = "append" /\ rcv' = "convert" /\ c = Append1(b, Response)
    BY <1>3 DEF AppendResponse, RespondStep, ReceiverStep
  <2>2. /\ c \in Buffers /\ c.func = b.func /\ c.xid = b.xid
        /\ c.swapped = b.swapped /\ c.parts = Append(b.parts, Response)
    BY <1>1, <2>1, BufferOperations
  <2> HIDE DEF c
  <2>3. rbuffer' = (IF HasOwnBuffer THEN c ELSE rbuffer)
        /\ cmd' = (IF HasOwnBuffer THEN cmd ELSE c)
        /\ b = IF HasOwnBuffer THEN rbuffer ELSE cmd
    BY <1>1 DEF c, ResponseBuffer
  <2>4. Types'
    BY <1>1, <2>1, <2>2, <2>3 DEF Types
  <2>5. Numbers' /\ Receiving' /\ Echoing'
    BY <1>1, <2>1, <2>2, <2>3
       DEF Numbers, Numbering, Receiving, Echoing, Response, HasOwnBuffer
  <2> QED BY <2>4, <2>5
<1>4. CASE ConvertResponse
  <2>1. rcv = "convert" /\ rcv' = "send" /\ c = Swap(b)
    BY <1>4 DEF ConvertResponse, RespondStep, ReceiverStep
  <2>2. /\ c \in Buffers /\ c.func = b.func /\ c.xid = b.xid
        /\ c.swapped = ~b.swapped /\ c.parts = b.parts
    BY <1>1, <2>1, BufferOperations
  <2> HIDE DEF c
  <2>3. rbuffer' = (IF HasOwnBuffer THEN c ELSE rbuffer)
        /\ cmd' = (IF HasOwnBuffer THEN cmd ELSE c)
        /\ b = IF HasOwnBuffer THEN rbuffer ELSE cmd
    BY <1>1 DEF c, ResponseBuffer
  <2>4. Types'
    BY <1>1, <2>1, <2>2, <2>3 DEF Types
  <2>5. Numbers' /\ Receiving' /\ Echoing'
    BY <1>1, <2>1, <2>2, <2>3
       DEF Numbers, Numbering, Receiving, Echoing, Response, HasOwnBuffer
  <2> QED BY <2>4, <2>5
<1> QED BY <1>2, <1>3, <1>4

LEMMA SendResponseSafe ==
  ASSUME Safe, SendResponse
  PROVE  Safe'
<1> USE DEF Safe, menu, receiver, server
<1> DEFINE b == ResponseBuffer
<1>1. /\ rcv = "send" /\ rcv' = "recv" /\ toServer' = Append(toServer, b)
      /\ cmd' = cmd /\ rbuffer' = rbuffer
      /\ UNCHANGED <<menu, msg, msgCurrentIndex, server, msg_q, msgCurrentHead,
                     torn, spoilt>>
  BY DEF SendResponse, RespondStep, ReceiverStep, ResponseBuffer
<1>2. b \in Buffers /\ Numbering(b) /\ Echoed(b)
  <2>1. CASE HasOwnBuffer
    BY <1>1, <2>1 DEF ResponseBuffer, HasOwnBuffer, Types, Numbers, Echoing,
                      Echoed, WellFormed, Kinds
  <2>2. CASE ~HasOwnBuffer
    BY <2>2 DEF ResponseBuffer, Types, Numbers, Echoing, Echoed
  <2> QED BY <2>1, <2>2
<1> HIDE DEF b
<1>3. /\ toServer' \in Seq(Buffers)
      /\ \A i \in DOMAIN toServer' : i \in DOMAIN toServer \/ toServer'[i] = b
      /\ \A i \in DOMAIN toServer : toServer'[i] = toServer[i]
  BY <1>1, <1>2, AppendElements DEF Types
<1>4. Types'
  BY <1>1, <1>3 DEF Types
<1>5. Numbers'
  BY <1>1, <1>2, <1>3 DEF Numbers, Numbering, Kinds
<1>6. Receiving' /\ Echoing'
  BY <1>1, <1>2, <1>3 DEF Receiving, Echoing, Echoed, WellFormed
<1> QED BY <1>4, <1>5, <1>6

LEMMA ReceiverSafe ==
  ASSUME Safe, ReceiverNext \/ Closed
  PROVE  Safe'
<1> USE DEF Safe, menu, receiver, server
<1>1. CASE Receive
  <2>1. toClient # <<>> /\ toClient' = Tail(toClient) /\ msg' = Head(toClient)
    BY <1>1 DEF Receive
  <2>2. /\ toClient' \in Seq(Msgs) /\ msg' \in Msgs /\ Kinds(msg')
        /\ \A i \in DOMAIN toClient' :
             \E j \in DOMAIN toClient : toClient'[i] = toClient[j]
    BY <2>1, TailElements DEF Types, Numbers
  <2>3. /\ msg_q' \in [Slots -> -1 .. MaxCmds]
        /\ \/ rcv' = "copy" /\ msg'.kind = "rsp"
           \/ rcv' = "create" /\ msg'.kind # "rsp"
           \/ rcv' = "recv"
    <3>1. /\ \/ rcv' = "copy" /\ msg'.kind = "rsp"
             \/ rcv' = "create" /\ msg'.kind # "rsp"
             \/ rcv' = "recv"
          /\ msg_q' \in {msg_q, [msg_q EXCEPT ![msgCurrentIndex] = -1]}
      BY ONLY <1>1 DEF Receive, AddMsg, ReceiverStep
    <3>2. msg_q \in [Slots -> -1 .. MaxCmds] /\ -1 \in -1 .. MaxCmds
      BY ClientAssumption DEF Types
    <3> QED BY ONLY <3>1, <3>2
  <2>4. Types'
    BY <1>1, <2>2, <2>3 DEF Receive, Types
  <2>5. Numbers' /\ Receiving' /\ Echoing'
    BY <1>1, <2>2, <2>3
       DEF Receive, Numbers, Numbering, Kinds, Receiving, Echoing, Echoed,
           WellFormed, Msgs
  <2> QED BY <2>4, <2>5
<1>2. CASE CopyMsg
  <2>1. msg.xid \in 0 .. MaxCmds
    BY <1>2, ClientAssumption
       DEF CopyMsg, ReceiverStep, Types, Msgs, Numbers, Kinds, Receiving
  <2>2. /\ msg_q' \in [Slots -> -1 .. MaxCmds] /\ msgCurrentIndex' \in Slots
        /\ ui' \in {ui, "gone"} /\ rcv' = "recv"
    BY SMTT(30), <1>2, <2>1, NextIndexType, ClientAssumption
       DEF CopyMsg, ReceiverStep, Types
  <2> QED BY <1>2, <2>2 DEF CopyMsg, Types, Numbers, Receiving, Echoing
<1>3. CASE CreateResponse \/ AppendResponse \/ ConvertResponse
  BY <1>3, ResponseSafe
<1>4. CASE SendResponse
  BY <1>4, SendResponseSafe
<1>5. CASE Closed
  BY <1>5 DEF Closed, ReceiverStep, Types, Numbers, Receiving, Echoing
<1> QED BY <1>1, <1>2, <1>3, <1>4, <1>5 DEF ReceiverNext

(***************************************************************************)
(* The steps, as long as the threads have not met.                         *)
(***************************************************************************)

LEMMA StillUnharmed ==
  ASSUME Safe, Next, Unharmed'
  PROVE  Unharmed
BY DEF Safe, Types, Unharmed, Next, MenuNext, ReceiverNext, CreateCommand, AppendAttr,
       GiveUp, ConvertCommand, SendCommand, GetMsg, SetESI, Receive, CopyMsg,
       CreateResponse, AppendResponse, ConvertResponse, SendResponse, RespondStep,
       Closed, Notice, Serve, Lose

\* A client that has ended does nothing more.
LEMMA GoneForGood ==
  ASSUME Safe, Next, ui = "gone"
  PROVE  UNCHANGED <<ui, xid, answer>>
BY DEF Next, MenuNext, ReceiverNext, CreateCommand, AppendAttr, GiveUp, ConvertCommand,
       SendCommand, GetMsg, SetESI, MenuStep, Receive, AddMsg, CopyMsg,
       CreateResponse, AppendResponse, ConvertResponse, SendResponse, RespondStep,
       Closed, ReceiverStep, Notice, Serve, Lose, menu

\* The steps of the menu that leave the connection and the ring alone.
LEMMA BuildingPaired ==
  ASSUME Safe, Paired, Unharmed',
         CreateCommand \/ AppendAttr \/ GiveUp \/ ConvertCommand \/ SetESI
  PROVE  Paired'
<1> USE DEF menu, receiver, server
<1>1. UNCHANGED <<toServer, toClient, msg_q, msgCurrentHead, msgCurrentIndex, rcv, msg>>
  BY DEF CreateCommand, AppendAttr, GiveUp, ConvertCommand, SetESI
<1>2. ui \in {"idle", "append", "convert"} /\ ui' \in {"idle", "append", "convert", "send"}
  BY DEF CreateCommand, AppendAttr, GiveUp, ConvertCommand, SetESI, MenuStep
<1>3. Requests = {} /\ Answers = {} /\ Full = {}
  BY <1>2 DEF Paired, OwnNumber
<1>4. Requests' = {} /\ Answers' = {} /\ Full' = {}
  BY <1>1, <1>3 DEF Requests, Answers, Full
<1>5. InOnePlace' /\ OwnNumber' /\ Aligned'
  BY <1>1, <1>3, <1>4 DEF Paired, InOnePlace, OwnNumber, Aligned
<1>6. Alone' /\ MenuState'
  <2>1. CASE CreateCommand
    <3>1. xid' \in Nat /\ xid' > 0 /\ xid' \in 0 .. MaxCmds + MaxEvents
      BY <2>1, ClientAssumption DEF CreateCommand, Safe, Types
    <3>2. cmd'.func = "req" /\ cmd'.xid = xid'
      BY <2>1, <3>1, BufferOperations DEF CreateCommand, Funcs
    <3>3. ~Notifying'
      BY <1>1, <2>1 DEF CreateCommand, Unharmed, Notifying
    <3> QED BY <2>1, <3>1, <3>2, <3>3, <1>2 DEF CreateCommand, MenuStep, Alone, MenuState
  <2>2. CASE AppendAttr \/ ConvertCommand
    <3>1. cmd'.func = cmd.func /\ cmd'.xid = cmd.xid /\ UNCHANGED <<xid, answer>>
      BY <2>2, BufferOperations DEF AppendAttr, ConvertCommand, Safe, Types, Funcs
    <3>2. Building /\ ui' # "gone" /\ ui # "idle"
      BY <2>2 DEF AppendAttr, ConvertCommand, MenuStep, Building
    <3>3. Notifying' = Notifying
      BY <1>1 DEF Notifying
    <3> QED BY <3>1, <3>2, <3>3 DEF Paired, Alone, MenuState
  <2>3. CASE GiveUp \/ SetESI
    <3>1. UNCHANGED <<xid, answer, cmd>> /\ ui' = "idle"
      BY <2>3 DEF GiveUp, SetESI, MenuStep
    <3>2. Notifying' = Notifying /\ ~Building'
      BY <1>1, <3>1 DEF Notifying, Building
    <3> QED BY <3>1, <3>2 DEF Paired, Alone, MenuState
  <2> QED BY <2>1, <2>2, <2>3
<1> QED BY <1>5, <1>6 DEF Paired

LEMMA SendCommandPaired ==
  ASSUME Safe, Paired, SendCommand
  PROVE  Paired'
<1>1. /\ ui = "send" /\ ui' = "wait" /\ toServer' = Append(toServer, cmd)
      /\ UNCHANGED <<xid, answer, rcv, msg, msgCurrentIndex, toClient, cmd, msg_q,
                     msgCurrentHead>>
  BY DEF SendCommand, MenuStep, receiver, server
<1>2. Requests = {} /\ Answers = {} /\ Full = {} /\ rcv # "copy"
  BY <1>1 DEF Paired, OwnNumber, Aligned
<1>3. cmd.func = "req" /\ cmd.xid = xid /\ ~Notifying /\ xid > 0 /\ answer = 0
  BY <1>1 DEF Paired, Alone, Building, MenuState
<1>4. Requests' = {Len(toServer) + 1} /\ toServer'[Len(toServer) + 1] = cmd
  <2>1. /\ DOMAIN toServer' = 1 .. Len(toServer) + 1 /\ Len(toServer) \in Nat
        /\ DOMAIN toServer = 1 .. Len(toServer)
        /\ \A i \in DOMAIN toServer : toServer'[i] = toServer[i]
        /\ toServer'[Len(toServer) + 1] = cmd
    BY <1>1, AppendElements DEF Safe, Types
  <2>2. \A i \in DOMAIN toServer' : i \in DOMAIN toServer \/ i = Len(toServer) + 1
    BY <2>1
  <2>3. \A i \in DOMAIN toServer : toServer'[i].func # "req"
    BY <1>2, <2>1 DEF Requests
  <2> QED BY <1>3, <2>1, <2>2, <2>3 DEF Requests
<1>5. Answers' = {} /\ Full' = {}
  BY <1>1, <1>2 DEF Answers, Full
<1>6. InOnePlace' /\ OwnNumber'
  BY <1>1, <1>2, <1>3, <1>4, <1>5 DEF InOnePlace, OwnNumber
<1>7. Aligned' /\ MenuState'
  BY <1>1, <1>2, <1>3, <1>5 DEF Paired, Aligned, MenuState
<1>8. Alone'
  BY <1>1, <1>3 DEF Alone, Building, Notifying
<1> QED BY <1>6, <1>7, <1>8 DEF Paired

\* What the menu takes is the answer it waits for, and the ring is empty again.
LEMMA GetMsgPaired ==
  ASSUME Safe, Paired, Unharmed', GetMsg
  PROVE  Paired'
<1>1. /\ ui = "wait" /\ ui' = "idle" /\ msg_q[msgCurrentHead] # 0
      /\ msg_q[msgCurrentHead] # -1 /\ answer' = msg_q[msgCurrentHead]
      /\ msg_q' = [msg_q EXCEPT ![msgCurrentHead] = 0]
      /\ msgCurrentHead' = NextIndex(msgCurrentHead)
      /\ UNCHANGED <<xid, rcv, msg, msgCurrentIndex, toClient, toServer, cmd>>
  BY DEF GetMsg, MenuStep, receiver, server, Unharmed
<1>2. Full = {msgCurrentHead}
  BY <1>1 DEF Paired, InOnePlace, Full, Safe, Types
<1>3. rcv # "copy" /\ answer' = xid /\ Requests = {} /\ Answers = {}
  BY <1>1, <1>2 DEF Paired, InOnePlace, OwnNumber
<1>4. msgCurrentIndex = NextIndex(msgCurrentHead)
  BY <1>2, <1>3 DEF Paired, Aligned
<1>5. Full' = {}
  BY <1>1, <1>2 DEF Full, Safe, Types
<1>6. Requests' = {} /\ Answers' = {}
  BY <1>1, <1>3 DEF Requests, Answers
<1>7. InOnePlace' /\ OwnNumber' /\ Aligned' /\ MenuState'
  BY <1>1, <1>3, <1>4, <1>5, <1>6 DEF InOnePlace, OwnNumber, Aligned, MenuState
<1>8. Alone'
  BY <1>1 DEF Paired, Alone, Building, Notifying
<1> QED BY <1>7, <1>8 DEF Paired

LEMMA ReceivePaired ==
  ASSUME Safe, Paired, Receive
  PROVE  Paired'
<1>1. /\ toClient # <<>> /\ toClient' = Tail(toClient) /\ msg' = Head(toClient)
      /\ rcv = "recv"
      /\ \/ /\ msg'.kind = "rsp" /\ rcv' = "copy"
            /\ msg_q' = [msg_q EXCEPT ![msgCurrentIndex] = -1]
         \/ msg'.kind # "rsp" /\ rcv' \in {"create", "recv"} /\ msg_q' = msg_q
      /\ UNCHANGED <<ui, xid, answer, msgCurrentIndex, cmd, toServer, msgCurrentHead>>
  BY DEF Receive, AddMsg, ReceiverStep, menu
<1>2. /\ msg' = toClient[1] /\ 1 \in DOMAIN toClient
      /\ \A i \in DOMAIN Tail(toClient) :
           i + 1 \in DOMAIN toClient /\ Tail(toClient)[i] = toClient[i + 1]
      /\ \A i \in DOMAIN Tail(toClient) : i \in Nat /\ i + 1 # 1
      /\ \A i, j \in DOMAIN Tail(toClient) : i + 1 = j + 1 => i = j
  <2>1. Tail(toClient) \in Seq(Msgs)
    BY <1>1, TailElements DEF Safe, Types
  <2>2. DOMAIN Tail(toClient) \subseteq Nat \ {0}
    BY <2>1
  <2> QED BY SMTT(30), <1>1, <2>2, TailElements DEF Safe, Types
<1>3. \A i \in Answers' : i + 1 \in Answers /\ toClient'[i] = toClient[i + 1]
                          /\ i \in DOMAIN Tail(toClient)
  BY <1>1, <1>2 DEF Answers
<1>4. Requests' = Requests
  BY <1>1 DEF Requests
<1>5. Alone'
  BY <1>1 DEF Paired, Alone, Building, Notifying
<1>6. MenuState'
  BY <1>1 DEF Paired, MenuState
<1>7. CASE msg'.kind = "rsp"
  <2>1. 1 \in Answers /\ msg'.xid = xid /\ ui = "wait"
    BY <1>2, <1>7 DEF Answers, Paired, OwnNumber
  <2>2. Requests = {} /\ Full = {} /\ \A i \in Answers : i = 1
    BY <2>1 DEF Paired, InOnePlace
  <2>3. Answers' = {}
    BY <1>2, <1>3, <2>2
  <2>4. msgCurrentIndex = msgCurrentHead
    BY <2>2 DEF Paired, Aligned
  <2>5. Full' = {msgCurrentHead} /\ msg_q'[msgCurrentHead] = -1 /\ rcv' = "copy"
    BY <1>1, <1>7, <2>2, <2>4 DEF Full, Safe, Types
  <2> QED BY <1>1, <1>4, <1>5, <1>6, <2>1, <2>2, <2>3, <2>4, <2>5
         DEF Paired, InOnePlace, OwnNumber, Aligned
<1>8. CASE msg'.kind # "rsp"
  <2>1. msg_q' = msg_q /\ rcv' # "copy" /\ Full' = Full
    BY <1>1, <1>8 DEF Full
  <2>2. \A i, j \in Answers' : i = j
    BY <1>2, <1>3 DEF Paired, InOnePlace
  <2>3. Answers' # {} => Answers # {}
    BY <1>3
  <2>4. \A i \in Answers' : toClient'[i].xid = xid
    BY <1>3 DEF Paired, OwnNumber
  <2>5. InOnePlace'
    BY <1>1, <1>4, <2>1, <2>2, <2>3 DEF Paired, InOnePlace
  <2>6. OwnNumber' /\ Aligned'
    BY <1>1, <1>4, <2>1, <2>3, <2>4 DEF Paired, OwnNumber, Aligned, Requests
  <2> QED BY <1>5, <1>6, <2>5, <2>6 DEF Paired
<1> QED BY <1>7, <1>8

\* The entry is still the one that AddMsg took: the client does not stop.
LEMMA CopyMsgPaired ==
  ASSUME Safe, Paired, CopyMsg
  PROVE  Paired'
<1>1. rcv = "copy" /\ rcv' = "recv"
  BY DEF CopyMsg, ReceiverStep
<1>2. Full = {msgCurrentHead} /\ msgCurrentIndex = msgCurrentHead
  BY <1>1 DEF Paired, Aligned, InOnePlace
<1>3. msg_q[msgCurrentIndex] = -1 /\ msg.xid = xid /\ ui = "wait" /\ xid > 0
  BY <1>1, <1>2 DEF Paired, OwnNumber, MenuState
<1>4. /\ msg_q' = [msg_q EXCEPT ![msgCurrentHead] = xid] /\ ui' = ui
      /\ msgCurrentIndex' = NextIndex(msgCurrentHead)
      /\ UNCHANGED <<xid, answer, msg, toClient, cmd, toServer, msgCurrentHead>>
  BY <1>2, <1>3 DEF CopyMsg, server
<1>5. Full' = {msgCurrentHead} /\ msg_q'[msgCurrentHead] = xid
  BY <1>2, <1>3, <1>4 DEF Full, Safe, Types
<1>6. Requests' = Requests /\ Answers' = Answers /\ Requests = {} /\ Answers = {}
  BY <1>2, <1>4 DEF Requests, Answers, Paired, InOnePlace
<1>7. InOnePlace' /\ OwnNumber' /\ Aligned' /\ MenuState'
  BY <1>1, <1>3, <1>4, <1>5, <1>6
     DEF Paired, InOnePlace, OwnNumber, Aligned, MenuState
<1>8. Alone'
  BY <1>1, <1>3, <1>4 DEF Paired, Alone, Building, Notifying
<1> QED BY <1>7, <1>8 DEF Paired

LEMMA ResponsePaired ==
  ASSUME Safe, Paired, Unharmed',
         CreateResponse \/ AppendResponse \/ ConvertResponse \/ SendResponse
  PROVE  Paired'
<1> USE DEF menu, receiver, server
<1>1. /\ rcv \in {"create", "append", "convert", "send"}
      /\ rcv' \in {"recv", "append", "convert", "send"}
      /\ UNCHANGED <<ui, xid, answer, msg, msgCurrentIndex, toClient, msg_q,
                     msgCurrentHead>>
  BY DEF CreateResponse, AppendResponse, ConvertResponse, SendResponse, RespondStep,
         ReceiverStep
<1>2. msg.kind \in {"esi", "scn"}
  BY <1>1 DEF Safe, Receiving
<1>3. Answers' = Answers /\ Full' = Full
  BY <1>1 DEF Answers, Full
<1>4. Alone'
  <2>1. CASE msg.kind = "esi"
    BY <1>1, <2>1
       DEF CreateResponse, AppendResponse, ConvertResponse, SendResponse, RespondStep,
           HasOwnBuffer, Paired, Alone, Building, Notifying
  <2>2. CASE msg.kind = "scn" /\ CreateResponse
    <3>1. ~Building /\ cmd' = Hdr("scnrsp", msg.xid)
      BY <2>2 DEF CreateResponse, RespondStep, HasOwnBuffer, Response, Unharmed
    <3>2. cmd'.func = "scnrsp"
      BY <3>1 DEF Hdr
    <3> QED BY <1>1, <3>1, <3>2 DEF Alone, Building
  <2>3. CASE msg.kind = "scn" /\ (AppendResponse \/ ConvertResponse \/ SendResponse)
    <3>1. Notifying
      BY <2>3 DEF AppendResponse, ConvertResponse, SendResponse, RespondStep,
                  ReceiverStep, Notifying
    <3>2. cmd'.func = cmd.func
      BY <2>3, BufferOperations
         DEF AppendResponse, ConvertResponse, SendResponse, RespondStep, HasOwnBuffer,
             ResponseBuffer, Response, Funcs, Safe, Types
    <3> QED BY <1>1, <3>1, <3>2 DEF Paired, Alone, Building
  <2> QED BY <1>2, <2>1, <2>2, <2>3
<1>5. /\ Requests' = Requests
      /\ \A i \in Requests : toServer'[i] = toServer[i]
  <2>1. CASE ~SendResponse
    BY <2>1 DEF CreateResponse, AppendResponse, ConvertResponse, Requests
  <2>2. CASE SendResponse
    <3>1. ResponseBuffer.func # "req" /\ ResponseBuffer \in Buffers
      <4>1. rcv = "send"
        BY <2>2 DEF SendResponse, RespondStep, ReceiverStep
      <4> QED BY <1>2, <4>1 DEF ResponseBuffer, HasOwnBuffer, Safe, Types, Echoing,
                                Paired, Alone, Notifying
    <3>2. /\ toServer' = Append(toServer, ResponseBuffer)
          /\ DOMAIN toServer' = 1 .. Len(toServer) + 1 /\ Len(toServer) \in Nat
          /\ DOMAIN toServer = 1 .. Len(toServer)
          /\ \A i \in DOMAIN toServer : toServer'[i] = toServer[i]
          /\ toServer'[Len(toServer) + 1] = ResponseBuffer
      BY <2>2, <3>1, AppendElements DEF SendResponse, Safe, Types
    <3>3. \A i \in DOMAIN toServer' : i \in DOMAIN toServer \/ i = Len(toServer) + 1
      BY <3>2
    <3>4. DOMAIN toServer \subseteq DOMAIN toServer'
      BY <3>2
    <3> QED BY <3>1, <3>2, <3>3, <3>4 DEF Requests
  <2> QED BY <2>1, <2>2
<1>6. InOnePlace' /\ OwnNumber' /\ Aligned' /\ MenuState'
  BY <1>1, <1>3, <1>5 DEF Paired, InOnePlace, OwnNumber, Aligned, MenuState
<1> QED BY <1>4, <1>6 DEF Paired

LEMMA NoticePaired ==
  ASSUME Safe, Paired, Notice
  PROVE  Paired'
<1>1. PICK k \in {"esi", "scn"} :
        /\ toClient' = Append(toClient, [kind |-> k, xid |-> MaxCmds + events'])
        /\ UNCHANGED <<ui, xid, answer, rcv, msg, msgCurrentIndex, cmd, toServer,
                       msg_q, msgCurrentHead>>
  BY DEF Notice, menu, receiver
<1> DEFINE m == [kind |-> k, xid |-> MaxCmds + events']
<1>2. m.kind # "rsp"
  OBVIOUS
<1> HIDE DEF m
<1>3. toClient \in Seq(Msgs) /\ toClient' = Append(toClient, m)
  BY <1>1 DEF Safe, Types, m
<1>4. /\ DOMAIN toClient' = 1 .. Len(toClient) + 1 /\ Len(toClient) \in Nat
      /\ DOMAIN toClient = 1 .. Len(toClient)
      /\ \A i \in DOMAIN toClient : toClient'[i] = toClient[i]
      /\ toClient'[Len(toClient) + 1] = m
  BY <1>3
<1>5. /\ \A i \in DOMAIN toClient' : i \in DOMAIN toClient \/ i = Len(toClient) + 1
      /\ DOMAIN toClient \subseteq DOMAIN toClient'
  BY <1>4
<1>6. Answers' = Answers /\ \A i \in Answers : toClient'[i] = toClient[i]
  BY <1>2, <1>4, <1>5 DEF Answers
<1>7. Requests' = Requests /\ Full' = Full
  BY <1>1 DEF Requests, Full
<1>8. InOnePlace' /\ OwnNumber' /\ Aligned' /\ MenuState'
  BY <1>1, <1>6, <1>7 DEF Paired, InOnePlace, OwnNumber, Aligned, MenuState
<1>9. Alone'
  BY <1>1 DEF Paired, Alone, Building, Notifying
<1> QED BY <1>8, <1>9 DEF Paired

LEMMA ServePaired ==
  ASSUME Safe, Paired, Serve \/ Lose
  PROVE  Paired'
<1> DEFINE b == Head(toServer)
           m == [kind |-> "rsp", xid |-> b.xid]
<1>1. /\ toServer # <<>> /\ toServer' = Tail(toServer)
      /\ \/ toClient' = toClient
         \/ b.func = "req" /\ toClient' = Append(toClient, m)
      /\ UNCHANGED <<ui, xid, answer, rcv, msg, msgCurrentIndex, cmd, msg_q,
                     msgCurrentHead>>
  BY DEF Serve, Lose, menu, receiver
<1>2. /\ b = toServer[1] /\ 1 \in DOMAIN toServer
      /\ \A i \in DOMAIN Tail(toServer) :
           i + 1 \in DOMAIN toServer /\ Tail(toServer)[i] = toServer[i + 1]
      /\ \A i \in DOMAIN Tail(toServer) : i \in Nat /\ i + 1 # 1
      /\ \A i, j \in DOMAIN Tail(toServer) : i + 1 = j + 1 => i = j
  <2>1. Tail(toServer) \in Seq(Buffers)
    BY <1>1, TailElements DEF Safe, Types
  <2>2. DOMAIN Tail(toServer) \subseteq Nat \ {0}
    BY <2>1
  <2> QED BY SMTT(30), <1>1, <2>2, TailElements DEF Safe, Types
<1>3. \A i \in Requests' : i + 1 \in Requests /\ toServer'[i] = toServer[i + 1]
                           /\ i \in DOMAIN Tail(toServer)
  BY <1>1, <1>2 DEF Requests
<1>4. m.kind = "rsp" /\ m.xid = b.xid
  OBVIOUS
<1> HIDE DEF m, b
<1>5. Full' = Full
  BY <1>1 DEF Full
<1>6. Alone' /\ MenuState'
  BY <1>1 DEF Paired, Alone, Building, Notifying, MenuState
<1>7. CASE toClient' = toClient
  <2>1. Answers' = Answers
    BY <1>7 DEF Answers
  <2>2. \A i, j \in Requests' : i = j
    BY <1>2, <1>3 DEF Paired, InOnePlace
  <2>3. Requests' # {} => Requests # {}
    BY <1>3
  <2>4. \A i \in Requests' : toServer'[i].xid = xid
    BY <1>3 DEF Paired, OwnNumber
  <2>5. InOnePlace'
    BY <1>1, <1>5, <2>1, <2>2, <2>3 DEF Paired, InOnePlace
  <2>6. OwnNumber' /\ Aligned'
    BY <1>1, <1>5, <1>7, <2>1, <2>3, <2>4 DEF Paired, OwnNumber, Aligned
  <2> QED BY <1>6, <2>5, <2>6 DEF Paired
<1>8. CASE b.func = "req" /\ toClient' = Append(toClient, m)
  <2>1. 1 \in Requests /\ b.xid = xid /\ ui = "wait"
    BY <1>2, <1>8 DEF Requests, Paired, OwnNumber
  <2>2. Answers = {} /\ Full = {} /\ \A i \in Requests : i = 1
    BY <2>1 DEF Paired, InOnePlace
  <2>3. Requests' = {}
    BY <1>2, <1>3, <2>2
  <2>4. /\ DOMAIN toClient' = 1 .. Len(toClient) + 1 /\ Len(toClient) \in Nat
        /\ DOMAIN toClient = 1 .. Len(toClient)
        /\ \A i \in DOMAIN toClient : toClient'[i] = toClient[i]
        /\ toClient'[Len(toClient) + 1] = m
    BY <1>8 DEF Safe, Types
  <2>5. /\ \A i \in DOMAIN toClient' : i \in DOMAIN toClient \/ i = Len(toClient) + 1
        /\ \A i \in DOMAIN toClient : toClient'[i].kind # "rsp"
    BY <2>2, <2>4 DEF Answers
  <2>6. Answers' = {Len(toClient) + 1}
    BY <1>4, <2>4, <2>5 DEF Answers
  <2>7. InOnePlace'
    BY <1>5, <2>2, <2>3, <2>6 DEF InOnePlace
  <2>8. rcv' # "copy" /\ Aligned'
    BY <1>1, <1>5, <2>2 DEF Paired, Aligned
  <2>9. OwnNumber'
    BY <1>1, <1>4, <1>5, <2>1, <2>2, <2>3, <2>4, <2>6, <2>8 DEF OwnNumber
  <2> QED BY <1>6, <2>7, <2>8, <2>9 DEF Paired
<1> QED BY <1>1, <1>7, <1>8

LEMMA InitInv == Init => Inv
<1> SUFFICES ASSUME Init PROVE Inv
  OBVIOUS
<1> DEFINE h == Hdr("req", 0)
<1>1. /\ h \in Buffers /\ h.func = "req" /\ h.xid = 0
  BY BufferOperations, ClientAssumption DEF Funcs
<1>2. cmd = h /\ rbuffer = h
  BY DEF Init
<1> HIDE DEF h
<1>3. NoMsg \in Msgs /\ NoMsg.kind = "none"
  BY ClientAssumption DEF NoMsg, Msgs
<1>4. 0 \in Slots
  BY ClientAssumption DEF Slots
<1>5. Types
  <2>1. toServer \in Seq(Buffers) /\ toClient \in Seq(Msgs)
    BY DEF Init
  <2>2. /\ xid \in 0 .. MaxCmds /\ events \in 0 .. MaxEvents
        /\ answer \in -1 .. MaxCmds /\ msg_q \in [Slots -> -1 .. MaxCmds]
    BY ClientAssumption DEF Init
  <2>3. cmd \in Buffers /\ rbuffer \in Buffers /\ msg \in Msgs
    BY <1>1, <1>2, <1>3 DEF Init
  <2> QED BY <1>4, <2>1, <2>2, <2>3 DEF Init, Types
<1>6. Numbers /\ Receiving /\ Echoing
  BY <1>1, <1>2, <1>3, ClientAssumption
     DEF Init, Numbers, Numbering, Kinds, Receiving, Echoing
<1>7. Requests = {} /\ Answers = {} /\ Full = {}
  BY DEF Init, Requests, Answers, Full
<1>8. Alone /\ InOnePlace /\ OwnNumber /\ Aligned /\ MenuState
  BY <1>7, <1>4
     DEF Init, Alone, Building, Notifying, InOnePlace, OwnNumber, Aligned, MenuState
<1> QED BY <1>5, <1>6, <1>8 DEF Inv, Ended, Safe, Paired, MenuState

LEMMA StepInv ==
  ASSUME Inv, [Next]_vars
  PROVE  Inv'
<1>1. CASE Next
  <2>1. Safe'
    BY <1>1, MenuSafe, ReceiverSafe, ServerSafe DEF Inv, Next
  <2>2. ASSUME Unharmed', ui' # "gone" PROVE Paired'
    <3>1. Safe /\ Paired
      BY <1>1, <2>2, StillUnharmed, GoneForGood DEF Inv
    <3>2. CASE CreateCommand \/ AppendAttr \/ GiveUp \/ ConvertCommand \/ SetESI
      BY <2>2, <3>1, <3>2, BuildingPaired
    <3>3. CASE SendCommand
      BY <3>1, <3>3, SendCommandPaired
    <3>4. CASE GetMsg
      BY <2>2, <3>1, <3>4, GetMsgPaired
    <3>5. CASE Receive
      BY <3>1, <3>5, ReceivePaired
    <3>6. CASE CopyMsg
      BY <3>1, <3>6, CopyMsgPaired
    <3>7. CASE CreateResponse \/ AppendResponse \/ ConvertResponse \/ SendResponse
      BY <2>2, <3>1, <3>7, ResponsePaired
    <3>8. CASE Notice
      BY <3>1, <3>8, NoticePaired
    <3>9. CASE Serve \/ Lose
      BY <3>1, <3>9, ServePaired
    <3>10. ~Closed
      BY <2>2 DEF Closed
    <3> QED BY <1>1, <3>10, <3>2, <3>3, <3>4, <3>5, <3>6, <3>7, <3>8, <3>9
           DEF Next, MenuNext, ReceiverNext
  <2>3. Ended'
    <3> SUFFICES ASSUME Unharmed', ui' = "gone" PROVE answer' \in {0, xid'}
      BY DEF Ended
    <3>1. Safe /\ Unharmed
      BY <1>1, StillUnharmed DEF Inv
    <3>2. CASE ui = "gone"
      BY <1>1, <3>1, <3>2, GoneForGood DEF Inv, Ended
    <3>3. CASE ui # "gone"
      <4>1. Paired
        BY <3>1, <3>3 DEF Inv
      <4>2. answer' = answer /\ xid' = xid
        BY <1>1, <3>3
           DEF Next, MenuNext, ReceiverNext, CreateCommand, AppendAttr, GiveUp,
               ConvertCommand, SendCommand, GetMsg, SetESI, MenuStep, Receive, CopyMsg,
               CreateResponse, AppendResponse, ConvertResponse, SendResponse,
               RespondStep, Closed, Notice, Serve, Lose, menu
      <4> QED BY <4>1, <4>2 DEF Paired, MenuState
    <3> QED BY <3>2, <3>3
  <2> QED BY <2>1, <2>2, <2>3 DEF Inv
<1>2. CASE UNCHANGED vars
  <2>1. Safe'
    BY <1>2 DEF vars, menu, receiver, server, Inv, Safe, Types, Numbers, Numbering,
                Kinds, Receiving, Echoing, Echoed, WellFormed
  <2>2. Unharmed' = Unharmed /\ Requests' = Requests /\ Answers' = Answers
        /\ Full' = Full
    BY <1>2 DEF vars, menu, receiver, server, Unharmed, Requests, Answers, Full
  <2>3. Unharmed' /\ ui' # "gone" => Paired'
    BY <1>2, <2>2 DEF vars, menu, receiver, server, Inv, Paired, Alone, Building,
                      Notifying, InOnePlace, OwnNumber, Aligned, MenuState
  <2>4. Ended'
    BY <1>2, <2>2 DEF vars, menu, receiver, server, Inv, Ended
  <2> QED BY <2>1, <2>3, <2>4 DEF Inv
<1> QED BY <1>1, <1>2

LEMMA InvImplies == Inv => TypeOK /\ OwnAnswer /\ InquiryEchoed
<1> SUFFICES ASSUME Inv PROVE TypeOK /\ OwnAnswer /\ InquiryEchoed
  OBVIOUS
<1>1. TypeOK
  <2>1. Range(toServer) \subseteq Buffers /\ Range(toClient) \subseteq Msgs
    BY DEF Inv, Safe, Types, Range
  <2> QED BY <2>1 DEF Inv, Safe, Types, TypeOK, Msgs
<1>2. InquiryEchoed
  BY DEF Inv, Safe, Echoing, Echoed, InquiryEchoed, Range
<1>3. OwnAnswer
  <2> SUFFICES ASSUME Unharmed
               PROVE  /\ answer \in {0, xid}
                      /\ ui = "idle" => \A i \in Slots : msg_q[i] = 0
                      /\ ui = "wait" => answer = 0
    BY DEF OwnAnswer
  <2>1. CASE ui = "gone"
    BY <2>1 DEF Inv, Ended
  <2>2. CASE ui # "gone"
    <3>1. Full # {} => ui = "wait"
      BY <2>2 DEF Inv, Paired, OwnNumber
    <3> QED BY <2>2, <3>1 DEF Inv, Paired, MenuState, Full
  <2> QED BY <2>1, <2>2
<1> QED BY <1>1, <1>2, <1>3

THEOREM InvAlways == Spec => []Inv
BY InitInv, StepInv, PTL DEF Spec

(***************************************************************************)
(* What the threads of the client maintain, for any numbers of commands    *)
(* and messages and any ring.                                              *)
(***************************************************************************)

\* The variables keep their types; the indexes do not leave the ring.
THEOREM ClientTypeCorrect == Spec => []TypeOK
BY InvAlways, InvImplies, PTL

\* As long as no notification has come while a command was built, and no answer
\* was taken before it was copied, a command gets its own answer and leaves none
\* to the next (TCPGetMsg, AddMsg).
THEOREM OwnAnswerAlways == Spec => []OwnAnswer
BY InvAlways, InvImplies, PTL

\* Whatever the menu builds meanwhile, the response to an inquiry is whole and
\* has the inquiry's number (Send_ESI_Response).
THEOREM InquiryEchoedAlways == Spec => []InquiryEchoed
BY InvAlways, InvImplies, PTL
=============================================================================
