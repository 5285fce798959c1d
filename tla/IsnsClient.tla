---------------------------- MODULE IsnsClient -----------------------------
(***************************************************************************)
(* The iSNS client (isnsclient): the thread of its menu builds a command,  *)
(* attribute by attribute as the user types, sends it and waits for the    *)
(* next message in a ring (comm.c, isns.c); a second thread receives from  *)
(* the same connection, puts answers into the ring and responds to         *)
(* inquiries (ESI) and state change notifications (SCN).  The threads      *)
(* share the ring and the buffer `cmd' of isns.c without a lock.           *)
(***************************************************************************)
EXTENDS Integers, Sequences, SequencesExt

CONSTANTS
  MaxCmds,    \* bound: commands of the user
  MaxEvents,  \* bound: inquiries and notifications of the server
  QSize       \* entries of the ring (MSG_Q_SIZE)

ASSUME ClientAssumption ==
  MaxCmds \in Nat \ {0} /\ MaxEvents \in Nat /\ QSize \in Nat \ {0}

Slots == 0 .. QSize - 1

\* A command and the answer to it bear a number (xid), and so does an inquiry
\* or notification and the response to it.  A buffer also tells who has put
\* attributes into it, and whether the length is in network order.
Funcs == {"req", "esirsp", "scnrsp"}
Buffers == [func : Funcs, xid : 0 .. MaxCmds + MaxEvents,
            parts : Seq(Funcs), swapped : BOOLEAN]

NoMsg == [kind |-> "none", xid |-> 0]
Hdr(func, xid) == [func |-> func, xid |-> xid, parts |-> <<>>,
                   swapped |-> FALSE]

VARIABLES
  cmd,       \* the buffer `cmd'
  ui, xid,   \* where the menu's thread is, and the number of its command
  rcv, msg,  \* where the receiving thread is, and its message
  rbuffer,   \* the buffer of Send_ESI_Response
  msg_q,     \* the ring: 0 for no message, -1 for one not yet copied
  msgCurrentIndex, msgCurrentHead,
  answer,    \* what the last command has been answered: the xid of an answer
  enableESIFlag,
  toServer, toClient, events, deaf,  \* the connection and the server
  dropped,      \* whether the server has dropped a command
  spoilt, torn  \* whether the threads have met in `cmd', in the ring

menu == <<ui, xid, answer, enableESIFlag>>
receiver == <<rcv, msg, rbuffer, msgCurrentIndex>>
server == <<toClient, events, deaf, dropped>>
vars == <<menu, receiver, server, cmd, toServer, msg_q, msgCurrentHead,
          spoilt, torn>>

TypeOK ==
  /\ {cmd, rbuffer} \cup Range(toServer) \subseteq Buffers
  /\ ui \in {"idle", "append", "convert", "send", "wait", "gone"}
  /\ xid \in 0 .. MaxCmds /\ events \in 0 .. MaxEvents
  /\ rcv \in {"recv", "create", "append", "convert", "send", "copy"}
  /\ Range(toClient) \cup {msg} \subseteq
       [kind : {"none", "rsp", "esi", "scn"}, xid : 0 .. MaxCmds + MaxEvents]
  /\ msg_q \in [Slots -> -1 .. MaxCmds] /\ answer \in -1 .. MaxCmds
  /\ {msgCurrentIndex, msgCurrentHead} \subseteq Slots
  /\ {enableESIFlag, deaf, dropped, spoilt, torn} \subseteq BOOLEAN

Init ==
  /\ cmd = Hdr("req", 0) /\ rbuffer = Hdr("req", 0)
  /\ ui = "idle" /\ xid = 0 /\ answer = 0 /\ enableESIFlag = TRUE
  /\ rcv = "recv" /\ msg = NoMsg
  /\ msg_q = [i \in Slots |-> 0] /\ msgCurrentIndex = 0 /\ msgCurrentHead = 0
  /\ toServer = <<>> /\ toClient = <<>> /\ events = 0 /\ deaf = FALSE
  /\ dropped = FALSE /\ spoilt = FALSE /\ torn = FALSE

\* Both threads are between ISNSCreateHdr and the end of SendPDU on `cmd'.
Building == ui \in {"append", "convert", "send"}
Notifying == msg.kind = "scn" /\ rcv \in {"append", "convert", "send"}

Append1(b, who) == [b EXCEPT !.parts = Append(@, who)]
Swap(b) == [b EXCEPT !.swapped = ~@]   \* htons of the length

\* A request or response that one function has built alone.
WellFormed(b) == b.parts = <<b.func>> /\ b.swapped

\* Mutant: the index leaves the ring.
NextLong(i) == i + 1

NextIndex(i) == (i + 1) % QSize

(***************************************************************************)
(* The menu.                                                               *)
(***************************************************************************)

MenuStep(from, to) == ui = from /\ ui' = to

CreateCommand ==
  /\ MenuStep("idle", "append") /\ xid < MaxCmds /\ xid' = xid + 1
  /\ cmd' = Hdr("req", xid') /\ spoilt' = (spoilt \/ Notifying)
  /\ answer' = 0
  /\ UNCHANGED <<enableESIFlag, receiver, server, toServer, msg_q,
                 msgCurrentHead, torn>>

AppendAttr ==
  /\ MenuStep("append", "convert") /\ cmd' = Append1(cmd, "req")
  /\ UNCHANGED <<xid, answer, enableESIFlag, receiver, server, toServer,
                 msg_q, msgCurrentHead, spoilt, torn>>

\* The user gives no source: the command is left unsent.
GiveUp ==
  /\ MenuStep("append", "idle")
  /\ UNCHANGED <<xid, answer, enableESIFlag, receiver, server, cmd, toServer,
                 msg_q, msgCurrentHead, spoilt, torn>>

ConvertCommand ==
  /\ MenuStep("convert", "send") /\ cmd' = Swap(cmd)
  /\ UNCHANGED <<xid, answer, enableESIFlag, receiver, server, toServer,
                 msg_q, msgCurrentHead, spoilt, torn>>

SendCommand ==
  /\ MenuStep("send", "wait") /\ toServer' = Append(toServer, cmd)
  /\ UNCHANGED <<xid, answer, enableESIFlag, receiver, server, cmd, msg_q,
                 msgCurrentHead, spoilt, torn>>

\* Mutant: the entry is not emptied.
GetMsgAgain ==
  /\ MenuStep("wait", "idle") /\ msg_q[msgCurrentHead] # 0
  /\ answer' = msg_q[msgCurrentHead]
  /\ torn' = (torn \/ msg_q[msgCurrentHead] = -1)
  /\ UNCHANGED <<xid, enableESIFlag, receiver, server, cmd, toServer, spoilt,
                 msg_q, msgCurrentHead>>

\* TCPGetMsg finds an entry, which the other thread may still be filling.
GetMsg ==
  /\ MenuStep("wait", "idle") /\ msg_q[msgCurrentHead] # 0
  /\ answer' = msg_q[msgCurrentHead]
  /\ torn' = (torn \/ msg_q[msgCurrentHead] = -1)
  /\ msg_q' = [msg_q EXCEPT ![msgCurrentHead] = 0]
  /\ msgCurrentHead' = NextIndex(msgCurrentHead)
  /\ UNCHANGED <<xid, enableESIFlag, receiver, server, cmd, toServer, spoilt>>

\* EnableESI and DisableESI.
SetESI ==
  /\ ui = "idle" /\ enableESIFlag' = ~enableESIFlag
  /\ UNCHANGED <<ui, xid, answer, receiver, server, cmd, toServer, msg_q,
                 msgCurrentHead, spoilt, torn>>

(***************************************************************************)
(* The receiving thread.                                                   *)
(***************************************************************************)

ReceiverStep(from, to) == ui # "gone" /\ rcv = from /\ rcv' = to

\* The answer of AddMsg gets its entry, before it is copied there.
AddMsg ==
  /\ msg_q' = [msg_q EXCEPT ![msgCurrentIndex] = -1]
  /\ ReceiverStep("recv", "copy")

Receive ==
  /\ toClient # <<>> /\ toClient' = Tail(toClient) /\ msg' = Head(toClient)
  /\ LET kind == msg'.kind IN
       \/ kind = "rsp" /\ AddMsg
       \/ /\ kind = "esi" => enableESIFlag
          /\ kind # "rsp" /\ ReceiverStep("recv", "create") /\ msg_q' = msg_q
       \/ /\ kind = "esi" /\ ~enableESIFlag
          /\ ReceiverStep("recv", "recv") /\ msg_q' = msg_q
  /\ UNCHANGED <<menu, rbuffer, msgCurrentIndex, cmd, toServer, events, deaf,
                 dropped, msgCurrentHead, spoilt, torn>>

\* The server has closed the connection, as it does after two minutes without
\* a message, and all that it sent is received: the client ends.
Closed ==
  /\ toClient = <<>> /\ ReceiverStep("recv", "recv") /\ ui' = "gone"
  /\ UNCHANGED <<xid, answer, enableESIFlag, msg, rbuffer, msgCurrentIndex,
                 server, cmd, toServer, msg_q, msgCurrentHead, spoilt, torn>>

\* Mutant: the index stays.
CopyMsgInPlace ==
  /\ ReceiverStep("copy", "recv")
  /\ IF msg_q[msgCurrentIndex] = -1
     THEN msg_q' = [msg_q EXCEPT ![msgCurrentIndex] = msg.xid] /\ ui' = ui
     ELSE msg_q' = msg_q /\ ui' \in {ui, "gone"}
  /\ UNCHANGED <<xid, answer, enableESIFlag, msg, rbuffer, server, cmd,
                 toServer, msgCurrentHead, msgCurrentIndex, spoilt, torn>>

\* The entry is filled and the index advances.  If the other thread has taken
\* the entry meanwhile, its pointer is NULL: the client stops, or, where the
\* compiler has kept the pointer, writes to memory that is free.
CopyMsg ==
  /\ ReceiverStep("copy", "recv")
  /\ IF msg_q[msgCurrentIndex] = -1
     THEN msg_q' = [msg_q EXCEPT ![msgCurrentIndex] = msg.xid] /\ ui' = ui
     ELSE msg_q' = msg_q /\ ui' \in {ui, "gone"}
  /\ msgCurrentIndex' = NextIndex(msgCurrentIndex)
  /\ UNCHANGED <<xid, answer, enableESIFlag, msg, rbuffer, server, cmd,
                 toServer, msgCurrentHead, spoilt, torn>>

\* Mutant: both are built in `cmd'.
HasNoBuffer == FALSE

\* A response to an inquiry is built in the buffer of its function, one to a
\* notification in the `cmd' of the menu.
HasOwnBuffer == msg.kind = "esi"

Response == IF msg.kind = "esi" THEN "esirsp" ELSE "scnrsp"
ResponseBuffer == IF HasOwnBuffer THEN rbuffer ELSE cmd

RespondStep(from, to, buffer) ==
  /\ ReceiverStep(from, to)
  /\ IF HasOwnBuffer THEN rbuffer' = buffer /\ cmd' = cmd
     ELSE cmd' = buffer /\ rbuffer' = rbuffer
  /\ UNCHANGED <<menu, msg, msgCurrentIndex, server, msg_q, msgCurrentHead,
                 torn>>

CreateResponse ==
  /\ RespondStep("create", "append", Hdr(Response, msg.xid))
  /\ spoilt' = (spoilt \/ (msg.kind = "scn" /\ Building))
  /\ UNCHANGED toServer

AppendResponse ==
  /\ RespondStep("append", "convert", Append1(ResponseBuffer, Response))
  /\ UNCHANGED <<spoilt, toServer>>

ConvertResponse ==
  /\ RespondStep("convert", "send", Swap(ResponseBuffer))
  /\ UNCHANGED <<spoilt, toServer>>

SendResponse ==
  /\ RespondStep("send", "recv", ResponseBuffer)
  /\ toServer' = Append(toServer, ResponseBuffer)
  /\ UNCHANGED spoilt

(***************************************************************************)
(* The server, as the client sees it.                                      *)
(***************************************************************************)

Notice ==
  /\ events < MaxEvents /\ events' = events + 1
  /\ \E k \in {"esi", "scn"} :
       toClient' = Append(toClient, [kind |-> k, xid |-> MaxCmds + events'])
  /\ UNCHANGED <<menu, receiver, cmd, toServer, deaf, dropped, msg_q,
                 msgCurrentHead, spoilt, torn>>

\* A message is lost between the server's threads: the IPC socket is full
\* (Enqueue of IsnsServer).  Nobody is told.
Lose ==
  /\ toServer # <<>> /\ toServer' = Tail(toServer)
  /\ dropped' = (dropped \/ Head(toServer).func = "req")
  /\ UNCHANGED <<menu, receiver, cmd, toClient, events, deaf, msg_q,
                 msgCurrentHead, spoilt, torn>>

\* A request is answered, a response is only noted.  Behind a message whose
\* length is wrong the server may find no message any more.
Serve ==
  /\ toServer # <<>> /\ toServer' = Tail(toServer)
  /\ LET b == Head(toServer) IN
       /\ IF b.func = "req" /\ ~deaf
          THEN \/ /\ toClient' = Append(toClient,
                                        [kind |-> "rsp", xid |-> b.xid])
                  /\ deaf' = FALSE
               \/ ~WellFormed(b) /\ toClient' = toClient /\ deaf' = TRUE
          ELSE toClient' = toClient /\ deaf' \in {deaf, (deaf \/ ~WellFormed(b))}
  /\ UNCHANGED <<menu, receiver, cmd, events, dropped, msg_q, msgCurrentHead,
                 spoilt, torn>>

MenuNext ==
  \/ CreateCommand \/ AppendAttr \/ GiveUp
  \/ ConvertCommand \/ SendCommand \/ GetMsg

ReceiverNext ==
  \/ Receive \/ CopyMsg
  \/ CreateResponse \/ AppendResponse \/ ConvertResponse \/ SendResponse

Next ==
  \/ MenuNext \/ SetESI
  \/ ReceiverNext \/ Closed
  \/ Notice \/ Serve \/ Lose

Spec == Init /\ [][Next]_vars

\* A user who began a command ends it, the threads run, the server takes every
\* message or loses it.  Nobody is bound to begin a command.
FairSpec ==
  /\ Spec
  /\ WF_vars(AppendAttr \/ GiveUp \/ ConvertCommand \/ SendCommand \/ GetMsg)
  /\ WF_vars(ReceiverNext)
  /\ WF_vars(Serve \/ Lose)

(***************************************************************************)
(* Properties.                                                             *)
(***************************************************************************)

Unharmed == ~spoilt /\ ~torn

\* The numbers are never compared, and yet a command gets the answer to itself
\* and leaves no answer to the next one, as long as no notification has come
\* while it was built and no answer was taken before it was copied.
OwnAnswer ==
  Unharmed =>
    /\ answer \in {0, xid}
    /\ ui = "idle" => \A i \in Slots : msg_q[i] = 0
    /\ ui = "wait" => answer = 0

\* Whatever the menu builds meanwhile, an inquiry is responded to with its own
\* number.
InquiryEchoed ==
  \A b \in Range(toServer) :
    b.func = "esirsp" => WellFormed(b) /\ b.xid > MaxCmds

\* A command that is sent is answered, unless the threads have met, the server
\* has dropped it, which nobody notices while other messages keep the connection
\* open, or the client has ended.
Answered == ui = "wait" ~> (ui \in {"idle", "gone"} \/ ~Unharmed \/ dropped)
=============================================================================
