----------------------------- MODULE IsnsServer ----------------------------
(***************************************************************************)
(* The threads of the iSNS server and what passes between them.            *)
(*                                                                         *)
(*   main (iSNSMain.c, iSNSfsm.c)   takes one message at a time from the   *)
(*       IPC socket, handles it, and then looks at the timer's flag;       *)
(*   the heartbeat timer (iSNSLinux.c)   sets the flag sns_fsm_timeout and *)
(*       only then sends FSM_TIMEOUT_EVENT; the ESI timer only sends;      *)
(*   the acceptor and a thread per TCP connection (iSNStrcv.c)   hold a    *)
(*       request until sns_ready, then send it with their descriptor.      *)
(*                                                                         *)
(* What the requests do to the tables is the subject of IsnsRegistry.  One *)
(* entity with a registration period stands for all of them here.          *)
(***************************************************************************)
EXTENDS Naturals, Sequences

CONSTANTS
  Clients,   \* TCP clients
  Nobody,    \* the owner of a closed descriptor
  FDs,       \* descriptors that accept can return, the lowest free one first
  QueueCap   \* datagrams that the IPC socket holds; one more is dropped

ASSUME ClientAssumption == Nobody \notin Clients
ASSUME FDAssumption == FDs \subseteq Nat
ASSUME QueueAssumption == QueueCap \in Nat \ {0}

States == {"INIT", "WFHB", "WFCOMM", "WFDACK", "ELECTION", "PRIMARY"}

\* What a client sends: a request, or its response to an ESI.
Kinds == {"request", "response"}

TimerMessages == [kind : {"fsm", "esi"}]
ClientMessages == [kind : Kinds, fd : FDs]
Messages == TimerMessages \cup ClientMessages

NoMessage == [kind |-> "none"]

VARIABLES
  pc,      \* where main is
  after,   \* where main goes when SNSProcFSM returns
  cur,     \* the message main handles (main_md)
  fsm,     \* sns_state
  ready,   \* sns_ready
  role,    \* isns_role
  flag,    \* sns_fsm_timeout
  timer,   \* where the heartbeat timer thread is
  ipc,     \* datagrams waiting on the SNS_EP socket
  port,    \* sns_comm_main_port
  listen,  \* the port the acceptor is bound to
  owner,   \* the client at the other end of each descriptor
  held,    \* the message the thread of a descriptor has read and not sent on
  entity   \* the registered entity, heard of within its period or silent

mainVars == <<pc, after, cur>>
fsmVars == <<fsm, ready, role>>
connVars == <<port, listen, owner, held>>
vars == <<mainVars, fsmVars, flag, timer, ipc, connVars, entity>>

TypeOK ==
  /\ pc \in {"comm", "start", "receive", "handle", "role", "expire", "tail"}
  /\ after \in {"receive", "expire"}
  /\ cur \in Messages \cup {NoMessage}
  /\ fsm \in States
  /\ ready \in BOOLEAN
  /\ role \in {"secondary", "primary"}
  /\ flag \in BOOLEAN
  /\ timer \in {"sleep", "send"}
  /\ ipc \in Seq(Messages) /\ Len(ipc) <= QueueCap
  /\ port \in {"default", "configured"}
  /\ listen \in {"none", "default", "configured"}
  /\ owner \in [FDs -> Clients \cup {Nobody}]
  /\ held \in [FDs -> Kinds \cup {"none"}]
  /\ entity \in {"absent", "heard", "silent"}

Init ==
  /\ pc = "comm" /\ after = "receive" /\ cur = NoMessage
  /\ fsm = "INIT" /\ ready = FALSE /\ role = "secondary"
  /\ flag = FALSE /\ timer = "sleep" /\ ipc = <<>>
  /\ port = "default" /\ listen = "none"
  /\ owner = [f \in FDs |-> Nobody] /\ held = [f \in FDs |-> "none"]
  /\ entity = "absent"

(***************************************************************************)
(* Messages between threads.                                               *)
(***************************************************************************)

\* Mutation of Enqueue: the socket holds any number of datagrams.
EnqueueAll(q, m) == Append(q, m)

\* SendIPCMessage: a datagram to a local socket, lost when its buffer is full.
Enqueue(q, m) == IF Len(q) < QueueCap THEN Append(q, m) ELSE q

(***************************************************************************)
(* The state machine, for the only event it is ever given.                 *)
(***************************************************************************)

\* Mutation of NextState: discovery waits for an answer that nobody sends.
NextStateWaits(s) ==
  CASE s \in {"INIT", "WFHB", "WFCOMM", "WFDACK"} -> "WFDACK"
    [] s \in {"ELECTION", "PRIMARY"} -> "PRIMARY"

\* sns_server_fsm in the column of SNS_HEARTBEAT_TIMEOUT.
NextState(s) ==
  CASE s \in {"INIT", "WFHB", "WFCOMM"} -> "WFDACK"
    [] s = "WFDACK" -> "ELECTION"
    [] s \in {"ELECTION", "PRIMARY"} -> "PRIMARY"

\* Mutation of ReadyAfter: SNSInitiateTrans2Primary does not call SNSReady.
ReadyAfterDiscovery(s) == ready /\ s \in {"WFDACK", "ELECTION", "PRIMARY"}

\* The actions of that column: SNSSendDiscovery withdraws sns_ready and
\* SNSInitiateTrans2Primary sets it.
ReadyAfter(s) ==
  CASE s \in {"INIT", "WFHB", "WFCOMM"} -> FALSE
    [] s = "ELECTION" -> TRUE
    [] s \in {"WFDACK", "PRIMARY"} -> ready

\* SNSCheckInitTxQueue as far as the action of SNSProcFSM.
CheckInitTxQueue(next) ==
  /\ flag' = FALSE
  /\ ready' = ReadyAfter(fsm)
  /\ pc' = "role"
  /\ after' = next
  /\ UNCHANGED <<fsm, role>>

(***************************************************************************)
(* The main thread.                                                        *)
(***************************************************************************)

\* SNSCommInit: the port of option -p is taken over.
CommInit ==
  /\ pc = "comm"
  /\ port' = "configured"
  /\ pc' = "start"
  /\ UNCHANGED <<after, cur, fsmVars, flag, timer, ipc, listen, owner, held, entity>>

\* Mutation of StartFSM: the two assignments it has in a comment.
StartFSMReady ==
  /\ pc = "start"
  /\ fsm' = "INIT" /\ ready' = TRUE
  /\ pc' = "receive"
  /\ UNCHANGED <<after, cur, role, flag, timer, ipc, connVars, entity>>

\* SNSStartFSM: the timer threads run from here on.
StartFSM ==
  /\ pc = "start"
  /\ fsm' = "INIT" /\ ready' = FALSE
  /\ pc' = "receive"
  /\ UNCHANGED <<after, cur, role, flag, timer, ipc, connVars, entity>>

\* ReceiveIPCMessage.
Receive ==
  /\ pc = "receive"
  /\ ipc # <<>>
  /\ cur' = Head(ipc) /\ ipc' = Tail(ipc)
  /\ pc' = "handle"
  /\ UNCHANGED <<after, fsmVars, flag, timer, connVars, entity>>

\* A client's request on the primary server: ISNSdbExec, which may register or
\* touch the entity (its timestamp is new) or deregister it, and the answer on
\* the descriptor the request came with, whoever is at its other end by then.  A
\* server that is not the primary would forward the request; ServedByPrimary
\* says that this cannot happen.
Answer ==
  /\ pc = "handle" /\ cur.kind = "request" /\ role = "primary"
  /\ entity' \in {"heard", "absent", entity}
  /\ pc' = "tail"
  /\ UNCHANGED <<after, cur, fsmVars, flag, timer, ipc, connVars>>

\* ISNS_ProcessESI: the entity that answers is heard of.
ProcessESI ==
  /\ pc = "handle" /\ cur.kind = "response"
  /\ entity' = IF entity = "absent" THEN "absent" ELSE "heard"
  /\ pc' = "tail"
  /\ UNCHANGED <<after, cur, fsmVars, flag, timer, ipc, connVars>>

\* ISNS_SendESI, of which nothing is modelled here.
SendESI ==
  /\ pc = "handle" /\ cur.kind = "esi"
  /\ pc' = "tail"
  /\ UNCHANGED <<after, cur, fsmVars, flag, timer, ipc, connVars, entity>>

\* FSM_TIMEOUT_EVENT: nothing happens unless the flag is still set.
FSMEvent ==
  /\ pc = "handle" /\ cur.kind = "fsm"
  /\ \/ flag /\ CheckInitTxQueue("expire")
     \/ ~flag /\ pc' = "tail" /\ UNCHANGED <<after, fsmVars, flag>>
  /\ UNCHANGED <<cur, timer, ipc, connVars, entity>>

\* The end of SNSProcFSM.
SetRole ==
  /\ pc = "role"
  /\ fsm' = NextState(fsm)
  /\ role' = IF fsm' = "PRIMARY" THEN "primary" ELSE "secondary"
  /\ pc' = after
  /\ cur' = IF after = "receive" THEN NoMessage ELSE cur
  /\ UNCHANGED <<after, ready, flag, timer, ipc, connVars, entity>>

\* ISNS_CheckEntities.
CheckEntities ==
  /\ pc = "expire"
  /\ entity' = IF entity = "silent" THEN "absent" ELSE entity
  /\ pc' = "tail"
  /\ UNCHANGED <<after, cur, fsmVars, flag, timer, ipc, connVars>>

\* Mutation of LoopTail: the flag is left to the handler of the event.
LoopTailBlind ==
  /\ pc = "tail"
  /\ pc' = "receive" /\ cur' = NoMessage
  /\ UNCHANGED <<after, fsmVars, flag, timer, ipc, connVars, entity>>

\* The end of the loop of SNSMain.  SNSCheckTxQueue, called before this look at
\* the flag, finds the queue of forwarded requests empty.
LoopTail ==
  /\ pc = "tail"
  /\ \/ flag /\ CheckInitTxQueue("receive") /\ cur' = cur
     \/ ~flag /\ pc' = "receive" /\ cur' = NoMessage
        /\ UNCHANGED <<after, fsmVars, flag>>
  /\ UNCHANGED <<timer, ipc, connVars, entity>>

Main ==
  \/ CommInit \/ StartFSM \/ Receive
  \/ Answer \/ ProcessESI \/ SendESI \/ FSMEvent
  \/ SetRole \/ CheckEntities \/ LoopTail

(***************************************************************************)
(* The timer threads.                                                      *)
(***************************************************************************)
Started == pc \notin {"comm", "start"}

\* SNSFSMTimeoutHdlr, the flag.
TickSetsFlag ==
  /\ Started /\ timer = "sleep"
  /\ flag' = TRUE
  /\ timer' = "send"
  /\ UNCHANGED <<mainVars, fsmVars, ipc, connVars, entity>>

\* SNSFSMTimeoutHdlr, the event.
TickSendsEvent ==
  /\ timer = "send"
  /\ ipc' = Enqueue(ipc, [kind |-> "fsm"])
  /\ timer' = "sleep"
  /\ UNCHANGED <<mainVars, fsmVars, flag, connVars, entity>>

\* SNSESITimeoutHdlr.
EsiTick ==
  /\ Started
  /\ ipc' = Enqueue(ipc, [kind |-> "esi"])
  /\ UNCHANGED <<mainVars, fsmVars, flag, timer, connVars, entity>>

(***************************************************************************)
(* The acceptor and the connections.                                       *)
(***************************************************************************)

\* TCP_RecvMain up to listen: the thread is started before SNSCommInit.
Bind ==
  /\ listen = "none"
  /\ listen' = port
  /\ UNCHANGED <<mainVars, fsmVars, flag, timer, ipc, port, owner, held, entity>>

Free == {f \in FDs : owner[f] = Nobody}

\* accept: the new connection gets the lowest free descriptor.
Accept(c) ==
  /\ listen # "none"
  /\ \E f \in Free :
       /\ \A g \in Free : f <= g
       /\ owner' = [owner EXCEPT ![f] = c]
  /\ UNCHANGED <<mainVars, fsmVars, flag, timer, ipc, port, listen, held, entity>>

\* TCP_RecvThread reads a message.
Read(f, k) ==
  /\ owner[f] # Nobody /\ held[f] = "none"
  /\ held' = [held EXCEPT ![f] = k]
  /\ UNCHANGED <<mainVars, fsmVars, flag, timer, ipc, port, listen, owner, entity>>

\* TCP_RecvThread sends it to main, once the server is ready.  Nothing ever
\* withdraws sns_ready again (ReadyStays of IsnsServerProofs), so the test and
\* the sending are one step.
Forward(f) ==
  /\ held[f] # "none" /\ ready
  /\ ipc' = Enqueue(ipc, [kind |-> held[f], fd |-> f])
  /\ held' = [held EXCEPT ![f] = "none"]
  /\ UNCHANGED <<mainVars, fsmVars, flag, timer, port, listen, owner, entity>>

\* TCP_RecvThread closes the descriptor: the client has closed, has been idle
\* for two minutes, or the connection has failed.
End(f) ==
  /\ owner[f] # Nobody /\ held[f] = "none"
  /\ owner' = [owner EXCEPT ![f] = Nobody]
  /\ UNCHANGED <<mainVars, fsmVars, flag, timer, ipc, port, listen, held, entity>>

\* The registration period of the entity passes without a word from it.
FallSilent ==
  /\ entity = "heard"
  /\ entity' = "silent"
  /\ UNCHANGED <<mainVars, fsmVars, flag, timer, ipc, connVars>>

Connections ==
  \/ Bind
  \/ \E c \in Clients : Accept(c)
  \/ \E f \in FDs, k \in Kinds : Read(f, k)
  \/ \E f \in FDs : Forward(f) \/ End(f)

Next ==
  \/ Main \/ TickSetsFlag \/ TickSendsEvent \/ EsiTick
  \/ Connections \/ FallSilent

Spec == Init /\ [][Next]_vars

\* Every thread that can run does; the heartbeat timer ticks for ever.  Nothing
\* is assumed of the clients nor of the ESI timer.
Fairness ==
  /\ WF_vars(Main)
  /\ WF_vars(TickSetsFlag) /\ WF_vars(TickSendsEvent)
  /\ WF_vars(Bind)
  /\ \A f \in FDs : WF_vars(Forward(f))

FairSpec == Spec /\ Fairness

(***************************************************************************)
(* Properties.                                                             *)
(***************************************************************************)

\* When main takes up a client's request it is the primary server, although
\* sns_ready, which lets the request through, is set before isns_role: the
\* request is never queued for a primary server that does not exist.
ServedByPrimary ==
  pc = "handle" /\ cur.kind = "request" => role = "primary"

\* The server becomes the primary and remains ready as such.
BecomesPrimary == <>[](role = "primary" /\ ready)

\* A message that a connection has read does not wait for sns_ready for ever.
HeldReleased == \A f \in FDs : held[f] # "none" ~> held[f] = "none"

\* Every heartbeat timeout is acted on, even when its event is lost because the
\* IPC socket is full.
HeartbeatsGoOn == flag ~> ~flag
=============================================================================
