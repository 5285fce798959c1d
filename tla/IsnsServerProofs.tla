-------------------------- MODULE IsnsServerProofs -------------------------
(***************************************************************************)
(* Theorems of IsnsServer, for any number of clients and descriptors and   *)
(* any capacity of the IPC socket: its types, that sns_ready is never      *)
(* withdrawn, and that only a primary server takes up a request.           *)
(***************************************************************************)
EXTENDS IsnsServer, SequenceTheorems, TLAPS

(***************************************************************************)
(* Types.                                                                  *)
(***************************************************************************)

\* A message put on the IPC socket leaves it a bounded queue of messages.
LEMMA EnqueueType ==
  ASSUME NEW q \in Seq(Messages), Len(q) <= QueueCap, NEW m \in Messages
  PROVE  Enqueue(q, m) \in Seq(Messages) /\ Len(Enqueue(q, m)) <= QueueCap
  BY QueueAssumption DEF Enqueue

\* SNSCheckInitTxQueue keeps the types of what it changes.
LEMMA CheckInitTxQueueType ==
  ASSUME TypeOK, NEW next \in {"receive", "expire"}, CheckInitTxQueue(next)
  PROVE  /\ flag' \in BOOLEAN /\ ready' \in BOOLEAN
         /\ pc' = "role" /\ after' \in {"receive", "expire"}
         /\ fsm' \in States /\ role' \in {"secondary", "primary"}
<1>1. fsm \in States /\ ready \in BOOLEAN /\ role \in {"secondary", "primary"}
  BY DEF TypeOK
<1>2. ReadyAfter(fsm) \in BOOLEAN
  BY <1>1 DEF ReadyAfter, States
<1> QED
  BY <1>1, <1>2 DEF CheckInitTxQueue

\* A connection has read a message only while it has a client.
Owned == \A f \in FDs : held[f] # "none" => owner[f] # Nobody

LEMMA InitType == Init => TypeOK /\ Owned
<1> SUFFICES ASSUME Init PROVE TypeOK /\ Owned
  OBVIOUS
<1>1. ipc \in Seq(Messages) /\ Len(ipc) <= QueueCap
  BY QueueAssumption DEF Init
<1>2. owner \in [FDs -> Clients \cup {Nobody}] /\ held \in [FDs -> Kinds \cup {"none"}]
  BY DEF Init
<1>3. \A f \in FDs : held[f] = "none"
  BY DEF Init
<1> QED
  BY <1>1, <1>2, <1>3 DEF Init, TypeOK, Owned, States

LEMMA MainType == TypeOK /\ Main => TypeOK'
<1> SUFFICES ASSUME TypeOK, Main PROVE TypeOK'
  OBVIOUS
<1> USE DEF TypeOK, mainVars, fsmVars, connVars
<1>1. CASE CommInit
  BY <1>1 DEF CommInit
<1>2. CASE StartFSM
  BY <1>2 DEF StartFSM, States
<1>3. CASE Receive
  <2>1. /\ ipc # <<>> /\ ipc \in Seq(Messages)
        /\ cur' = Head(ipc) /\ ipc' = Tail(ipc) /\ pc' = "handle"
    BY <1>3 DEF Receive
  <2>2. Head(ipc) \in Messages /\ Tail(ipc) \in Seq(Messages)
    BY <2>1, HeadTailProperties
  <2>3. Len(Tail(ipc)) <= QueueCap
    BY <2>1, HeadTailProperties, QueueAssumption
  <2> QED
    BY <1>3, <2>1, <2>2, <2>3 DEF Receive
<1>4. CASE Answer
  BY <1>4 DEF Answer
<1>5. CASE ProcessESI
  BY <1>5 DEF ProcessESI
<1>6. CASE SendESI
  BY <1>6 DEF SendESI
<1>7. CASE FSMEvent
  <2>1. CASE CheckInitTxQueue("expire")
    BY <1>7, <2>1, CheckInitTxQueueType DEF FSMEvent
  <2>2. CASE pc' = "tail" /\ UNCHANGED <<after, fsmVars, flag>>
    BY <1>7, <2>2 DEF FSMEvent
  <2> QED
    BY <1>7, <2>1, <2>2 DEF FSMEvent
<1>8. CASE SetRole
  BY <1>8 DEF SetRole, NextState, States, NoMessage
<1>9. CASE CheckEntities
  BY <1>9 DEF CheckEntities
<1>10. CASE LoopTail
  <2>1. CASE CheckInitTxQueue("receive") /\ cur' = cur
    BY <1>10, <2>1, CheckInitTxQueueType DEF LoopTail
  <2>2. CASE pc' = "receive" /\ cur' = NoMessage /\ UNCHANGED <<after, fsmVars, flag>>
    BY <1>10, <2>2 DEF LoopTail
  <2> QED
    BY <1>10, <2>1, <2>2 DEF LoopTail
<1> QED
  BY <1>1, <1>2, <1>3, <1>4, <1>5, <1>6, <1>7, <1>8, <1>9, <1>10 DEF Main

LEMMA TimerType == TypeOK /\ (TickSetsFlag \/ TickSendsEvent \/ EsiTick) => TypeOK'
<1> SUFFICES ASSUME TypeOK, TickSetsFlag \/ TickSendsEvent \/ EsiTick PROVE TypeOK'
  OBVIOUS
<1> USE DEF TypeOK, mainVars, fsmVars, connVars
<1>1. CASE TickSetsFlag
  BY <1>1 DEF TickSetsFlag
<1>2. ASSUME NEW m \in Messages
      PROVE  Enqueue(ipc, m) \in Seq(Messages) /\ Len(Enqueue(ipc, m)) <= QueueCap
  BY EnqueueType
<1>3. [kind |-> "fsm"] \in Messages /\ [kind |-> "esi"] \in Messages
  BY DEF Messages, TimerMessages
<1>4. CASE TickSendsEvent
  <2>1. ipc' \in Seq(Messages) /\ Len(ipc') <= QueueCap
    BY <1>2, <1>3, <1>4 DEF TickSendsEvent
  <2> QED
    BY <1>4, <2>1 DEF TickSendsEvent
<1>5. CASE EsiTick
  <2>1. ipc' \in Seq(Messages) /\ Len(ipc') <= QueueCap
    BY <1>2, <1>3, <1>5 DEF EsiTick
  <2> QED
    BY <1>5, <2>1 DEF EsiTick
<1> QED
  BY <1>1, <1>4, <1>5

LEMMA ConnectionsType ==
  TypeOK /\ Owned /\ (Connections \/ FallSilent) => TypeOK' /\ Owned'
<1> SUFFICES ASSUME TypeOK, Owned, Connections \/ FallSilent
             PROVE  TypeOK' /\ Owned'
  OBVIOUS
<1> USE DEF TypeOK, Owned, mainVars, fsmVars, connVars
<1>1. CASE Bind
  BY <1>1 DEF Bind
<1>2. ASSUME NEW c \in Clients, Accept(c) PROVE TypeOK' /\ Owned'
  BY <1>2, ClientAssumption DEF Accept, Free
<1>3. ASSUME NEW f \in FDs, NEW k \in Kinds, Read(f, k) PROVE TypeOK' /\ Owned'
  BY <1>3 DEF Read
<1>4. ASSUME NEW f \in FDs, Forward(f) PROVE TypeOK' /\ Owned'
  <2> DEFINE m == [kind |-> held[f], fd |-> f]
  <2>1. held[f] \in Kinds /\ owner[f] \in Clients
    BY <1>4 DEF Forward
  <2>2. m \in Messages
    BY <2>1 DEF Messages, ClientMessages
  <2>3. ipc' = Enqueue(ipc, m)
    BY <1>4 DEF Forward
  <2> HIDE DEF m
  <2>4. ipc' \in Seq(Messages) /\ Len(ipc') <= QueueCap
    BY <2>2, <2>3, EnqueueType
  <2> QED
    BY <1>4, <2>4 DEF Forward
<1>5. ASSUME NEW f \in FDs, End(f) PROVE TypeOK' /\ Owned'
  BY <1>5 DEF End
<1>6. CASE FallSilent
  BY <1>6 DEF FallSilent
<1> QED
  BY <1>1, <1>2, <1>3, <1>4, <1>5, <1>6 DEF Connections

\* Main and the timers leave the connections alone.
LEMMA OthersOwned ==
  Owned /\ (Main \/ TickSetsFlag \/ TickSendsEvent \/ EsiTick) => Owned'
  BY DEF Owned, connVars, Main, CommInit, StartFSM, Receive, Answer, ProcessESI,
         SendESI, FSMEvent, SetRole, CheckEntities, LoopTail, TickSetsFlag,
         TickSendsEvent, EsiTick

\* The variables of every state have their types, and the IPC socket never
\* holds more than it can.
THEOREM ServerTypeCorrect == Spec => []TypeOK
<1>1. Init => TypeOK /\ Owned
  BY InitType
<1>2. TypeOK /\ Owned /\ [Next]_vars => TypeOK' /\ Owned'
  <2> SUFFICES ASSUME TypeOK, Owned, [Next]_vars PROVE TypeOK' /\ Owned'
    OBVIOUS
  <2>1. CASE Next
    BY <2>1, MainType, TimerType, ConnectionsType, OthersOwned DEF Next
  <2>2. CASE UNCHANGED vars
    BY <2>2 DEF vars, mainVars, fsmVars, connVars, TypeOK, Owned
  <2> QED
    BY <2>1, <2>2
<1> QED
  BY <1>1, <1>2, PTL DEF Spec

(***************************************************************************)
(* Readiness.  sns_ready is set while the state machine is on its way from *)
(* ELECTION to PRIMARY, inside one call on the main thread, and from then  *)
(* on main is never at the handling of a message in any other state.       *)
(***************************************************************************)

\* Main has, or has waiting, a message of a client.
Passed == cur.kind \in Kinds \/ \E i \in DOMAIN ipc : ipc[i].kind \in Kinds

ReadyInv ==
  /\ Passed => ready
  /\ ready => fsm = "PRIMARY" \/ (fsm = "ELECTION" /\ pc = "role")
  /\ fsm = "PRIMARY" <=> role = "primary"
  /\ pc \in {"comm", "start"} => ~ready /\ role = "secondary"

\* A message put on the socket by a timer, or by a connection once the server
\* is ready, passes nothing before the server is ready.
LEMMA EnqueuePasses ==
  ASSUME NEW q \in Seq(Messages), NEW m \in Messages,
         NEW i \in DOMAIN Enqueue(q, m), Enqueue(q, m)[i].kind \in Kinds
  PROVE  m.kind \in Kinds \/ \E j \in DOMAIN q : q[j].kind \in Kinds
<1>1. CASE Enqueue(q, m) = q
  BY <1>1
<1>2. CASE Enqueue(q, m) = Append(q, m)
  <2>1. i \in 1..(Len(q) + 1)
    BY <1>2
  <2>2. CASE i = Len(q) + 1
    BY <1>2, <2>2
  <2>3. CASE i \in 1..Len(q)
    BY <1>2, <2>3
  <2> QED
    BY <2>1, <2>2, <2>3
<1> QED
  BY <1>1, <1>2 DEF Enqueue

LEMMA InitReady == Init => ReadyInv
  BY DEF Init, ReadyInv, Passed, NoMessage, Kinds

LEMMA MainReady == TypeOK /\ ReadyInv /\ Main => ReadyInv' /\ (ready => ready')
<1> SUFFICES ASSUME TypeOK, ReadyInv, Main PROVE ReadyInv' /\ (ready => ready')
  OBVIOUS
<1> USE DEF ReadyInv, fsmVars
<1>1. CASE CommInit
  BY <1>1 DEF CommInit, Passed
<1>2. CASE StartFSM
  BY <1>2 DEF StartFSM, Passed
<1>3. CASE Receive
  <2>1. /\ ipc \in Seq(Messages) /\ ipc # <<>>
        /\ cur' = Head(ipc) /\ ipc' = Tail(ipc)
    BY <1>3 DEF Receive, TypeOK
  <2>2. cur' = ipc[1] /\ 1 \in DOMAIN ipc
    BY <2>1
  <2>3. \A i \in DOMAIN ipc' : ipc'[i] = ipc[i + 1] /\ i + 1 \in DOMAIN ipc
    BY <2>1
  <2>4. Passed' => Passed
    BY <2>2, <2>3 DEF Passed
  <2> QED
    BY <1>3, <2>4 DEF Receive
<1>4. CASE Answer \/ ProcessESI \/ SendESI \/ CheckEntities
  BY <1>4 DEF Answer, ProcessESI, SendESI, CheckEntities, Passed
<1>5. ASSUME NEW next, CheckInitTxQueue(next), UNCHANGED <<cur, ipc>>,
             pc \notin {"comm", "start", "role"}
      PROVE  ReadyInv' /\ (ready => ready')
  <2>1. Passed' = Passed
    BY <1>5 DEF Passed
  <2>2. fsm \in States
    BY DEF TypeOK
  <2> QED
    BY <1>5, <2>1, <2>2 DEF CheckInitTxQueue, ReadyAfter, States
<1>6. CASE FSMEvent
  BY <1>5, <1>6 DEF FSMEvent, Passed
<1>7. CASE SetRole
  <2>1. Passed' => Passed
    BY <1>7 DEF SetRole, Passed, NoMessage, Kinds
  <2>2. fsm \in States /\ after \in {"receive", "expire"}
    BY DEF TypeOK
  <2> QED
    BY <1>7, <2>1, <2>2 DEF SetRole, NextState, States
<1>8. CASE LoopTail
  <2>1. CASE CheckInitTxQueue("receive") /\ cur' = cur
    BY <1>5, <1>8, <2>1 DEF LoopTail
  <2>2. CASE pc' = "receive" /\ cur' = NoMessage /\ UNCHANGED <<after, fsmVars, flag>>
    BY <1>8, <2>2 DEF LoopTail, Passed, NoMessage, Kinds
  <2> QED
    BY <1>8, <2>1, <2>2 DEF LoopTail
<1> QED
  BY <1>1, <1>2, <1>3, <1>4, <1>6, <1>7, <1>8 DEF Main

LEMMA OthersReady ==
  TypeOK /\ Owned /\ ReadyInv
    /\ (TickSetsFlag \/ TickSendsEvent \/ EsiTick \/ Connections \/ FallSilent)
  => ReadyInv' /\ (ready => ready')
<1> SUFFICES ASSUME TypeOK, Owned, ReadyInv,
               TickSetsFlag \/ TickSendsEvent \/ EsiTick \/ Connections \/ FallSilent
             PROVE  ReadyInv' /\ (ready => ready')
  OBVIOUS
<1>1. /\ UNCHANGED <<pc, cur, fsm, ready, role>>
      /\ \/ ipc' = ipc
         \/ \E m \in TimerMessages : ipc' = Enqueue(ipc, m)
         \/ ready /\ \E m \in Messages : ipc' = Enqueue(ipc, m)
  <2>1. CASE TickSetsFlag \/ FallSilent
    BY <2>1 DEF TickSetsFlag, FallSilent, mainVars, fsmVars
  <2>2. CASE TickSendsEvent \/ EsiTick
    BY <2>2 DEF TickSendsEvent, EsiTick, mainVars, fsmVars, TimerMessages
  <2>3. CASE Bind \/ (\E c \in Clients : Accept(c))
    BY <2>3 DEF Bind, Accept, mainVars, fsmVars
  <2>4. CASE \E f \in FDs : End(f) \/ \E k \in Kinds : Read(f, k)
    BY <2>4 DEF End, Read, mainVars, fsmVars
  <2>5. ASSUME NEW f \in FDs, Forward(f)
        PROVE  /\ UNCHANGED <<pc, cur, fsm, ready, role>>
               /\ ready /\ \E m \in Messages : ipc' = Enqueue(ipc, m)
    <3>1. held[f] \in Kinds /\ owner[f] \in Clients
      BY <2>5 DEF Forward, TypeOK, Owned
    <3>2. [kind |-> held[f], fd |-> f] \in Messages
      BY <3>1 DEF Messages, ClientMessages
    <3> QED
      BY <2>5, <3>2 DEF Forward, mainVars, fsmVars
  <2> QED
    BY <2>1, <2>2, <2>3, <2>4, <2>5 DEF Connections
<1>2. ipc \in Seq(Messages)
  BY DEF TypeOK
<1>3. Passed' => Passed \/ ready
  <2>1. CASE ipc' = ipc
    BY <1>1, <2>1 DEF Passed
  <2>2. ASSUME NEW m \in TimerMessages, ipc' = Enqueue(ipc, m)
        PROVE  Passed' => Passed
    <3>1. m \in Messages /\ m.kind \notin Kinds
      BY DEF Messages, TimerMessages, Kinds
    <3>2. ASSUME NEW i \in DOMAIN ipc', ipc'[i].kind \in Kinds PROVE Passed
      <4>1. m.kind \in Kinds \/ \E j \in DOMAIN ipc : ipc[j].kind \in Kinds
        BY <1>2, <2>2, <3>1, <3>2, EnqueuePasses
      <4> QED
        BY <3>1, <4>1 DEF Passed
    <3> QED
      BY <1>1, <3>2 DEF Passed
  <2> QED
    BY <1>1, <2>1, <2>2
<1> QED
  BY <1>1, <1>3 DEF ReadyInv

\* All the facts above hold together in every state.
LEMMA ReadyInductive ==
  /\ Init => TypeOK /\ Owned /\ ReadyInv
  /\ TypeOK /\ Owned /\ ReadyInv /\ [Next]_vars
       => TypeOK' /\ Owned' /\ ReadyInv' /\ (ready => ready')
<1>1. Init => TypeOK /\ Owned /\ ReadyInv
  BY InitType, InitReady
<1>2. ASSUME TypeOK, Owned, ReadyInv, [Next]_vars
      PROVE  TypeOK' /\ Owned' /\ ReadyInv' /\ (ready => ready')
  <2>1. CASE Next
    BY <1>2, <2>1, MainType, TimerType, ConnectionsType, OthersOwned,
       MainReady, OthersReady DEF Next
  <2>2. CASE UNCHANGED vars
    BY <1>2, <2>2 DEF vars, mainVars, fsmVars, connVars, TypeOK, Owned,
                      ReadyInv, Passed
  <2> QED
    BY <1>2, <2>1, <2>2
<1> QED
  BY <1>1, <1>2

\* A request is taken up by a primary server only, whatever the timers and the
\* connections do while the server is being elected.
THEOREM RequestsServedByPrimary == Spec => []ServedByPrimary
<1>1. TypeOK /\ ReadyInv => ServedByPrimary
  BY DEF ReadyInv, ServedByPrimary, Passed, Kinds
<1> QED
  BY <1>1, ReadyInductive, PTL DEF Spec

\* sns_ready, once set, stays set, so a connection that has seen it set may
\* send its message at any later moment.
THEOREM ReadyStays == Spec => [][ready => ready']_vars
  BY ReadyInductive, PTL DEF Spec
=============================================================================
