---------------------------- MODULE IsnsPortals ----------------------------
(***************************************************************************)
(* The portals of the entities and the inquiries (ESI) by which the server *)
(* finds out that a portal is gone: the portal handlers of iSNSreg.c and   *)
(* iSNSdereg.c, and iSNSesi.c.                                             *)
(*                                                                         *)
(* The tables are a record r of entity identifiers with the portals each   *)
(* lists, of portals, of portal indexes, and the last index given out.  A  *)
(* portal keeps the descriptor of the connection that asked for inquiries, *)
(* the number of inquiries sent since the last answer, and the time since  *)
(* the last one, which is counted up to MaxAge.                            *)
(***************************************************************************)
EXTENDS Integers, FiniteSets, Sequences

CONSTANTS
  Portals,       \* address and port of a portal
  Entities,      \* entity identifiers
  Clients,       \* TCP clients
  Nobody,        \* the owner of a closed descriptor
  FDs,           \* descriptors that accept can return, the lowest free first
  Periods,       \* inquiry intervals that a registration gives; 0 is off
  sns_esi_interval, \* the shortest interval the server accepts
  esi_sent_limit,   \* unanswered inquiries at which a portal is removed
  MaxAge,        \* an interval that has expired, whatever its length
  PortalReqs,    \* the portal registrations that clients send
  MaxIdx         \* a bound on the indexes given out

NoFD == 0  \* the descriptor of a portal that has not asked on a connection

ASSUME PortalAssumption ==
  /\ Nobody \notin Clients
  /\ FDs \subseteq Nat \ {NoFD}
  /\ Periods \subseteq 0..MaxAge
  /\ sns_esi_interval \in 1..MaxAge
  /\ MaxAge \in Nat
  /\ esi_sent_limit \in Nat \ {0, 1}
  /\ MaxIdx \in Nat

\* What is given is a singleton, what is left out is the empty set.
Optional(S) == {{}} \cup {{x} : x \in S}

Later(t) == IF t < MaxAge THEN t + 1 ELSE MaxAge

(***************************************************************************)
(* The handlers, as operators from tables to tables.                       *)
(***************************************************************************)

\* SNSRemovePortalEntry for each stored portal of S.  The index goes first; a
\* portal whose entity is not stored stays.  The entity's list loses the entry
\* with the portal's present index.
RemovePortals(r, S) ==
  LET here == S \cap DOMAIN r.portal
      gone == {p \in here : r.portal[p].entity \in DOMAIN r.entity}
      entries(e) == {<<p, r.portal[p].idx>> :
                       p \in {q \in gone : r.portal[q].entity = e}}
      free == {r.portal[p].idx : p \in here}
  IN [r EXCEPT
        !.entity = [e \in DOMAIN @ |-> @[e] \ entries(e)],
        !.pidx   = [i \in DOMAIN @ \ free |-> @[i]],
        !.portal = [p \in DOMAIN @ \ gone |-> @[p]]]

\* The portals that the entity lists.
Listed(r, e) == {x[1] : x \in r.entity[e]}

\* Mutation of RemoveEntity: the portals are left to themselves.
RemoveEntityOnly(r, e) ==
  IF e \notin DOMAIN r.entity THEN r
  ELSE [r EXCEPT !.entity = [x \in DOMAIN @ \ {e} |-> @[x]]]

\* ISNSdbRemoveAttrEntityEntry: the portals that the entity lists go with it,
\* the ones that belong to another entity too.
RemoveEntity(r, e) ==
  IF e \notin DOMAIN r.entity THEN r
  ELSE LET rest == RemovePortals(r, Listed(r, e))
       IN [rest EXCEPT !.entity = [x \in DOMAIN @ \ {e} |-> @[x]]]

\* SNSdbAddAttrEntity: an entity of the same node types is replaced when the
\* request says so.
RegisterEntity(r, e, replace) ==
  LET before == IF replace THEN RemoveEntity(r, e) ELSE r
  IN IF e \in DOMAIN before.entity THEN before
     ELSE [before EXCEPT !.entity =
             [x \in DOMAIN @ \cup {e} |-> IF x = e THEN {} ELSE @[x]]]

\* A portal registration: the portal, named by the keys of the message or among
\* its attributes; the entities its keys name; the entity of the response so
\* far, which counts when the keys name none; the inquiry attributes.
PortalRequests ==
  [portal : Portals, keyed : BOOLEAN, replace : BOOLEAN,
   keys : {<<>>} \cup {<<e>> : e \in Entities} \cup (Entities \X Entities),
   named : Entities, period : Optional(Periods), udp : Optional(BOOLEAN)]

ASSUME PortalReqAssumption == PortalReqs \subseteq PortalRequests

\* Mutation of WithInquiries: only a new interval notes the connection.
WithInquiriesOfPeriod(v, m, fd) ==
  LET given  == IF m.period = {} THEN v.period ELSE CHOOSE x \in m.period : TRUE
      period == IF m.period # {} /\ given # 0 /\ given < sns_esi_interval
                THEN sns_esi_interval ELSE given
      udp    == IF m.udp = {} THEN v.udp ELSE CHOOSE x \in m.udp : TRUE
      asks   == m.period # {} /\ ~udp /\ period # 0
  IN [v EXCEPT !.period = period, !.udp = udp, !.fd = IF asks THEN fd ELSE @]

\* Mutation of WithInquiries: a registration starts the inquiries anew.
WithInquiriesAnew(v, m, fd) ==
  LET period == IF m.period = {} THEN v.period ELSE CHOOSE x \in m.period : TRUE
      udp    == IF m.udp = {} THEN v.udp ELSE CHOOSE x \in m.udp : TRUE
  IN [v EXCEPT !.period = period, !.udp = udp, !.fd = fd, !.sent = 0]

\* The inquiry attributes of ISNSdbAddAttrPortal.  A portal without a UDP port
\* is asked on the connection that this request came on.
WithInquiries(v, m, fd) ==
  LET given  == IF m.period = {} THEN v.period ELSE CHOOSE x \in m.period : TRUE
      period == IF m.period # {} /\ given # 0 /\ given < sns_esi_interval
                THEN sns_esi_interval ELSE given
      udp    == IF m.udp = {} THEN v.udp ELSE CHOOSE x \in m.udp : TRUE
      asks   == (m.period # {} \/ m.udp # {}) /\ ~udp /\ period # 0
  IN [v EXCEPT !.period = period, !.udp = udp, !.fd = IF asks THEN fd ELSE @]

\* AddNode on the lists of the entities es, unless the portal is listed.
ListPortal(r, es, p, idx) ==
  [r EXCEPT !.entity = [e \in DOMAIN @ |->
     IF e \in es /\ p \notin Listed(r, e) THEN @[e] \cup {<<p, idx>>} ELSE @[e]]]

StorePortal(r, p, v) ==
  [r EXCEPT !.portal = [q \in DOMAIN @ \cup {p} |-> IF q = p THEN v ELSE @[q]]]

\* The keys before the first entity that is not stored.
StoredKeys(r, es) ==
  {es[i] : i \in {j \in DOMAIN es : \A k \in 1..j : es[k] \in DOMAIN r.entity}}

\* A portal that is not stored: its index is written before its entities are
\* looked at, and it belongs to the last of them.
NewPortal(r, m, fd) ==
  LET p       == m.portal
      idx     == r.last + 1
      es      == IF m.keys = <<>> THEN <<m.named>> ELSE m.keys
      indexed == [r EXCEPT !.last = idx,
                           !.pidx = [i \in DOMAIN @ \cup {idx} |->
                                       IF i = idx THEN p ELSE @[i]]]
      listed  == ListPortal(indexed, StoredKeys(r, es), p, idx)
      fresh   == [entity |-> es[Len(es)], idx |-> idx, period |-> 0,
                  udp |-> FALSE, fd |-> NoFD, sent |-> 0, age |-> MaxAge]
  IN IF \E i \in DOMAIN es : es[i] \notin DOMAIN r.entity THEN listed
     ELSE StorePortal(listed, p, WithInquiries(fresh, m, fd))

\* A portal that is stored: it moves to the last of the entities that did not
\* list it; the number of inquiries sent stays.
UpdatePortal(r, m, fd) ==
  LET p      == m.portal
      v      == r.portal[p]
      new    == {i \in DOMAIN m.keys : m.keys[i] \in DOMAIN r.entity
                                       /\ p \notin Listed(r, m.keys[i])}
      last   == CHOOSE i \in new : \A j \in new : j <= i
      moved  == IF new = {} THEN v ELSE [v EXCEPT !.entity = m.keys[last]]
      listed == ListPortal(r, StoredKeys(r, m.keys), p, v.idx)
  IN IF \E i \in DOMAIN m.keys : m.keys[i] \notin DOMAIN r.entity THEN listed
     ELSE StorePortal(listed, p, WithInquiries(moved, m, fd))

\* ISNSdbAddAttrPortal for one portal; a message with several is the sequence
\* of them.  A replacement removes the portal first, also when the keys name
\* it and the registration is then refused.
RegisterPortal(r, m, fd) ==
  LET before == IF m.replace THEN RemovePortals(r, {m.portal}) ELSE r
  IN IF m.portal \in DOMAIN r.portal /\ ~m.replace THEN UpdatePortal(r, m, fd)
     ELSE IF m.keyed THEN before
     ELSE NewPortal(before, m, fd)

\* The portals whose interval has expired.
Due(r) == {p \in DOMAIN r.portal :
             r.portal[p].period # 0 /\ r.portal[p].age >= r.portal[p].period}

\* Mutation of SendESI: the time of the inquiry is not noted.
SendESIAgain(r) ==
  LET counted == [r EXCEPT !.portal = [p \in DOMAIN r.portal |->
                    IF p \in Due(r) THEN [r.portal[p] EXCEPT !.sent = @ + 1]
                    ELSE r.portal[p]]]
  IN RemovePortals(counted,
       {p \in Due(r) : counted.portal[p].sent >= esi_sent_limit})

\* Mutation of SendESI: one inquiry more than the limit allows.
SendESIOnceMore(r) ==
  LET counted == [r EXCEPT !.portal = [p \in DOMAIN r.portal |->
                    IF p \notin Due(r) THEN r.portal[p]
                    ELSE [r.portal[p] EXCEPT !.sent = @ + 1, !.age = 0]]]
  IN RemovePortals(counted,
       {p \in Due(r) : counted.portal[p].sent > esi_sent_limit})

\* ISNS_SendESI: each portal that is due is asked once more, or removed.  The
\* removal of one does not disturb the walk, which goes on from its key.
SendESI(r) ==
  LET counted == [r EXCEPT !.portal = [p \in DOMAIN r.portal |->
                    IF p \notin Due(r) THEN r.portal[p]
                    ELSE [r.portal[p] EXCEPT !.sent = @ + 1, !.age = 0]]]
  IN RemovePortals(counted,
       {p \in Due(r) : counted.portal[p].sent >= esi_sent_limit})

\* ISNS_ProcessESI, for an answer that names the portal p and the entity e.
ProcessESI(r, p, e) ==
  IF e \notin DOMAIN r.entity \/ p \notin DOMAIN r.portal THEN r
  ELSE [r EXCEPT !.portal[p].sent = 0]

Elapse(r) == [r EXCEPT !.portal = [p \in DOMAIN r.portal |->
                                     [r.portal[p] EXCEPT !.age = Later(@)]]]

(***************************************************************************)
(* The server, its clients and the inquiries between them.                 *)
(***************************************************************************)
VARIABLES
  db,     \* the tables
  owner,  \* the client at the other end of each descriptor
  asked,  \* inquiries that a client has to answer: <<client, portal, entity>>
  answers,\* answers that the server has to read: <<portal, entity>>
  quiet   \* ghost: the time since a portal was stored anew or answered

vars == <<db, owner, asked, answers, quiet>>

Empty == [x \in {} |-> x]
MaxQuiet == MaxAge * esi_sent_limit

PortalObjects ==
  [entity : Entities, idx : 1..MaxIdx, period : 0..MaxAge, udp : BOOLEAN,
   fd : FDs \cup {NoFD}, sent : 0..(esi_sent_limit - 1), age : 0..MaxAge]

\* The tables are well typed; in particular no portal is stored whose
\* inquiries have reached the limit.
TypeOK ==
  /\ DOMAIN db = {"entity", "portal", "pidx", "last"}
  /\ DOMAIN db.entity \subseteq Entities
  /\ \A e \in DOMAIN db.entity : db.entity[e] \subseteq Portals \X (1..MaxIdx)
  /\ DOMAIN db.portal \subseteq Portals
  /\ \A p \in DOMAIN db.portal : db.portal[p] \in PortalObjects
  /\ DOMAIN db.pidx \subseteq 1..MaxIdx
  /\ \A i \in DOMAIN db.pidx : db.pidx[i] \in Portals
  /\ db.last \in 0..MaxIdx
  /\ owner \in [FDs -> Clients \cup {Nobody}]
  /\ asked \subseteq Clients \X Portals \X Entities
  /\ answers \subseteq Portals \X Entities
  /\ quiet \in [Portals -> 0..MaxQuiet]

Init ==
  /\ db = [entity |-> Empty, portal |-> Empty, pidx |-> Empty, last |-> 0]
  /\ owner = [f \in FDs |-> Nobody]
  /\ asked = {} /\ answers = {}
  /\ quiet = [p \in Portals |-> 0]

RegEntity ==
  /\ \E e \in Entities, replace \in BOOLEAN :
       db' = RegisterEntity(db, e, replace)
  /\ UNCHANGED <<owner, asked, answers, quiet>>

DeregEntity ==
  /\ \E e \in Entities : db' = RemoveEntity(db, e)
  /\ UNCHANGED <<owner, asked, answers, quiet>>

\* The response names an entity only when SNSdbAddAttrEntity has stored it.
RegPortal ==
  /\ db.last < MaxIdx
  /\ \E m \in PortalReqs, f \in FDs :
       /\ owner[f] # Nobody
       /\ m.keys = <<>> => m.named \in DOMAIN db.entity
       /\ db' = RegisterPortal(db, m, f)
       /\ quiet' = IF m.portal \in DOMAIN db.portal /\ ~m.replace THEN quiet
                   ELSE [quiet EXCEPT ![m.portal] = 0]
  /\ UNCHANGED <<owner, asked, answers>>

DeregPortal ==
  /\ \E p \in Portals : db' = RemovePortals(db, {p})
  /\ UNCHANGED <<owner, asked, answers, quiet>>

\* The inquiries of one tick that reach a client: over TCP, to the client that
\* now has the descriptor.  What is sent to a UDP port is answered in vain, as
\* no thread reads the server's UDP socket.
Reached(r, after) ==
  {<<owner[r.portal[p].fd], p, r.portal[p].entity>> :
     p \in {q \in Due(r) \cap DOMAIN after.portal :
              ~r.portal[q].udp /\ r.portal[q].fd \in FDs
                               /\ owner[r.portal[q].fd] # Nobody}}

EsiTick ==
  /\ db' = SendESI(db)
  /\ asked' = asked \cup Reached(db, db')
  /\ UNCHANGED <<owner, answers, quiet>>

\* The client answers: it copies the names from the inquiry.
Reply ==
  /\ \E q \in asked :
       /\ \E f \in FDs : owner[f] = q[1]
       /\ asked' = asked \ {q}
       /\ answers' = answers \cup {<<q[2], q[3]>>}
  /\ UNCHANGED <<db, owner, quiet>>

EsiResponse ==
  /\ \E a \in answers :
       /\ db' = ProcessESI(db, a[1], a[2])
       /\ answers' = answers \ {a}
       /\ quiet' = IF a[2] \in DOMAIN db.entity
                   THEN [quiet EXCEPT ![a[1]] = 0] ELSE quiet
  /\ UNCHANGED <<owner, asked>>

Free == {f \in FDs : owner[f] = Nobody}

Connect ==
  /\ \E c \in Clients, f \in Free :
       /\ \A g \in Free : f <= g
       /\ \A g \in FDs : owner[g] # c
       /\ owner' = [owner EXCEPT ![f] = c]
  /\ UNCHANGED <<db, asked, answers, quiet>>

\* The inquiries that the client had not answered are lost with it.
Disconnect ==
  /\ \E f \in FDs :
       /\ owner[f] # Nobody
       /\ owner' = [owner EXCEPT ![f] = Nobody]
       /\ asked' = {q \in asked : q[1] # owner[f]}
  /\ UNCHANGED <<db, answers, quiet>>

Second ==
  /\ db' = Elapse(db)
  /\ quiet' = [p \in Portals |-> IF quiet[p] < MaxQuiet THEN quiet[p] + 1
                                 ELSE MaxQuiet]
  /\ UNCHANGED <<owner, asked, answers>>

Next ==
  \/ RegEntity \/ DeregEntity \/ RegPortal \/ DeregPortal
  \/ EsiTick \/ Reply \/ EsiResponse \/ Connect \/ Disconnect \/ Second

Spec == Init /\ [][Next]_vars

\* Time passes and the ESI timer's messages reach main.
FairSpec == Spec /\ WF_vars(Second) /\ WF_vars(EsiTick)

(***************************************************************************)
(* Properties.                                                             *)
(***************************************************************************)

\* The entity of a portal is stored and lists it, and the index of the portal
\* leads to it.
Owned(r) ==
  \A p \in DOMAIN r.portal :
    /\ r.portal[p].entity \in DOMAIN r.entity
    /\ p \in Listed(r, r.portal[p].entity)
    /\ r.portal[p].idx \in DOMAIN r.pidx
    /\ r.pidx[r.portal[p].idx] = p

\* Every stored portal belongs to a stored entity that lists it, and its index
\* leads to it: SNSRemovePortalEntry, which frees the index before it looks
\* for the entity, never stops half-way, and removing an entity leaves no
\* portal of it behind, whatever moves and replacements came before.
PortalsOwned == Owned(db)

\* A portal that is to be asked over TCP has the descriptor of a connection,
\* whichever registration gave its interval and whichever its port.
AskedOnConnection ==
  \A p \in DOMAIN db.portal :
    db.portal[p].period # 0 /\ ~db.portal[p].udp => db.portal[p].fd # NoFD

\* The inquiries never remove a portal before esi_sent_limit - 1 of the
\* shortest intervals have passed since it was stored or last answered,
\* however its interval was changed meanwhile (ISNS_SendESI).
RemovedOnlyIfSilent ==
  [][EsiTick =>
       \A p \in DOMAIN db.portal \ DOMAIN db'.portal :
         quiet[p] >= (esi_sent_limit - 1) * sns_esi_interval]_vars

\* A portal with an inquiry interval does not stay for ever without answering
\* or being stored anew, although registrations may change its interval, its
\* port, its connection and its entity for ever.
SilentPortalRemoved ==
  \A p \in Portals :
    <>[](p \in DOMAIN db.portal /\ db.portal[p].period # 0)
      => []<>(quiet[p] = 0)
=============================================================================
