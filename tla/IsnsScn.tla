------------------------------- MODULE IsnsScn ------------------------------
(***************************************************************************)
(* State change notifications (SCN): iSNSscn.c and the handlers of         *)
(* iSNSreg.c and iSNSdereg.c that send them, on the tables of IsnsNodes.   *)
(*                                                                         *)
(* A notification walks the node's list of DDs, in the order in which the  *)
(* node learnt of them, and the member list of each.  IsnsNodes keeps the  *)
(* former list as a set, so this module adds its order.  A node that asks  *)
(* for notifications is stored with the events it wants and the descriptor *)
(* of the connection it asked on.  No thread reads the server's UDP socket,*)
(* so the branches for requests over UDP are left out, as are the local    *)
(* callbacks, which no handler ever sets.                                  *)
(***************************************************************************)
EXTENDS IsnsNodes

CONSTANTS
  Clients,  \* TCP clients
  Nobody,   \* the owner of a closed descriptor
  FDs,      \* descriptors that accept can return, the lowest free first
  Bitmaps,  \* the sets of events that nodes ask for
  ScnDDReqs \* the registrations of DDs

Events == {"added", "removed", "updated"}
Nothing == [events |-> {}, fd |-> 0]

ASSUME ScnAssumption ==
  /\ Nobody \notin Clients
  /\ FDs \subseteq Nat \ {0}
  /\ Bitmaps \subseteq SUBSET Events
  /\ ScnDDReqs \subseteq {m \in DDRequests : m.sym = NoSym}
  /\ DDs # {} /\ DDSs # {} \* the default DD and the default set have one

VARIABLES
  db,    \* the tables of IsnsNodes
  order, \* the list of DDs of each node, in order
  scn,   \* what each registered node has asked for, and where
  owner, \* the client at the other end of each descriptor
  told   \* what the last step has sent: <<client, node told, subject, event>>

vars == <<db, order, scn, owner, told>>

(***************************************************************************)
(* Who is told.                                                            *)
(***************************************************************************)

\* Mutation of Walked: the inactive ones too.
WalkedAll(r, ds) ==
  UNION {{<<i, k>> : k \in DOMAIN r.dd[ds[i]].members} :
           i \in {j \in DOMAIN ds : \A h \in 1..j : ds[h] \in DOMAIN r.dd}}

\* The places of the walk over the DDs ds: <<i, k>> is the member k of the DD i
\* of the list.  The walk ends at the first DD that is not stored, and skips
\* the inactive ones.
Walked(r, ds) ==
  UNION {{<<i, k>> : k \in DOMAIN r.dd[ds[i]].members} :
           i \in {j \in DOMAIN ds : /\ \A h \in 1..j : ds[h] \in DOMAIN r.dd
                                    /\ r.dd[ds[j]].active}}

\* The name that the walk finds at the place p.
NameAt(r, ds, p) == r.dd[ds[p[1]]].members[p[2]].name

\* The walk comes to the place p before the place q.
Before(p, q) == p[1] < q[1] \/ (p[1] = q[1] /\ p[2] < q[2])

\* Mutation of Receivers: the node itself ends the walk.
ReceiversBefore(r, ds, n) ==
  LET stops == {p \in Walked(r, ds) :
                  NameAt(r, ds, p) \notin DOMAIN r.node \ {n}}
  IN {NameAt(r, ds, p) :
        p \in {q \in Walked(r, ds) \ stops : \A s \in stops : ~Before(s, q)}}

\* The members other than n before the first that is not registered, which
\* makes send_iscsi_scn_to_members return.
Receivers(r, ds, n) ==
  LET stops == {p \in Walked(r, ds) :
                  NameAt(r, ds, p) \notin DOMAIN r.node \cup {n}}
  IN {NameAt(r, ds, p) :
        p \in {q \in Walked(r, ds) \ stops : \A s \in stops : ~Before(s, q)}} \ {n}

\* send_iscsi_scn_to_members for the node n with the DDs ds, and
\* send_iscsi_scn_md for each receiver: a node whose connection is closed
\* loses its subscription.  A node is told once for every DD it shares with n,
\* which is one element of told.
Notify(x, r, ds, n, event) ==
  LET asking == {m \in Receivers(r, ds, n) : event \in x.scn[m].events}
      Client(m) == x.owner[x.scn[m].fd]
      lost   == {m \in asking : Client(m) = Nobody}
  IN [x EXCEPT
        !.scn  = [m \in DOMAIN @ |-> IF m \in lost THEN [@[m] EXCEPT !.events = {}]
                                     ELSE @[m]],
        !.told = @ \cup {<<Client(m), m, n, event>> : m \in asking \ lost}]

\* The subscriptions, the connections and nothing told.
Now == [scn |-> scn, owner |-> owner, told |-> {}]

\* The same event of each of the nodes in S, whatever their order: a lost
\* subscription is lost for all of them.
NotifyOf(x, r, S, event) ==
  LET parts == {Notify(x, r, order[n], n, event) : n \in S}
  IN [x EXCEPT
        !.scn  = [m \in DOMAIN @ |-> IF \E p \in parts : p.scn[m] # @[m]
                                     THEN [@[m] EXCEPT !.events = {}] ELSE @[m]],
        !.told = UNION {p.told : p \in parts}]

\* The finite set of numbers S in ascending order.
Ascending(S) ==
  [i \in 1..Cardinality(S) |->
     CHOOSE x \in S : Cardinality({y \in S : y <= x}) = i]

\* Mutation of Relist: what the node has left stays in its list.
RelistAll(old, S) == old \o Ascending(S \ Range(old))

\* The list of DDs of a node after a step that leaves it with the set S: what
\* is new was found in the order of the identifiers.
Relist(old, S) ==
  LET kept == Ascending({i \in DOMAIN old : old[i] \in S})
  IN [i \in DOMAIN kept |-> old[kept[i]]] \o Ascending(S \ Range(old))

\* The tables become r, without the active flags of the nodes, which no
\* notification looks at; "fresh" is a node whose list starts anew.
SetTables(r, fresh) ==
  /\ db' = [r EXCEPT !.node = [n \in DOMAIN @ |-> [@[n] EXCEPT !.active = FALSE]]]
  /\ order' = [n \in DOMAIN r.node |->
       Relist(IF n \in DOMAIN order \ fresh THEN order[n] ELSE <<>>,
              r.node[n].dds)]

\* The subscriptions and what was told become those of x.
SetSent(x) ==
  /\ scn' = [n \in DOMAIN db'.node |->
               IF n \in DOMAIN x.scn THEN x.scn[n] ELSE Nothing]
  /\ told' = x.told
  /\ UNCHANGED owner

(***************************************************************************)
(* The requests.                                                           *)
(***************************************************************************)
\* Create_Default_DD on an empty database gives out the first identifiers; the
\* entities are registered and stay.
Init ==
  /\ LET d == Min(DDs)
         s == Min(DDSs)
     IN
       db = [entity |-> [e \in Entities |-> [type |-> "iscsi", nodes |-> {}]],
             node |-> <<>>, idx |-> <<>>,
             dd  |-> [x \in {d} |-> [sym |-> DefaultSym, active |-> TRUE,
                                      members |-> <<>>, dds |-> <<s>>]],
             dds |-> [x \in {s} |-> [sym |-> DefaultDDSSym, status |-> TRUE,
                                       dds |-> <<d>>]]]
  /\ order = <<>> /\ scn = <<>>
  /\ owner = [f \in FDs |-> Nobody]
  /\ told = {}

\* ISNSdbAddAttrISCSINode, the message "bits" with a subscription or without.
\* Activate_DD_Membership tells of a node that DDs list already, before it is
\* stored; the handler then tells of a new node, or of changed attributes.
\* The node that a replacement removes has given up its list of DDs by then,
\* and so nobody is told of that.
RegNodeOf(n, e, f, replace, changed, bits) ==
  LET new   == replace \/ n \notin DOMAIN db.node
      after == RegisterNode(db, n, e, replace)
      known == DDsListing(db, n) # {}
      ds    == Relist(IF new THEN <<>> ELSE order[n], after.node[n].dds)
      had   == IF new THEN Nothing ELSE scn[n]
      has   == [events |-> IF bits = {} THEN had.events
                           ELSE CHOOSE b \in bits : TRUE,
                fd     |-> IF bits = {} THEN had.fd ELSE f]
      start == [Now EXCEPT !.scn = [m \in DOMAIN after.node |->
                                      IF m = n THEN has ELSE @[m]]]
      first == IF known THEN Notify(start, after, ds, n, "added") ELSE start
  IN /\ owner[f] # Nobody
     /\ new => ~changed
     /\ ~new /\ has.events # had.events => changed
     /\ SetTables(after, IF new THEN {n} ELSE {})
     /\ SetSent(IF new THEN Notify(first, after, ds, n, "added")
                ELSE IF changed THEN Notify(first, after, ds, n, "updated")
                ELSE first)

RegNode ==
  \E n \in Names, e \in DOMAIN db.entity, f \in FDs, replace, changed \in BOOLEAN,
     bits \in {{}} \cup {{b} : b \in Bitmaps} :
    RegNodeOf(n, e, f, replace, changed, bits)

\* SNSRemoveISCSINodeEntry: the node's list of DDs is deleted before the walk
\* over it.
DeregNode ==
  \E n \in DOMAIN db.node :
    /\ SetTables(RemoveNode(db, n), {})
    /\ SetSent(Notify(Now, db, <<>>, n, "removed"))

\* ISNSdbAddAttrDD with a member: whoever shares a DD with the member is told,
\* also when it was a member before.
RegDD ==
  \E m \in ScnDDReqs :
    LET after == RegisterDD(db, m)
        n     == AttrName(m.member[1])
        done  == m.member # <<>> /\ (m.dd \in DOMAIN db.dd) = m.keyed
                 /\ AttrKnown(db, m.member[1])
    IN /\ MadeUp(db, m)
       /\ SetTables(after, {})
       /\ IF done /\ n \in DOMAIN db.node
          THEN SetSent(Notify(Now, after, order'[n], n, "added"))
          ELSE SetSent(Now)

\* SNSdbRemoveDD_Member: the DD has left the node's list when that is walked.
DeregDDMember ==
  \E d \in DOMAIN db.dd, a \in MemberAttrs :
    /\ AttrKnown(db, a)
    /\ SetTables(DeregisterDDMember(db, d, a), {})
    /\ IF AttrName(a) \in DOMAIN db.node
       THEN SetSent(Notify(Now, db', order'[AttrName(a)], AttrName(a), "removed"))
       ELSE SetSent(Now)

\* SNSdbRemoveDD_Entry tells nobody.
DeregDD ==
  \E d \in DOMAIN db.dd : SetTables(DeregisterDD(db, d), {}) /\ SetSent(Now)

\* A registration that adds a DD to a set, and the removal of one from it:
\* the DD becomes active or inactive, and nobody is told.
ChangeDDS ==
  \E s \in DOMAIN db.dds, d \in DOMAIN db.dd :
    /\ \/ SetTables(AddDDSToDD(db, s, d, db.dds[s].status), {})
       \/ SetTables(DeregisterDDSMember(db, s, d), {})
    /\ SetSent(Now)

\* ISNSdbAddAttrPortal and SNSRemovePortalEntry: a portal of the entity comes
\* or goes.
ChangePortal ==
  \E e \in DOMAIN db.entity, event \in {"added", "removed"} :
    /\ SetTables(db, {})
    /\ SetSent(NotifyOf(Now, db, db.entity[e].nodes, event))

\* ISNS_RegisterSCN on a TCP connection.
RegSCN ==
  \E n \in DOMAIN db.node, b \in Bitmaps, f \in FDs :
    /\ owner[f] # Nobody
    /\ scn' = [scn EXCEPT ![n] = [events |-> b, fd |-> f]]
    /\ told' = {}
    /\ UNCHANGED <<db, order, owner>>

\* The deregistration of notifications.
DeregSCN ==
  \E n \in DOMAIN db.node :
    /\ scn' = [scn EXCEPT ![n] = Nothing]
    /\ told' = {}
    /\ UNCHANGED <<db, order, owner>>

Free == {f \in FDs : owner[f] = Nobody}

Connect ==
  \E c \in Clients, f \in Free :
    /\ \A g \in Free : f <= g
    /\ \A g \in FDs : owner[g] # c
    /\ owner' = [owner EXCEPT ![f] = c]
    /\ told' = {}
    /\ UNCHANGED <<db, order, scn>>

Disconnect ==
  \E f \in FDs \ Free :
    /\ owner' = [owner EXCEPT ![f] = Nobody]
    /\ told' = {}
    /\ UNCHANGED <<db, order, scn>>

Next ==
  \/ RegNode \/ DeregNode \/ RegDD \/ DeregDDMember \/ DeregDD \/ ChangeDDS
  \/ ChangePortal \/ RegSCN \/ DeregSCN \/ Connect \/ Disconnect

Spec == Init /\ [][Next]_vars

(***************************************************************************)
(* Properties.                                                             *)
(***************************************************************************)

\* The tables have the nodes' lists in some order, a subscription for each
\* node and no other; what asks for events has a descriptor.
TypeOK ==
  /\ DOMAIN order = DOMAIN db.node /\ DOMAIN scn = DOMAIN db.node
  /\ \A n \in DOMAIN db.node :
       /\ IsInjective(order[n]) /\ Range(order[n]) = db.node[n].dds
       /\ scn[n] \in [events : SUBSET Events, fd : FDs \cup {0}]
       /\ scn[n].events # {} => scn[n].fd # 0
  /\ owner \in [FDs -> Clients \cup {Nobody}]
  /\ told \subseteq Clients \X Names \X Names \X Events

\* The nodes that share an active DD with n and have an open connection on
\* which the event is to be sent.
Subscribers(n, event) ==
  {m \in (DOMAIN db'.node \cap DOMAIN db.node) \ {n} :
     /\ \E d \in DDsListing(db', n) \cap DDsListing(db', m) : db'.dd[d].active
     /\ event \in scn[m].events
     /\ owner[scn[m].fd] # Nobody}

ToldOf(n, event) == {t[2] : t \in {x \in told' : x[3] = n /\ x[4] = event}}

\* Every member of every DD that lists n is registered.
AllRegistered(n) ==
  \A d \in DDsListing(db', n) :
    MemberNames(db'.dd[d].members) \subseteq DOMAIN db'.node

\* A node that is registered is announced to every node that shares an active
\* DD with it and has asked for that, whichever of the two, the memberships and
\* the subscription came first, as long as no member of these DDs is missing.
NewNodeAnnounced ==
  [][\A n \in DOMAIN db'.node \ DOMAIN db.node :
       AllRegistered(n) => Subscribers(n, "added") \subseteq ToldOf(n, "added")]_vars

\* n has, in the tables r, an active DD that lists m.
Shares(r, n, m) ==
  \E d \in r.node[n].dds \cap DOMAIN r.dd :
    r.dd[d].active /\ m \in MemberNames(r.dd[d].members)

\* The notification t is sent on the connection on which its receiver asked for
\* the event, about another node, which has an active DD that lists the
\* receiver.
Rightly(t, r) ==
  /\ t \in Clients \X Names \X Names \X Events
  /\ t[2] # t[3] /\ t[2] \in DOMAIN scn
  /\ t[4] \in scn[t[2]].events /\ t[1] = owner[scn[t[2]].fd]
  /\ t[3] \in DOMAIN r.node /\ Shares(r, t[3], t[2])

\* A notification goes only to a node that had asked for its event before, on
\* the descriptor it had asked on, and only about a node with an active DD that
\* lists the receiver: no handler tells a member of a DD that the node, at that
\* step, has left or that has become inactive.
ToldRightly == [][\A t \in told' : Rightly(t, db')]_vars

\* iSNSscn.c: send_iscsi_scn_to_members sends a notification to all the DD
\* members of the node.
MembersTold ==
  [][\A n \in DOMAIN db'.node \ DOMAIN db.node :
       Subscribers(n, "added") \subseteq ToldOf(n, "added")]_vars
=============================================================================
