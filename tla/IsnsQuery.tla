------------------------------ MODULE IsnsQuery -----------------------------
(***************************************************************************)
(* Queries: iSNSquery.c over the tables of IsnsRegistry.                   *)
(*                                                                         *)
(* A query changes no table; what it shows to a source is an operator of   *)
(* the tables.  It does leave something behind: the DDs of the last node   *)
(* or entity looked at stay in the global list dlist_node, which the       *)
(* handlers of sets also use, and to which a query for portals only adds.  *)
(* A client that lists a table or the members of a DD does it in many      *)
(* requests, each naming the last answer, between which other clients      *)
(* change the tables; such a walk is a part of the state.                  *)
(*                                                                         *)
(* Every portal of an entity is registered with it and goes with it here   *)
(* (IsnsPortals has the rest), so a portal is shown when PortalShown holds *)
(* of its entity.  A query with several keys, or of a whole table, shows   *)
(* what the queries for each of its objects show.  The attributes that the *)
(* answer carries, and the time stamp of the source's entity, are left out.*)
(***************************************************************************)
EXTENDS IsnsRegistry

CONSTANTS
  NoSource,     \* a message whose source is empty
  ControlNode,  \* isns_control_node, the name of the administrator
  Walkers,      \* the nodes whose walks over a table are followed
  Rank          \* the order of names and of entities as keys of their tables

\* A name has at most MAX_ISCSI_NODE_ID_SIZE bytes, an entity identifier
\* MAX_ENTITY_ID_SIZE; the ids that ISNS_GetNewDD_ID gives begin with 1.
ASSUME QueryAssumption ==
  /\ IsFiniteSet(Names) /\ IsFiniteSet(Entities)
  /\ 0 \notin DDs /\ (Names \cup Entities) \cap (DDs \cup {0}) = {}
  /\ {NoSource, ControlNode} \cap Names = {}
  /\ Walkers \subseteq Names
  /\ Rank \in [Names \cup Entities -> Nat \ {0}]
  /\ IsInjective(Rank)

VARIABLES
  dlist_node, \* the global list of DDs
  walk        \* the walk of a client, the only one followed

queryVars == <<vars, dlist_node, walk>>

Sources == Names \cup {NoSource, ControlNode}

(***************************************************************************)
(* Who is shown what.                                                      *)
(***************************************************************************)

\* Get_Active_DD_List_From_ISCSI_Node: the active DDs in the list of the node,
\* up to the first that is not stored.  IsnsNodes keeps no order of the list,
\* so any of the others may stand before that one.
ActiveDDs(r, n) ==
  LET stored == r.node[n].dds \cap DOMAIN r.dd
      Active(S) == {d \in S : r.dd[d].active}
  IN IF r.node[n].dds = stored THEN {Active(stored)}
     ELSE {Active(S) : S \in SUBSET stored}

\* The active DDs that the nodes' lists give, one choice for each node.
Readings(r) ==
  {c \in [DOMAIN r.node -> SUBSET DDs] :
     \A n \in DOMAIN r.node : c[n] \in ActiveDDs(r, n)}

\* Get_Active_DD_List_From_ENTITY_Node: all the DDs of the nodes that an iSCSI
\* entity lists.
EntityDDs(r, c, e) ==
  IF e \notin DOMAIN r.entity \/ r.entity[e].type # "iscsi" THEN {}
  ELSE UNION {c[n] : n \in r.entity[e].nodes \cap DOMAIN r.node}

\* The control node and a source without a name may see all.
Administrator(s) == s \in {NoSource, ControlNode}

\* Check_Permission and the list it compares with: a source that is not
\* registered may see nothing.
Permits(r, c, s, ds) ==
  Administrator(s) \/ (s \in DOMAIN r.node /\ c[s] \cap ds # {})

\* ISNSdbGetAttrISCSI for the node n.
NodeShown(r, c, s, n) == Permits(r, c, s, c[n])

\* Mutation of EntityShown: only the first node counts.
EntityShownByOne(r, c, s, e) ==
  LET nodes == r.entity[e].nodes \cap DOMAIN r.node
      n     == CHOOSE x \in nodes : \A y \in nodes : Rank[x] <= Rank[y]
  IN Permits(r, c, s, IF nodes = {} THEN {} ELSE c[n])

\* SNSdbGetAttrEntity for the entity e.
EntityShown(r, c, s, e) == Permits(r, c, s, EntityDDs(r, c, e))

\* SNSdbGetAttrPortal for a portal of the entity e: the list is not cleared
\* before the DDs of the entity are added to it.
PortalShown(r, c, s, e) ==
  Permits(r, c, s, dlist_node \cup EntityDDs(r, c, e))

\* Check_Authorization: the control node alone, not a source without a name.
Authorized(s) == s = ControlNode

\* SNSdbGetAttrDD for the name of a node: the DDs that it lists, or an error if
\* one of them is not stored or the source is not the control node.
DDsShown(r, s, n) ==
  {d \in r.node[n].dds : Authorized(s) /\ r.node[n].dds \subseteq DOMAIN r.dd}

\* The list after a source has looked at an object with the DDs ds.
Leaves(r, s, ds) ==
  IF s \in DOMAIN r.node THEN ds ELSE dlist_node

(***************************************************************************)
(* Walks.                                                                  *)
(***************************************************************************)
Idle == [of |-> "idle"]
Start == 0   \* the position before the first element
TableKinds == {"nodes", "entities", "domains"}
ListKinds == {"members", "sets"}

\* A walk over a table by ISNSGetNextAttr: the source, the key of the last
\* object answered and, as a ghost, the objects that were shown to the source
\* ever since the walk began and have not been answered yet.  The walk over the
\* sets is that over the DDs; who asks makes no difference to both.
TableWalks ==
  [of : {"nodes"}, src : Walkers, at : {Start} \cup Names, owed : SUBSET Names]
  \cup
  [of : {"entities"}, src : Walkers, at : {Start} \cup Entities,
   owed : SUBSET Entities]
  \cup
  [of : {"domains"}, src : {NoSource}, at : {Start} \cup DDs,
   owed : SUBSET DDs]

\* A walk over the members of a DD by ISNSGetNextDDIscsiMember, or over the
\* DDs of a set by ISNSGetNextDDSMember: the last element answered, whether it
\* has left the list since, and the elements owed as above.
ListWalks ==
  [of : {"members"}, key : DDs, at : {Start} \cup Names, moved : BOOLEAN,
   owed : SUBSET Names]
  \cup
  [of : {"sets"}, key : DDSs, at : {Start} \cup DDs, moved : BOOLEAN,
   owed : SUBSET DDs]

\* The list that a walk goes over; the object may be gone.
Walked(r, w) ==
  IF w.of = "members"
  THEN IF w.key \notin DOMAIN r.dd THEN <<>>
       ELSE [i \in DOMAIN r.dd[w.key].members |-> r.dd[w.key].members[i].name]
  ELSE IF w.key \notin DOMAIN r.dds THEN <<>> ELSE r.dds[w.key].dds

\* The table that a walk goes over, and its order.
Keys(r, w) ==
  CASE w.of = "nodes"    -> DOMAIN r.node
    [] w.of = "entities" -> DOMAIN r.entity
    [] w.of = "domains"  -> DOMAIN r.dd

Key(x) == IF x \in DDs \cup {Start} THEN x ELSE Rank[x]

Lowest(S) == CHOOSE x \in S : \A y \in S : Key(x) <= Key(y)

\* The DDs that the permission to see the object x is a matter of.
DDsOf(r, c, w, x) == IF w.of = "nodes" THEN c[x] ELSE EntityDDs(r, c, x)

Shown(r, c, w, x) == w.of = "domains" \/ Permits(r, c, w.src, DDsOf(r, c, w, x))

\* What is shown to the walk's source however the lists are ordered.
SurelyShown(r, w) ==
  {x \in Keys(r, w) : \A c \in Readings(r) : Shown(r, c, w, x)}

\* What a change of the tables means for the walk: nothing that has been away
\* is owed any more.
Disturbed(r, w) ==
  CASE w.of = "idle"            -> w
    [] w.of \in ListKinds ->
         LET here == Range(Walked(r, w))
         IN [w EXCEPT !.owed = @ \cap here,
                      !.moved = @ \/ (w.at # Start /\ w.at \notin here)]
    [] OTHER -> [w EXCEPT !.owed = @ \cap SurelyShown(r, w)]

\* The objects after the key that a walk has reached.
Above(r, w) == {x \in Keys(r, w) : Key(x) > Key(w.at)}

\* Mutation of NextShown: the first object after the key decides.
NextShownOrNone(r, c, w) ==
  LET above == Above(r, w)
  IN IF above # {} /\ Shown(r, c, w, Lowest(above)) THEN {Lowest(above)}
     ELSE {}

\* The next object that a walk is shown, if any: the others are skipped.
NextShown(r, c, w) ==
  LET shown == {x \in Above(r, w) : Shown(r, c, w, x)}
  IN IF shown = {} THEN {} ELSE {Lowest(shown)}

\* The list after the search of NextShown: the DDs of the last object looked
\* at.  For a DD there is nothing to compare.
Searched(r, c, w) ==
  LET next   == NextShown(r, c, w)
      looked == {x \in Above(r, w) : \A y \in next : Key(x) <= Key(y)}
      last   == CHOOSE x \in looked : \A y \in looked : Key(y) <= Key(x)
  IN IF w.of = "domains" \/ looked = {} THEN dlist_node
     ELSE Leaves(r, w.src, DDsOf(r, c, w, last))

\* Mutation of NextAfter: the first element with a greater key.
NextGreater(s, at) ==
  LET greater == {i \in DOMAIN s : Key(s[i]) > Key(at)}
  IN {i \in greater : \A j \in greater : i <= j}

\* The element after the last one answered, wherever that is now.
NextAfter(s, at) ==
  {i \in DOMAIN s : IF i = 1 THEN at = Start ELSE s[i - 1] = at}

(***************************************************************************)
(* The server and its clients.                                             *)
(***************************************************************************)
QueryInit == Init /\ dlist_node = {} /\ walk = Idle

\* The handlers that leave the list alone.
Change ==
  /\ \/ RegEntity \/ DeregEntity \/ RegNode \/ DeregNode
     \/ RegDD \/ DeregDDMember \/ DeregDD
  /\ walk' = Disturbed(db', walk)
  /\ UNCHANGED dlist_node

Flipped ==
  {d \in DOMAIN db.dd \cap DOMAIN db'.dd : db.dd[d].active # db'.dd[d].active}

\* SNSdbRemoveAttrDDS_Entry and _Member note the DDs that become inactive in
\* the list; a set that is not stored leaves it alone.  ISNSdbAddAttrDDS notes
\* the DDs that a change of the status reaches, or leaves it alone.
ChangeSet ==
  /\ \/ /\ RegDDS
        /\ dlist_node' \in {dlist_node} \cup SUBSET Flipped
     \/ /\ DeregDDSMember \/ DeregDDS
        /\ dlist_node' \in {Flipped} \cup (IF Flipped = {} THEN {dlist_node} ELSE {})
  /\ walk' = Disturbed(db', walk)

\* A client looks at a node: ISNSdbGetAttrISCSI, or SNSdbGetAttrPortal by the
\* name of a node.
QueryNode ==
  /\ Serving
  /\ dlist_node' \in {Leaves(db, s, c[n]) :
       s \in Sources, c \in Readings(db), n \in DOMAIN db.node}
  /\ UNCHANGED <<db, walk>>

\* A client looks at an entity.
QueryEntity ==
  /\ Serving
  /\ dlist_node' \in {Leaves(db, s, EntityDDs(db, c, e)) :
       s \in Sources, c \in Readings(db), e \in DOMAIN db.entity}
  /\ UNCHANGED <<db, walk>>

\* A client looks at a portal, by its address, its index or its entity.
QueryPortal ==
  /\ Serving
  /\ dlist_node' \in {Leaves(db, s, dlist_node \cup EntityDDs(db, c, e)) :
       s \in Sources, c \in Readings(db), e \in DOMAIN db.entity}
  /\ UNCHANGED <<db, walk>>

StartTableWalk ==
  /\ Serving /\ walk = Idle
  /\ \E w \in [of : {"nodes", "entities"}, src : Walkers]
              \cup [of : {"domains"}, src : {NoSource}] :
       walk' = [of |-> w.of, src |-> w.src, at |-> Start,
                owed |-> SurelyShown(db, w)]
  /\ UNCHANGED <<db, dlist_node>>

\* ISNSGetNextAttr; without an answer the walk ends.  A source can go on from
\* the key of the last object or from its index.  No index is given twice, so
\* that an index gives the key it was given for, or an error that leaves the
\* walk where it is.
NextObject ==
  /\ Serving /\ walk.of \in TableKinds
  /\ \E c \in Readings(db) :
       LET next == NextShown(db, c, walk)
       IN /\ walk' = IF next = {} THEN Idle
                     ELSE [walk EXCEPT !.at = Lowest(next), !.owed = @ \ next]
          /\ dlist_node' = Searched(db, c, walk)
  /\ UNCHANGED db

StartListWalk ==
  /\ Serving /\ walk = Idle
  /\ \E w \in [of : {"members"}, key : DOMAIN db.dd]
              \cup [of : {"sets"}, key : DOMAIN db.dds] :
       walk' = [of |-> w.of, key |-> w.key, at |-> Start, moved |-> FALSE,
                owed |-> Range(Walked(db, w))]
  /\ UNCHANGED <<db, dlist_node>>

\* ISNSGetNextDDIscsiMember and ISNSGetNextDDSMember.  The walk ends when there
\* is no next element, when the object is gone, or when the last answer is no
\* longer in the list.  A member that has come back may have another index,
\* which counts as gone.
NextElement ==
  /\ Serving /\ walk.of \in ListKinds
  /\ LET s    == Walked(db, walk)
         next == NextAfter(s, walk.at)
     IN \/ \E i \in next :
             walk' = [walk EXCEPT !.at = s[i], !.owed = @ \ {s[i]}]
        \/ /\ next = {} \/ (walk.of = "members" /\ walk.moved)
           /\ walk' = Idle
  /\ UNCHANGED <<db, dlist_node>>

Query ==
  \/ QueryNode \/ QueryEntity \/ QueryPortal
  \/ StartTableWalk \/ NextObject \/ StartListWalk \/ NextElement

QueryNext == Change \/ ChangeSet \/ Query

QuerySpec == QueryInit /\ [][QueryNext]_queryVars

(***************************************************************************)
(* Properties.                                                             *)
(***************************************************************************)

\* The list and the walk are well typed.
QueryTypeOK ==
  /\ TypeOK
  /\ dlist_node \subseteq DDs
  /\ walk \in {Idle} \cup TableWalks \cup ListWalks

\* A source that is shown a node is shown the entity of the node and its
\* portals too, whatever the list holds: discovery never ends half-way.
ShownWithEntity ==
  \A c \in Readings(db), s \in Sources, n \in DOMAIN db.node :
    NodeShown(db, c, s, n) =>
      /\ EntityShown(db, c, s, db.node[n].entity)
      /\ PortalShown(db, c, s, db.node[n].entity)

\* Two registered members of an active DD are shown to one another, and the DD
\* to the control node that asks for the DDs of one of them, whatever the order
\* in which the DD, its members and the nodes were registered, unless one of
\* the two still lists a DD that is gone.  Both kinds of query read the lists
\* of the nodes, never that of the DD.
FellowsShown ==
  \A n, m \in DOMAIN db.node : \A d \in DDsListing(db, n) \cap DDsListing(db, m) :
    /\ db.dd[d].active
    /\ db.node[n].dds \cup db.node[m].dds \subseteq DOMAIN db.dd
    => /\ \A c \in Readings(db) : NodeShown(db, c, n, m)
       /\ d \in DDsShown(db, ControlNode, n)

\* A walk over a table misses no object that is shown to its source from the
\* first request to the last, although the objects it has reached, and others,
\* come and go meanwhile (ISNSGetNextAttr).
TableWalkComplete ==
  [][walk.of \in TableKinds /\ walk' = Idle => walk.owed = {}]_queryVars

\* A walk over the members of a DD or the DDs of a set that ends without an
\* error misses no element that stays in the list, unless the element it had
\* reached has been taken out and put back meanwhile.
ListWalkComplete ==
  [][walk.of \in ListKinds /\ walk' = Idle /\ ~walk.moved
       => walk.owed = {}]_queryVars

\* README: the iSNS server scopes a query to the DDs that its source is a
\* member of.
PortalScoped ==
  \A s \in DOMAIN db.node, e \in DOMAIN db.entity, c \in Readings(db) :
    PortalShown(db, c, s, e) => c[s] \cap EntityDDs(db, c, e) # {}
=============================================================================
