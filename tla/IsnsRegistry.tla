---------------------------- MODULE IsnsRegistry ---------------------------
(***************************************************************************)
(* The registration database of the iSNS server as its clients change it:  *)
(* one action per request type, each the whole handler.                    *)
(***************************************************************************)
EXTENDS IsnsNodes

CONSTANTS
  DDReqs, DDSReqs, EntityReqs, \* the registrations that clients send
  MaxRefs                      \* a bound on the reference counts

ASSUME RequestAssumption ==
  /\ DDReqs \subseteq DDRequests
  /\ DDSReqs \subseteq DDSRequests
  /\ EntityReqs \subseteq EntityRequests
ASSUME MaxRefsAssumption == MaxRefs \in Nat

VARIABLES
  db,   \* the tables of the memory database
  up    \* the server process has not crashed

vars == <<db, up>>

Nodes == [entity : Entities, active : BOOLEAN, dds : SUBSET DDs]
Members == [name : Names, enabled : BOOLEAN]
DDObjects == [sym : Syms \cup {NoSym}, active : BOOLEAN,
              members : Seq(Members), dds : Seq(DDSs)]
DDSObjects == [sym : Syms \cup {NoSym}, status : BOOLEAN, dds : Seq(DDs)]
EntityObjects == [type : EntityTypes, nodes : SUBSET Names]

IsTable(t, K, V) == DOMAIN t \subseteq K /\ t \in [DOMAIN t -> V]

\* The tables r are well typed.
Typed(r) ==
  /\ r = [entity |-> r.entity, node |-> r.node, idx |-> r.idx,
          dd |-> r.dd, dds |-> r.dds]
  /\ IsTable(r.entity, Entities, EntityObjects)
  /\ IsTable(r.node, Names, Nodes)
  /\ IsTable(r.idx, Names, Nat)
  /\ IsTable(r.dd, DDs, DDObjects)
  /\ IsTable(r.dds, DDSs, DDSObjects)

\* The tables are well typed; in particular no reference count is negative.
TypeOK == up \in BOOLEAN /\ Typed(db)

Empty == [x \in {} |-> x]

\* Create_Default_DD on an empty database: the default DD, active, in the
\* default DDS, enabled.
Init ==
  /\ up = TRUE
  /\ \E d \in DDs, s \in DDSs :
       db = [entity |-> Empty, node |-> Empty, idx |-> Empty,
             dd  |-> Put(Empty, d, [sym |-> DefaultSym, active |-> TRUE,
                                    members |-> <<>>, dds |-> <<s>>]),
             dds |-> Put(Empty, s, [sym |-> DefaultDDSSym, status |-> TRUE,
                                    dds |-> <<d>>])]

\* The handler returns to the main loop.
Serving == up /\ up' = TRUE

RegEntity == Serving /\ \E m \in EntityReqs : db' = RegisterEntity(db, m)

DeregEntity == Serving /\ \E e \in Entities : db' = RemoveEntity(db, e)

RegNode ==
  /\ Serving
  /\ \E n \in Names, e \in Entities, replace \in BOOLEAN :
       db' = RegisterNode(db, n, e, replace)

DeregNode == Serving /\ \E n \in Names : db' = RemoveNode(db, n)

RegDD ==
  /\ Serving
  /\ \A n \in DOMAIN db.idx : db.idx[n] < MaxRefs
  /\ \E m \in DDReqs : MadeUp(db, m) /\ db' = RegisterDD(db, m)

DeregDDMember ==
  /\ Serving
  /\ \E d \in DDs, a \in MemberAttrs : db' = DeregisterDDMember(db, d, a)

DeregDD == Serving /\ \E d \in DDs : db' = DeregisterDD(db, d)

RegDDS ==
  /\ Serving
  /\ \E m \in DDSReqs : \E res \in RegisterDDSResults(db, m) :
       /\ res.ending # "crash"
       /\ db' = res.db

DeregDDSMember ==
  /\ Serving
  /\ \E s \in DDSs, d \in DDs : db' = DeregisterDDSMember(db, s, d)

DeregDDS == Serving /\ \E s \in DDSs : db' = DeregisterDDS(db, s)

\* The walk over the DDs of a set runs beyond the end of the list.
CrashInRegDDS ==
  /\ up /\ up' = FALSE
  /\ \E m \in DDSReqs : \E res \in RegisterDDSResults(db, m) :
       /\ res.ending = "crash"
       /\ db' = res.db

Request ==
  \/ RegEntity \/ DeregEntity \/ RegNode \/ DeregNode
  \/ RegDD \/ DeregDDMember \/ DeregDD
  \/ RegDDS \/ DeregDDSMember \/ DeregDDS

Next == Request \/ CrashInRegDDS

Spec == Init /\ [][Next]_vars

(***************************************************************************)
(* Safety.                                                                 *)
(***************************************************************************)

\* A registered node has an index.
NodesIndexed(r) == DOMAIN r.node \subseteq DOMAIN r.idx

\* A name that DDs list has an index, whose count is at least their number.
MembersIndexed(r) ==
  \A n \in Names : DDsListing(r, n) # {} =>
    /\ n \in DOMAIN r.idx
    /\ Cardinality(DDsListing(r, n)) <= r.idx[n]

\* A name that a registered node or a member of a DD carries has an index, and
\* the reference count of the index is never below the number of DDs that
\* list the name: no handler frees an index that is still in use
\* (Add_DD_Member, Remove_DD_Member, SNSdbRemoveDD_Entry,
\* SNSRemoveISCSINodeEntry, ISNSdbAddAttrISCSINode).
Indexed == NodesIndexed(db) /\ MembersIndexed(db)

\* No two members of a DD have one name.
UniqueMembers(r) ==
  \A d \in DOMAIN r.dd : \A i, j \in DOMAIN r.dd[d].members :
    r.dd[d].members[i].name = r.dd[d].members[j].name => i = j

\* No list of DDSs of a DD and no list of DDs of a DDS holds an id twice.
UniqueLinks(r) ==
  /\ \A d \in DOMAIN r.dd : IsInjective(r.dd[d].dds)
  /\ \A s \in DOMAIN r.dds : IsInjective(r.dds[s].dds)

\* No member list, list of DDs or list of DDSs holds an element twice: the
\* removals take out one element and count one reference.
NoDuplicates == UniqueMembers(db) /\ UniqueLinks(db)

\* A set in r lists only DDs that exist, and each of them lists the set.
DDsOfSets(r) ==
  \A s \in DOMAIN r.dds : \A d \in Range(r.dds[s].dds) :
    d \in DOMAIN r.dd /\ s \in Range(r.dd[d].dds)

\* A set lists only DDs that exist, and each of them lists the set: the walks
\* of SNSdbRemoveAttrDDS_Entry and ISNSdbAddAttrDDS meet no missing DD.
SetsListed == DDsOfSets(db)

\* The entities in r list only nodes that are registered under it.
NodesOfEntities(r) ==
  \A e \in DOMAIN r.entity : \A n \in r.entity[e].nodes :
    n \in DOMAIN r.node /\ r.node[n].entity = e

\* An entity lists only nodes that are registered under it, which is what lets
\* ISNSdbRemoveAttrEntityEntry remove all of them.
ListedNodes == NodesOfEntities(db)

\* A registered node knows every DD that lists it.
NodesKnowDDs(r) ==
  \A n \in DOMAIN r.node : DDsListing(r, n) \subseteq r.node[n].dds

\* Every DD that lists a registered node is in the list of that node, in
\* whichever order the node and the membership were registered.
MembersKnowTheirDDs == NodesKnowDDs(db)

\* Two DDs never have the same symbolic name (Check_Unique_DD_Sym); a DD left
\* without a name by a failed registration does not count.
DDNamesUnique ==
  \A d, x \in DOMAIN db.dd :
    d # x /\ db.dd[d].sym = db.dd[x].sym => db.dd[d].sym = NoSym
=============================================================================
