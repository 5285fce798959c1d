----------------------------- MODULE IsnsNodes -----------------------------
(***************************************************************************)
(* The handlers that register and deregister entities and iSCSI nodes      *)
(* (iSNSreg.c, iSNSdereg.c), on the tables of IsnsDomains.  The portals of *)
(* an entity are left to IsnsPortals.                                      *)
(***************************************************************************)
EXTENDS IsnsDomains

\* Mutation of RemoveNode: the entity keeps the node in its list.
RemoveNodeOnly(r, n) ==
  IF n \notin DOMAIN r.node \/ r.node[n].entity \notin DOMAIN r.entity THEN r
  ELSE [r EXCEPT
          !.idx  = IF n \in DOMAIN @ /\ @[n] = 0 THEN Drop(@, n) ELSE @,
          !.node = Drop(@, n)]

\* SNSRemoveISCSINodeEntry.  Disabling the members of the node's DDs changes
\* only a copy of the list element, so the domains keep them as they are.  The
\* node of an entity that is not stored stays.
RemoveNode(r, n) ==
  IF n \notin DOMAIN r.node \/ r.node[n].entity \notin DOMAIN r.entity THEN r
  ELSE [r EXCEPT
          !.entity[r.node[n].entity].nodes = @ \ {n},
          !.idx  = IF n \in DOMAIN @ /\ @[n] = 0 THEN Drop(@, n) ELSE @,
          !.node = Drop(@, n)]

\* The DDs that list the name, by exact comparison.
DDsListing(r, n) == {d \in DOMAIN r.dd : n \in MemberNames(r.dd[d].members)}

\* Mutation of ActivateMembership: the search stops at the first DD found.
ActivateFirstMembership(r, n) ==
  LET listing == DDsListing(r, n)
      default == {d \in DOMAIN r.dd : r.dd[d].sym = DefaultSym}
      d       == CHOOSE x \in (IF listing = {} THEN default ELSE listing) : TRUE
  IN IF listing = {} /\ default = {} THEN [r EXCEPT !.node[n].active = TRUE]
     ELSE [(IF listing = {} THEN AddDDMember(r, d, n, TRUE) ELSE r) EXCEPT
             !.node[n].dds = @ \cup {d}, !.node[n].active = TRUE]

\* Activate_DD_Membership on a node in the table: it learns every DD that
\* lists it; listed nowhere, it joins the default DD if there is one, and is
\* active in any case.  The members themselves keep their status.
ActivateMembership(r, n) ==
  LET listing == DDsListing(r, n)
      default == {d \in DOMAIN r.dd : r.dd[d].sym = DefaultSym}
      d       == CHOOSE x \in default : TRUE
  IN IF listing # {}
     THEN [r EXCEPT !.node[n].dds = @ \cup listing,
                    !.node[n].active = @ \/ \E x \in listing : r.dd[x].active]
     ELSE IF default = {} THEN [r EXCEPT !.node[n].active = TRUE]
     ELSE [AddDDMember(r, d, n, TRUE) EXCEPT
             !.node[n].dds = @ \cup {d}, !.node[n].active = TRUE]

\* Mutation of RegisterNode: a node that replaces another is not activated.
RegisterNodeAnew(r, n, e, replace) ==
  LET before == IF replace THEN RemoveNode(r, n) ELSE r
      fresh  == [entity |-> e, active |-> FALSE, dds |-> {}]
      stored == [before EXCEPT !.idx  = IF n \in DOMAIN @ THEN @ ELSE Put(@, n, 0),
                               !.node = Put(@, n, fresh),
                               !.entity[e].nodes = @ \cup {n}]
  IN IF n \in DOMAIN r.node /\ ~replace THEN ActivateMembership(r, n)
     ELSE IF e \notin DOMAIN r.entity THEN before
     ELSE IF n \in DOMAIN r.node THEN stored
     ELSE ActivateMembership(stored, n)

\* ISNSdbAddAttrISCSINode for a node named among the attributes, of the entity
\* e.  The index of the name is written before the entity is looked at.
RegisterNode(r, n, e, replace) ==
  LET before  == IF replace THEN RemoveNode(r, n) ELSE r
      indexed == IF n \in DOMAIN before.idx THEN before
                 ELSE [before EXCEPT !.idx = Put(@, n, 0)]
      fresh   == [entity |-> e, active |-> FALSE, dds |-> {}]
  IN IF n \in DOMAIN r.node /\ ~replace THEN ActivateMembership(r, n)
     ELSE IF e \notin DOMAIN r.entity THEN indexed
     ELSE IF r.entity[e].type # "iscsi" THEN indexed
     ELSE ActivateMembership(
            [indexed EXCEPT !.entity[e].nodes = @ \cup {n},
                            !.node = Put(@, n, fresh)], n)

\* ISNSdbRemoveAttrEntityEntry: the nodes an iSCSI entity lists go with it.
\* Every node of the list is stored and belongs to the entity (ListedNodes of
\* IsnsRegistry), so the removal of one never stops the loop.
RemoveEntity(r, e) ==
  IF e \notin DOMAIN r.entity THEN r
  ELSE
  LET nodes == IF r.entity[e].type = "iscsi" THEN r.entity[e].nodes ELSE {}
  IN [r EXCEPT
        !.idx    = [n \in {x \in DOMAIN @ : x \in nodes => @[x] # 0} |-> @[n]],
        !.node   = [n \in DOMAIN @ \ nodes |-> @[n]],
        !.entity = Drop(@, e)]

\* An entity registration: the type it gives or, for a new entity, the type the
\* other attributes imply; "same" when the entity stored has the same set of
\* node types, which a replacement asks for; "bad" when an attribute is refused.
EntityRequests ==
  [entity : Entities, type : EntityTypes, replace : BOOLEAN, same : BOOLEAN,
   bad : BOOLEAN]

\* SNSdbAddAttrEntity.
RegisterEntity(r, m) ==
  LET e      == m.entity
      before == IF m.replace /\ m.same THEN RemoveEntity(r, e) ELSE r
      old    == IF e \in DOMAIN before.entity THEN before.entity[e]
                ELSE [type |-> "none", nodes |-> {}]
      type   == IF m.type = "none" THEN old.type ELSE m.type
  IN IF m.bad THEN before
     ELSE [before EXCEPT !.entity = Put(@, e, [old EXCEPT !.type = type])]
=============================================================================
