------------------------- MODULE IsnsPortalsProofs --------------------------
(***************************************************************************)
(* Theorems of IsnsPortals, for any portals, entities and descriptors, any *)
(* intervals and any limit of unanswered inquiries.                        *)
(*                                                                         *)
(* No part of the invariant is inductive alone.  A portal whose inquiries  *)
(* reach the limit is removed only if its entity is stored, so the bound   *)
(* of TypeOK needs PortalsOwned; that needs the indexes given out to be    *)
(* below the next one; and that a portal is never removed too early needs  *)
(* the time since it answered to keep up with the inquiries sent to it.    *)
(***************************************************************************)
EXTENDS IsnsPortals, TLAPS

\* The types of the tables r.
Tables(r) ==
  /\ DOMAIN r = {"entity", "portal", "pidx", "last"}
  /\ DOMAIN r.entity \subseteq Entities
  /\ \A e \in DOMAIN r.entity : r.entity[e] \subseteq Portals \X (1..MaxIdx)
  /\ DOMAIN r.portal \subseteq Portals
  /\ \A p \in DOMAIN r.portal : r.portal[p] \in PortalObjects
  /\ DOMAIN r.pidx \subseteq 1..MaxIdx
  /\ \A i \in DOMAIN r.pidx : r.pidx[i] \in Portals
  /\ r.last \in 0..MaxIdx

\* The indexes in use have been given out.
Numbered(r) == DOMAIN r.pidx \subseteq 1..r.last

\* A portal v that is to be asked over TCP has a descriptor, and its interval
\* is not shorter than the server accepts.
Askable(v) ==
  /\ v.period # 0 /\ ~v.udp => v.fd # NoFD
  /\ v.period # 0 => v.period >= sns_esi_interval

Sound(r) ==
  /\ Tables(r)
  /\ Owned(r)
  /\ Numbered(r)
  /\ \A p \in DOMAIN r.portal : Askable(r.portal[p])

(***************************************************************************)
(* Removals.                                                               *)
(***************************************************************************)

\* What stays of the tables r in the tables s.
Within(r, s) ==
  /\ DOMAIN s = DOMAIN r /\ s.last = r.last
  /\ DOMAIN s.entity \subseteq DOMAIN r.entity
  /\ \A e \in DOMAIN s.entity : s.entity[e] \subseteq r.entity[e]
  /\ DOMAIN s.portal \subseteq DOMAIN r.portal
  /\ \A p \in DOMAIN s.portal : s.portal[p] = r.portal[p]
  /\ DOMAIN s.pidx \subseteq DOMAIN r.pidx
  /\ \A i \in DOMAIN s.pidx : s.pidx[i] = r.pidx[i]

LEMMA WithinSound ==
  ASSUME NEW r, NEW s, Sound(r), Within(r, s), Owned(s)
  PROVE  Sound(s)
<1>1. Tables(s)
  BY DEF Sound, Within, Tables
<1> QED BY <1>1 DEF Sound, Within, Numbered

\* The tables after a removal, whether or not the inquiries sent to the portals
\* are within their limit.
LEMMA RemovePortalsOwned ==
  ASSUME NEW r, NEW S, Owned(r),
         DOMAIN r = {"entity", "portal", "pidx", "last"}
  PROVE  /\ Owned(RemovePortals(r, S))
         /\ Within(r, RemovePortals(r, S))
         /\ DOMAIN RemovePortals(r, S).portal = DOMAIN r.portal \ S
         /\ DOMAIN RemovePortals(r, S).entity = DOMAIN r.entity
<1> DEFINE here == S \cap DOMAIN r.portal
           gone == {p \in here : r.portal[p].entity \in DOMAIN r.entity}
           entries(e) == {<<p, r.portal[p].idx>> :
                            p \in {q \in gone : r.portal[q].entity = e}}
           free == {r.portal[p].idx : p \in here}
           s    == RemovePortals(r, S)
<1>1. /\ DOMAIN s = DOMAIN r /\ s.last = r.last
      /\ s.entity = [e \in DOMAIN r.entity |-> r.entity[e] \ entries(e)]
      /\ s.pidx = [i \in DOMAIN r.pidx \ free |-> r.pidx[i]]
      /\ s.portal = [p \in DOMAIN r.portal \ gone |-> r.portal[p]]
  BY DEF RemovePortals
<1>2. gone = here
  BY DEF Owned
<1> HIDE DEF s
<1>3. ASSUME NEW p \in DOMAIN s.portal
      PROVE  /\ s.portal[p].entity \in DOMAIN s.entity
             /\ p \in Listed(s, s.portal[p].entity)
             /\ s.portal[p].idx \in DOMAIN s.pidx
             /\ s.pidx[s.portal[p].idx] = p
  <2> DEFINE e == r.portal[p].entity
             i == r.portal[p].idx
  <2>1. /\ p \in DOMAIN r.portal /\ p \notin here
        /\ s.portal[p] = r.portal[p]
    BY <1>1, <1>2, <1>3
  <2>2. /\ e \in DOMAIN r.entity /\ p \in Listed(r, e)
        /\ i \in DOMAIN r.pidx /\ r.pidx[i] = p
    BY <2>1 DEF Owned
  <2>3. PICK x \in r.entity[e] : x[1] = p
    BY <2>2 DEF Listed
  <2>4. x \notin entries(e)
    BY <1>2, <2>1, <2>3
  <2>5. i \notin free
    <3> SUFFICES ASSUME NEW q \in here, r.portal[q].idx = i PROVE FALSE
      OBVIOUS
    <3>1. r.pidx[i] = q
      BY DEF Owned
    <3> QED BY <2>1, <2>2, <3>1
  <2> HIDE DEF entries, free, gone
  <2>6. x \in s.entity[e] /\ e \in DOMAIN s.entity
    BY <1>1, <2>2, <2>3, <2>4
  <2>7. i \in DOMAIN s.pidx /\ s.pidx[i] = p
    BY <1>1, <2>2, <2>5
  <2> QED BY <2>1, <2>3, <2>6, <2>7 DEF Listed
<1>4. Owned(s)
  BY <1>3 DEF Owned
<1>5. DOMAIN s.portal = DOMAIN r.portal \ S /\ DOMAIN s.entity = DOMAIN r.entity
  BY <1>1, <1>2
<1>6. Within(r, s)
  <2> HIDE DEF entries, free, gone
  <2> QED BY <1>1 DEF Within
<1> QED BY <1>4, <1>5, <1>6 DEF s

LEMMA RemovePortalsSound ==
  ASSUME NEW r, NEW S, Sound(r)
  PROVE  /\ Sound(RemovePortals(r, S))
         /\ Within(r, RemovePortals(r, S))
         /\ DOMAIN RemovePortals(r, S).portal = DOMAIN r.portal \ S
         /\ DOMAIN RemovePortals(r, S).entity = DOMAIN r.entity
<1>1. Owned(r) /\ DOMAIN r = {"entity", "portal", "pidx", "last"}
  BY DEF Sound, Tables
<1> QED BY <1>1, RemovePortalsOwned, WithinSound

LEMMA RemoveEntitySound ==
  ASSUME NEW r, NEW e, Sound(r)
  PROVE  Sound(RemoveEntity(r, e)) /\ Within(r, RemoveEntity(r, e))
<1> DEFINE rest == RemovePortals(r, Listed(r, e))
           s    == [rest EXCEPT !.entity = [x \in DOMAIN rest.entity \ {e} |->
                                              rest.entity[x]]]
<1>1. CASE e \notin DOMAIN r.entity
  <2>1. RemoveEntity(r, e) = r
    BY <1>1 DEF RemoveEntity
  <2> QED BY <2>1 DEF Within
<1>2. CASE e \in DOMAIN r.entity
  <2>1. RemoveEntity(r, e) = s
    BY <1>2 DEF RemoveEntity
  <2>2. /\ Sound(rest) /\ Within(r, rest)
        /\ DOMAIN rest.portal = DOMAIN r.portal \ Listed(r, e)
    BY RemovePortalsSound
  <2> HIDE DEF rest
  <2>3. /\ DOMAIN s = DOMAIN rest
        /\ s.entity = [x \in DOMAIN rest.entity \ {e} |-> rest.entity[x]]
        /\ s.portal = rest.portal /\ s.pidx = rest.pidx /\ s.last = rest.last
    BY <2>2 DEF Sound, Tables
  <2> HIDE DEF s
  <2>4. Within(rest, s) /\ Within(r, s)
    BY <2>2, <2>3 DEF Within
  <2>5. \A p \in DOMAIN rest.portal : rest.portal[p].entity # e
    BY <2>2 DEF Within, Sound, Owned
  <2>6. Owned(s)
    BY <2>2, <2>3, <2>5 DEF Sound, Owned, Listed
  <2> QED BY <2>1, <2>2, <2>4, <2>6, WithinSound
<1> QED BY <1>1, <1>2

(***************************************************************************)
(* Registrations.                                                          *)
(***************************************************************************)

LEMMA RegisterEntitySound ==
  ASSUME NEW r, NEW e \in Entities, NEW replace \in BOOLEAN, Sound(r)
  PROVE  /\ Sound(RegisterEntity(r, e, replace))
         /\ \A p \in DOMAIN RegisterEntity(r, e, replace).portal :
              /\ p \in DOMAIN r.portal
              /\ RegisterEntity(r, e, replace).portal[p] = r.portal[p]
<1> DEFINE before == IF replace THEN RemoveEntity(r, e) ELSE r
           s == [before EXCEPT !.entity =
                   [x \in DOMAIN before.entity \cup {e} |->
                      IF x = e THEN {} ELSE before.entity[x]]]
<1>1. Sound(before) /\ Within(r, before)
  BY RemoveEntitySound DEF Within
<1> HIDE DEF before
<1>2. RegisterEntity(r, e, replace) =
        IF e \in DOMAIN before.entity THEN before ELSE s
  BY DEF RegisterEntity, before
<1>3. CASE e \in DOMAIN before.entity
  BY <1>1, <1>2, <1>3 DEF Within
<1>4. CASE e \notin DOMAIN before.entity
  <2>1. /\ DOMAIN s = DOMAIN before
        /\ s.entity = [x \in DOMAIN before.entity \cup {e} |->
                         IF x = e THEN {} ELSE before.entity[x]]
        /\ s.portal = before.portal /\ s.pidx = before.pidx
        /\ s.last = before.last
    BY <1>1 DEF Sound, Tables
  <2> HIDE DEF s
  <2>2. Owned(s)
    BY <1>1, <1>4, <2>1 DEF Sound, Owned, Listed
  <2>3. Tables(s)
    BY <1>1, <2>1 DEF Sound, Tables
  <2>4. Sound(s)
    BY <1>1, <2>1, <2>2, <2>3 DEF Sound, Numbered
  <2> QED BY <1>1, <1>2, <1>4, <2>1, <2>4 DEF Within
<1> QED BY <1>3, <1>4

\* The inquiry attributes of a registration keep the rest of the portal.
LEMMA WithInquiriesAskable ==
  ASSUME NEW v \in PortalObjects, Askable(v), NEW m \in PortalRequests,
         NEW f \in FDs
  PROVE  /\ WithInquiries(v, m, f) \in PortalObjects
         /\ Askable(WithInquiries(v, m, f))
         /\ WithInquiries(v, m, f).entity = v.entity
         /\ WithInquiries(v, m, f).idx = v.idx
         /\ WithInquiries(v, m, f).sent = v.sent
         /\ WithInquiries(v, m, f).age = v.age
<1> DEFINE given  == IF m.period = {} THEN v.period
                     ELSE CHOOSE x \in m.period : TRUE
           period == IF m.period # {} /\ given # 0 /\ given < sns_esi_interval
                     THEN sns_esi_interval ELSE given
           udp    == IF m.udp = {} THEN v.udp ELSE CHOOSE x \in m.udp : TRUE
           asks   == (m.period # {} \/ m.udp # {}) /\ ~udp /\ period # 0
           fd     == IF asks THEN f ELSE v.fd
           w      == WithInquiries(v, m, f)
<1>1. given \in 0..MaxAge /\ (m.period = {} => given = v.period)
  <2>1. m.period \in Optional(Periods)
    BY DEF PortalRequests
  <2> QED BY <2>1, PortalAssumption DEF Optional, PortalObjects
<1>2. udp \in BOOLEAN /\ (m.udp = {} => udp = v.udp)
  <2>1. m.udp \in Optional(BOOLEAN)
    BY DEF PortalRequests
  <2> QED BY <2>1 DEF Optional, PortalObjects
<1>3. w = [v EXCEPT !.period = period, !.udp = udp, !.fd = fd]
  BY DEF WithInquiries
<1> HIDE DEF given, udp
<1>4. /\ period \in 0..MaxAge
      /\ period # 0 => period >= sns_esi_interval
      /\ m.period = {} => period = v.period
  BY <1>1, PortalAssumption DEF Askable
<1> HIDE DEF period
<1>5. fd \in FDs \cup {NoFD} /\ (period # 0 /\ ~udp => fd # NoFD)
  BY <1>2, <1>4, PortalAssumption DEF Askable, PortalObjects
<1> HIDE DEF fd, w
<1>6. /\ w.period = period /\ w.udp = udp /\ w.fd = fd
      /\ w.entity = v.entity /\ w.idx = v.idx
      /\ w.sent = v.sent /\ w.age = v.age
  BY <1>3 DEF PortalObjects
<1>7. w \in PortalObjects
  BY <1>2, <1>3, <1>4, <1>5 DEF PortalObjects
<1> QED BY <1>4, <1>5, <1>6, <1>7 DEF Askable, w

\* The tables s are r with the portal p in the lists of the entities es.
ListedIn(r, s, es, p) ==
  /\ DOMAIN s.entity = DOMAIN r.entity
  /\ s.portal = r.portal /\ s.pidx = r.pidx /\ s.last = r.last
  /\ \A e \in es \cap DOMAIN r.entity : p \in Listed(s, e)

LEMMA ListPortalSound ==
  ASSUME NEW r, NEW es, NEW p \in Portals, NEW i \in 1..MaxIdx, Sound(r)
  PROVE  /\ Sound(ListPortal(r, es, p, i))
         /\ ListedIn(r, ListPortal(r, es, p, i), es, p)
<1> DEFINE s == ListPortal(r, es, p, i)
           entity == [e \in DOMAIN r.entity |->
                        IF e \in es /\ p \notin Listed(r, e)
                        THEN r.entity[e] \cup {<<p, i>>} ELSE r.entity[e]]
<1>1. /\ DOMAIN s = DOMAIN r /\ s.entity = entity
      /\ s.portal = r.portal /\ s.pidx = r.pidx /\ s.last = r.last
  BY DEF ListPortal, Sound, Tables
<1> HIDE DEF s
<1>2. \A e \in DOMAIN r.entity :
        /\ r.entity[e] \subseteq entity[e]
        /\ entity[e] \subseteq r.entity[e] \cup {<<p, i>>}
        /\ e \in es /\ p \notin Listed(r, e) => <<p, i>> \in entity[e]
  OBVIOUS
<1> HIDE DEF entity
<1>3. DOMAIN s.entity = DOMAIN r.entity
  BY <1>1 DEF entity
<1>4. Tables(s)
  BY <1>1, <1>2, <1>3 DEF Sound, Tables
<1>5. \A e \in DOMAIN r.entity : Listed(r, e) \subseteq Listed(s, e)
  BY <1>1, <1>2 DEF Listed
<1>6. \A e \in es \cap DOMAIN r.entity : p \in Listed(s, e)
  <2> SUFFICES ASSUME NEW e \in es \cap DOMAIN r.entity, p \notin Listed(r, e)
               PROVE  p \in Listed(s, e)
    BY <1>5
  <2>1. <<p, i>> \in s.entity[e] /\ <<p, i>>[1] = p
    BY <1>1, <1>2
  <2> QED BY <2>1 DEF Listed
<1>7. Owned(s)
  BY <1>1, <1>3, <1>5 DEF Sound, Owned
<1>8. Sound(s)
  BY <1>1, <1>4, <1>7 DEF Sound, Numbered
<1> QED BY <1>1, <1>3, <1>6, <1>8 DEF ListedIn, s

LEMMA StorePortalSound ==
  ASSUME NEW r, NEW p \in Portals, NEW v \in PortalObjects, Sound(r), Askable(v),
         v.entity \in DOMAIN r.entity, p \in Listed(r, v.entity),
         v.idx \in DOMAIN r.pidx, r.pidx[v.idx] = p
  PROVE  /\ Sound(StorePortal(r, p, v))
         /\ DOMAIN StorePortal(r, p, v).portal = DOMAIN r.portal \cup {p}
         /\ StorePortal(r, p, v).portal[p] = v
         /\ \A q \in DOMAIN r.portal \ {p} :
              StorePortal(r, p, v).portal[q] = r.portal[q]
<1> DEFINE s == StorePortal(r, p, v)
<1>1. /\ DOMAIN s = DOMAIN r /\ s.entity = r.entity
      /\ s.portal = [q \in DOMAIN r.portal \cup {p} |->
                       IF q = p THEN v ELSE r.portal[q]]
      /\ s.pidx = r.pidx /\ s.last = r.last
  BY DEF StorePortal, Sound, Tables
<1> HIDE DEF s
<1>2. Tables(s)
  BY <1>1 DEF Sound, Tables
<1>3. Owned(s)
  BY <1>1 DEF Sound, Owned, Listed
<1>4. Sound(s)
  BY <1>1, <1>2, <1>3 DEF Sound, Numbered
<1> QED BY <1>1, <1>4 DEF s

\* The keys of a registration are at most two entities.
LEMMA KeysType ==
  ASSUME NEW m \in PortalRequests
  PROVE  m.keys \in Seq(Entities)
<1>1. m.keys \in {<<>>} \cup {<<e>> : e \in Entities} \cup (Entities \X Entities)
  BY DEF PortalRequests
<1>2. CASE m.keys = <<>>
  BY <1>2
<1>3. CASE m.keys \in {<<e>> : e \in Entities}
  <2>1. PICK e \in Entities : m.keys = <<e>>
    BY <1>3
  <2> QED BY <2>1
<1>4. CASE m.keys \in Entities \X Entities
  <2>1. PICK e \in Entities, x \in Entities : m.keys = <<e, x>>
    BY <1>4
  <2> QED BY <2>1
<1> QED BY <1>1, <1>2, <1>3, <1>4

LEMMA AllStoredKeys ==
  ASSUME NEW r, NEW es \in Seq(Entities),
         ~\E i \in DOMAIN es : es[i] \notin DOMAIN r.entity
  PROVE  \A i \in DOMAIN es : es[i] \in StoredKeys(r, es) \cap DOMAIN r.entity
<1>1. DOMAIN es = 1..Len(es) /\ Len(es) \in Nat
  OBVIOUS
<1>2. \A i \in DOMAIN es : 1..i \subseteq DOMAIN es
  BY <1>1
<1> QED BY <1>2 DEF StoredKeys

LEMMA NewPortalSound ==
  ASSUME NEW r, NEW m \in PortalRequests, NEW f \in FDs, Sound(r),
         m.keys = <<>> => m.named \in DOMAIN r.entity,
         m.portal \notin DOMAIN r.portal, r.last < MaxIdx
  PROVE  /\ Sound(NewPortal(r, m, f))
         /\ \A q \in DOMAIN NewPortal(r, m, f).portal :
              IF q = m.portal THEN NewPortal(r, m, f).portal[q].sent = 0
              ELSE /\ q \in DOMAIN r.portal
                   /\ NewPortal(r, m, f).portal[q] = r.portal[q]
<1> DEFINE p       == m.portal
           idx     == r.last + 1
           es      == IF m.keys = <<>> THEN <<m.named>> ELSE m.keys
           pidx    == [i \in DOMAIN r.pidx \cup {idx} |->
                         IF i = idx THEN p ELSE r.pidx[i]]
           indexed == [r EXCEPT !.last = idx, !.pidx = pidx]
           listed  == ListPortal(indexed, StoredKeys(r, es), p, idx)
           fresh   == [entity |-> es[Len(es)], idx |-> idx, period |-> 0,
                       udp |-> FALSE, fd |-> NoFD, sent |-> 0, age |-> MaxAge]
           v       == WithInquiries(fresh, m, f)
           s       == NewPortal(r, m, f)
<1>1. /\ p \in Portals /\ idx \in 1..MaxIdx /\ idx \notin DOMAIN r.pidx
  BY PortalAssumption DEF PortalRequests, Sound, Tables, Numbered
<1>2. es \in Seq(Entities) /\ Len(es) \in DOMAIN es
  <2>1. m.keys \in Seq(Entities)
    BY KeysType
  <2>2. CASE m.keys = <<>>
    BY <2>2 DEF PortalRequests
  <2>3. CASE m.keys # <<>>
    BY <2>1, <2>3
  <2> QED BY <2>2, <2>3
<1>3. s = IF \E i \in DOMAIN es : es[i] \notin DOMAIN r.entity THEN listed
          ELSE StorePortal(listed, p, v)
  BY DEF NewPortal
<1> HIDE DEF es, s
<1>4. /\ DOMAIN indexed = DOMAIN r /\ indexed.entity = r.entity
      /\ indexed.portal = r.portal /\ indexed.last = idx
      /\ indexed.pidx = pidx
  BY DEF Sound, Tables
<1> HIDE DEF indexed
<1>5. Sound(indexed)
  <2>1. Tables(indexed)
    BY <1>1, <1>4 DEF Sound, Tables
  <2>2. Numbered(indexed)
    BY <1>1, <1>4, PortalAssumption DEF Sound, Tables, Numbered
  <2>3. Owned(indexed)
    BY <1>1, <1>4 DEF Sound, Owned, Listed
  <2> QED BY <1>4, <2>1, <2>2, <2>3 DEF Sound
<1>6. /\ Sound(listed) /\ DOMAIN listed.entity = DOMAIN r.entity
      /\ listed.portal = r.portal /\ listed.pidx = pidx
      /\ \A e \in StoredKeys(r, es) \cap DOMAIN r.entity : p \in Listed(listed, e)
  <2>1. Sound(listed) /\ ListedIn(indexed, listed, StoredKeys(r, es), p)
    BY <1>1, <1>5, ListPortalSound
  <2> HIDE DEF listed
  <2> QED BY <1>4, <2>1 DEF ListedIn
<1> HIDE DEF listed
<1>7. CASE \E i \in DOMAIN es : es[i] \notin DOMAIN r.entity
  BY <1>3, <1>6, <1>7 DEF s
<1>8. CASE ~\E i \in DOMAIN es : es[i] \notin DOMAIN r.entity
  <2>1. es[Len(es)] \in StoredKeys(r, es) \cap DOMAIN r.entity
    BY <1>2, <1>8, AllStoredKeys
  <2>2. fresh \in PortalObjects
    <3>1. es[Len(es)] \in Entities
      BY <2>1 DEF Sound, Tables
    <3> QED BY <1>1, <3>1, PortalAssumption DEF PortalObjects
  <2>3. Askable(fresh) /\ fresh.entity = es[Len(es)] /\ fresh.idx = idx
        /\ fresh.sent = 0
    BY DEF Askable
  <2> HIDE DEF fresh
  <2>4. /\ v \in PortalObjects /\ Askable(v) /\ v.sent = 0
        /\ v.entity = es[Len(es)] /\ v.idx = idx
    BY <2>2, <2>3, WithInquiriesAskable
  <2> HIDE DEF v
  <2>5. idx \in DOMAIN listed.pidx /\ listed.pidx[idx] = p
    BY <1>6
  <2>6. /\ Sound(StorePortal(listed, p, v))
        /\ DOMAIN StorePortal(listed, p, v).portal = DOMAIN r.portal \cup {p}
        /\ StorePortal(listed, p, v).portal[p] = v
        /\ \A q \in DOMAIN r.portal \ {p} :
             StorePortal(listed, p, v).portal[q] = r.portal[q]
    BY <1>1, <1>6, <2>1, <2>4, <2>5, StorePortalSound
  <2> QED BY <1>3, <1>8, <2>4, <2>6 DEF s
<1> QED BY <1>7, <1>8

LEMMA UpdatePortalSound ==
  ASSUME NEW r, NEW m \in PortalRequests, NEW f \in FDs, Sound(r),
         m.portal \in DOMAIN r.portal
  PROVE  /\ Sound(UpdatePortal(r, m, f))
         /\ \A q \in DOMAIN UpdatePortal(r, m, f).portal :
              /\ q \in DOMAIN r.portal
              /\ UpdatePortal(r, m, f).portal[q].sent = r.portal[q].sent
              /\ UpdatePortal(r, m, f).portal[q].age = r.portal[q].age
<1> DEFINE p      == m.portal
           v      == r.portal[p]
           new    == {i \in DOMAIN m.keys : m.keys[i] \in DOMAIN r.entity
                                            /\ p \notin Listed(r, m.keys[i])}
           last   == CHOOSE i \in new : \A j \in new : j <= i
           moved  == IF new = {} THEN v ELSE [v EXCEPT !.entity = m.keys[last]]
           listed == ListPortal(r, StoredKeys(r, m.keys), p, v.idx)
           w      == WithInquiries(moved, m, f)
           s      == UpdatePortal(r, m, f)
<1>1. /\ p \in Portals /\ v \in PortalObjects /\ Askable(v)
      /\ v.idx \in 1..MaxIdx
      /\ v.entity \in DOMAIN r.entity /\ p \in Listed(r, v.entity)
      /\ v.idx \in DOMAIN r.pidx /\ r.pidx[v.idx] = p
  BY DEF PortalRequests, PortalObjects, Sound, Tables, Owned
<1>2. m.keys \in Seq(Entities)
  BY KeysType
<1>3. s = IF \E i \in DOMAIN m.keys : m.keys[i] \notin DOMAIN r.entity THEN listed
          ELSE StorePortal(listed, p, w)
  BY DEF UpdatePortal
<1> HIDE DEF s
<1>4. /\ Sound(listed) /\ DOMAIN listed.entity = DOMAIN r.entity
      /\ listed.portal = r.portal /\ listed.pidx = r.pidx
      /\ \A e \in StoredKeys(r, m.keys) \cap DOMAIN r.entity :
           p \in Listed(listed, e)
      /\ p \in Listed(listed, v.entity)
  <2>1. /\ Sound(listed) /\ DOMAIN listed.entity = DOMAIN r.entity
        /\ listed.portal = r.portal /\ listed.pidx = r.pidx
        /\ \A e \in StoredKeys(r, m.keys) \cap DOMAIN r.entity :
             p \in Listed(listed, e)
    <3>1. Sound(listed) /\ ListedIn(r, listed, StoredKeys(r, m.keys), p)
      BY <1>1, ListPortalSound
    <3> HIDE DEF listed
    <3> QED BY <3>1 DEF ListedIn
  <2> HIDE DEF listed
  <2>2. p \in Listed(listed, listed.portal[p].entity)
    BY <2>1 DEF Sound, Owned
  <2> QED BY <2>1, <2>2
<1> HIDE DEF listed
<1>5. CASE \E i \in DOMAIN m.keys : m.keys[i] \notin DOMAIN r.entity
  BY <1>3, <1>4, <1>5 DEF s
<1>6. CASE ~\E i \in DOMAIN m.keys : m.keys[i] \notin DOMAIN r.entity
  <2>1. /\ moved \in PortalObjects /\ Askable(moved)
        /\ moved.idx = v.idx /\ moved.sent = v.sent /\ moved.age = v.age
        /\ moved.entity \in DOMAIN r.entity /\ p \in Listed(listed, moved.entity)
    <3>1. CASE new = {}
      BY <1>1, <1>4, <3>1
    <3>2. CASE new # {}
      <4>1. last \in new
        <5>1. m.keys = <<>> \/ (\E e \in Entities : m.keys = <<e>>)
              \/ m.keys \in Entities \X Entities
          BY DEF PortalRequests
        <5>2. new \subseteq {1, 2}
          BY <5>1
        <5> HIDE DEF new
        <5>3. \E i \in new : \A j \in new : j <= i
          BY <3>2, <5>2
        <5> QED BY <5>3
      <4>2. /\ m.keys[last] \in DOMAIN r.entity
            /\ m.keys[last] \in StoredKeys(r, m.keys)
        BY <1>2, <1>6, <4>1, AllStoredKeys
      <4> HIDE DEF last
      <4>3. m.keys[last] \in Entities
        BY <4>2 DEF Sound, Tables
      <4>4. moved = [v EXCEPT !.entity = m.keys[last]]
        BY <3>2
      <4> HIDE DEF moved, v, new
      <4>5. /\ moved \in PortalObjects /\ moved.entity = m.keys[last]
            /\ moved.idx = v.idx /\ moved.sent = v.sent /\ moved.age = v.age
            /\ moved.period = v.period /\ moved.udp = v.udp /\ moved.fd = v.fd
        BY <1>1, <4>3, <4>4 DEF PortalObjects
      <4> QED BY <1>1, <1>4, <4>2, <4>5 DEF Askable
    <3> QED BY <3>1, <3>2
  <2> HIDE DEF moved
  <2>2. /\ w \in PortalObjects /\ Askable(w) /\ w.sent = v.sent /\ w.age = v.age
        /\ w.entity = moved.entity /\ w.idx = v.idx
    BY <2>1, WithInquiriesAskable
  <2> HIDE DEF w
  <2>3. /\ Sound(StorePortal(listed, p, w))
        /\ DOMAIN StorePortal(listed, p, w).portal = DOMAIN r.portal \cup {p}
        /\ StorePortal(listed, p, w).portal[p] = w
        /\ \A q \in DOMAIN r.portal \ {p} :
             StorePortal(listed, p, w).portal[q] = r.portal[q]
    BY <1>1, <1>4, <2>1, <2>2, StorePortalSound
  <2> QED BY <1>3, <1>6, <2>2, <2>3 DEF s
<1> QED BY <1>5, <1>6

LEMMA RegisterPortalSound ==
  ASSUME NEW r, NEW m \in PortalRequests, NEW f \in FDs, Sound(r),
         m.keys = <<>> => m.named \in DOMAIN r.entity, r.last < MaxIdx
  PROVE  /\ Sound(RegisterPortal(r, m, f))
         /\ \A q \in DOMAIN RegisterPortal(r, m, f).portal :
              IF q = m.portal /\ (q \notin DOMAIN r.portal \/ m.replace)
              THEN RegisterPortal(r, m, f).portal[q].sent = 0
              ELSE /\ q \in DOMAIN r.portal
                   /\ RegisterPortal(r, m, f).portal[q].sent = r.portal[q].sent
                   /\ RegisterPortal(r, m, f).portal[q].age = r.portal[q].age
<1> DEFINE before == IF m.replace THEN RemovePortals(r, {m.portal}) ELSE r
           s == RegisterPortal(r, m, f)
<1>1. /\ Sound(before) /\ Within(r, before)
      /\ DOMAIN before.entity = DOMAIN r.entity
      /\ m.replace => m.portal \notin DOMAIN before.portal
      /\ ~m.replace => before = r
  BY RemovePortalsSound DEF Within
<1>2. s = IF m.portal \in DOMAIN r.portal /\ ~m.replace THEN UpdatePortal(r, m, f)
          ELSE IF m.keyed THEN before ELSE NewPortal(before, m, f)
  BY DEF RegisterPortal
<1> HIDE DEF before, s
<1>3. CASE m.portal \in DOMAIN r.portal /\ ~m.replace
  BY <1>2, <1>3, UpdatePortalSound DEF s
<1>4. CASE ~(m.portal \in DOMAIN r.portal /\ ~m.replace)
  <2>1. m.portal \notin DOMAIN before.portal
    BY <1>1, <1>4
  <2>2. CASE m.keyed
    BY <1>1, <1>2, <1>4, <2>1, <2>2 DEF Within, s
  <2>3. CASE ~m.keyed
    <3>1. before.last < MaxIdx /\ (m.keys = <<>> => m.named \in DOMAIN before.entity)
      BY <1>1 DEF Within
    <3>2. /\ Sound(s)
          /\ \A q \in DOMAIN s.portal :
               IF q = m.portal THEN s.portal[q].sent = 0
               ELSE q \in DOMAIN before.portal /\ s.portal[q] = before.portal[q]
      BY <1>1, <1>2, <1>4, <2>1, <2>3, <3>1, NewPortalSound
    <3> QED BY <1>1, <1>4, <3>2 DEF Within, s
  <2> QED BY <2>2, <2>3
<1> QED BY <1>3, <1>4

(***************************************************************************)
(* Inquiries.                                                              *)
(***************************************************************************)

\* A portal is asked once more if it is due; it goes when that is the last
\* inquiry the limit allows.
LEMMA SendESISound ==
  ASSUME NEW r, Sound(r)
  PROVE  /\ Sound(SendESI(r))
         /\ \A p \in DOMAIN SendESI(r).portal :
              /\ p \in DOMAIN r.portal
              /\ SendESI(r).portal[p] =
                   IF p \in Due(r)
                   THEN [r.portal[p] EXCEPT !.sent = @ + 1, !.age = 0]
                   ELSE r.portal[p]
         /\ \A p \in DOMAIN r.portal \ DOMAIN SendESI(r).portal :
              p \in Due(r) /\ r.portal[p].sent + 1 >= esi_sent_limit
<1> DEFINE asked1(p) == [r.portal[p] EXCEPT !.sent = @ + 1, !.age = 0]
           portal  == [p \in DOMAIN r.portal |->
                         IF p \notin Due(r) THEN r.portal[p] ELSE asked1(p)]
           counted == [r EXCEPT !.portal = portal]
           S == {p \in Due(r) : counted.portal[p].sent >= esi_sent_limit}
           s == SendESI(r)
<1>1. s = RemovePortals(counted, S)
  BY DEF SendESI
<1>2. /\ DOMAIN counted = DOMAIN r /\ counted.entity = r.entity
      /\ counted.portal = portal /\ counted.pidx = r.pidx
      /\ counted.last = r.last
  BY DEF Sound, Tables
<1>3. \A p \in DOMAIN r.portal :
        /\ r.portal[p] \in PortalObjects /\ Askable(r.portal[p])
        /\ asked1(p) \in [entity : Entities, idx : 1..MaxIdx,
             period : 0..MaxAge, udp : BOOLEAN, fd : FDs \cup {NoFD},
             sent : Nat, age : 0..MaxAge]
        /\ asked1(p).entity = r.portal[p].entity
        /\ asked1(p).idx = r.portal[p].idx
        /\ asked1(p).sent = r.portal[p].sent + 1
        /\ asked1(p).period = r.portal[p].period
        /\ asked1(p).udp = r.portal[p].udp /\ asked1(p).fd = r.portal[p].fd
  <2>1. \A p \in DOMAIN r.portal :
          r.portal[p] \in PortalObjects /\ Askable(r.portal[p])
    BY DEF Sound, Tables
  <2>2. ASSUME NEW v \in PortalObjects
        PROVE  LET w == [v EXCEPT !.sent = @ + 1, !.age = 0]
               IN  /\ w \in [entity : Entities, idx : 1..MaxIdx,
                      period : 0..MaxAge, udp : BOOLEAN, fd : FDs \cup {NoFD},
                      sent : Nat, age : 0..MaxAge]
                   /\ w.entity = v.entity /\ w.idx = v.idx
                   /\ w.sent = v.sent + 1 /\ w.period = v.period
                   /\ w.udp = v.udp /\ w.fd = v.fd
    <3>1. v.sent + 1 \in Nat /\ 0 \in 0..MaxAge
      BY PortalAssumption DEF PortalObjects
    <3> DEFINE k == v.sent + 1
    <3> HIDE DEF k
    <3>2. [v EXCEPT !.sent = @ + 1, !.age = 0] = [v EXCEPT !.sent = k, !.age = 0]
      BY DEF PortalObjects, k
    <3>3. k \in Nat /\ k = v.sent + 1
      BY <3>1 DEF k
    <3> QED BY <3>1, <3>2, <3>3 DEF PortalObjects
  <2> QED BY <2>1, <2>2
<1> HIDE DEF asked1, counted, s
<1>4. Owned(counted)
  BY <1>2, <1>3 DEF Sound, Owned, Listed
<1>5. /\ Owned(s) /\ Within(counted, s)
      /\ DOMAIN s.portal = DOMAIN r.portal \ S
  BY <1>1, <1>2, <1>4, RemovePortalsOwned DEF Sound, Tables
<1>6. ASSUME NEW p \in DOMAIN s.portal
      PROVE  /\ p \in DOMAIN r.portal
             /\ s.portal[p] = IF p \in Due(r) THEN asked1(p) ELSE r.portal[p]
             /\ p \in Due(r) => asked1(p).sent < esi_sent_limit
             /\ s.portal[p] \in PortalObjects /\ Askable(s.portal[p])
  <2>1. /\ p \in DOMAIN r.portal /\ p \notin S
        /\ s.portal[p] = IF p \in Due(r) THEN asked1(p) ELSE r.portal[p]
    BY <1>2, <1>5, <1>6 DEF Within
  <2>2. p \in Due(r) => asked1(p).sent < esi_sent_limit
    <3>1. p \in Due(r) => counted.portal[p] = asked1(p)
      BY <1>2, <2>1
    <3> QED BY <1>3, <2>1, <3>1, PortalAssumption
  <2>3. p \in Due(r) => asked1(p) \in PortalObjects /\ Askable(asked1(p))
    BY <1>3, <2>1, <2>2, PortalAssumption DEF PortalObjects, Askable
  <2> QED BY <1>3, <2>1, <2>2, <2>3
<1>7. Tables(s)
  BY <1>2, <1>5, <1>6 DEF Sound, Tables, Within
<1>8. Sound(s)
  BY <1>2, <1>5, <1>6, <1>7 DEF Sound, Numbered, Within
<1>9. ASSUME NEW p \in DOMAIN r.portal \ DOMAIN s.portal
      PROVE  p \in Due(r) /\ r.portal[p].sent + 1 >= esi_sent_limit
  <2>1. p \in Due(r) /\ counted.portal[p].sent >= esi_sent_limit
    BY <1>5, <1>9
  <2>2. counted.portal[p] = asked1(p)
    BY <1>2, <2>1
  <2> QED BY <1>3, <2>1, <2>2
<1> QED BY <1>6, <1>8, <1>9 DEF s, asked1

LEMMA ProcessESISound ==
  ASSUME NEW r, NEW p, NEW e, Sound(r)
  PROVE  /\ Sound(ProcessESI(r, p, e))
         /\ \A q \in DOMAIN ProcessESI(r, p, e).portal :
              /\ q \in DOMAIN r.portal
              /\ ProcessESI(r, p, e).portal[q] =
                   IF q = p /\ e \in DOMAIN r.entity
                   THEN [r.portal[q] EXCEPT !.sent = 0] ELSE r.portal[q]
<1> DEFINE v == [r.portal[p] EXCEPT !.sent = 0]
           t == [r.portal EXCEPT ![p] = v]
           s == [r EXCEPT !.portal = t]
<1>1. CASE e \notin DOMAIN r.entity \/ p \notin DOMAIN r.portal
  <2>1. ProcessESI(r, p, e) = r
    BY <1>1 DEF ProcessESI
  <2> QED BY <1>1, <2>1
<1>2. CASE e \in DOMAIN r.entity /\ p \in DOMAIN r.portal
  <2>1. r.portal[p] \in PortalObjects /\ Askable(r.portal[p])
    BY <1>2 DEF Sound, Tables
  <2>2. ProcessESI(r, p, e) = s
    BY <1>2, <2>1 DEF ProcessESI, PortalObjects, Sound, Tables
  <2>3. /\ v \in PortalObjects /\ Askable(v)
        /\ v.entity = r.portal[p].entity /\ v.idx = r.portal[p].idx
    BY <2>1, PortalAssumption DEF PortalObjects, Askable
  <2>4. /\ DOMAIN s = DOMAIN r /\ s.entity = r.entity /\ s.pidx = r.pidx
        /\ s.last = r.last /\ s.portal = t
        /\ DOMAIN t = DOMAIN r.portal
        /\ \A q \in DOMAIN t : t[q] = IF q = p THEN v ELSE r.portal[q]
    BY DEF Sound, Tables
  <2> HIDE DEF v, s, t
  <2>5. Tables(s)
    BY <2>3, <2>4 DEF Sound, Tables
  <2>6. Owned(s)
    BY <2>3, <2>4 DEF Sound, Owned, Listed
  <2>7. Sound(s)
    BY <2>3, <2>4, <2>5, <2>6 DEF Sound, Numbered
  <2> QED BY <1>2, <2>2, <2>4, <2>7 DEF v
<1> QED BY <1>1, <1>2

LEMMA ElapseSound ==
  ASSUME NEW r, Sound(r)
  PROVE  /\ Sound(Elapse(r))
         /\ \A q \in DOMAIN Elapse(r).portal :
              /\ q \in DOMAIN r.portal
              /\ Elapse(r).portal[q] = [r.portal[q] EXCEPT !.age = Later(@)]
<1> DEFINE older(p) == [r.portal[p] EXCEPT !.age = Later(@)]
           s == Elapse(r)
<1>1. /\ DOMAIN s = DOMAIN r /\ s.entity = r.entity /\ s.pidx = r.pidx
      /\ s.last = r.last
      /\ s.portal = [p \in DOMAIN r.portal |-> older(p)]
  BY DEF Elapse, Sound, Tables
<1>2. \A p \in DOMAIN r.portal :
        /\ older(p) \in PortalObjects /\ Askable(older(p))
        /\ older(p).entity = r.portal[p].entity
        /\ older(p).idx = r.portal[p].idx
  <2> SUFFICES ASSUME NEW p \in DOMAIN r.portal
               PROVE  /\ older(p) \in PortalObjects /\ Askable(older(p))
                      /\ older(p).entity = r.portal[p].entity
                      /\ older(p).idx = r.portal[p].idx
    OBVIOUS
  <2>1. r.portal[p] \in PortalObjects /\ Askable(r.portal[p])
    BY DEF Sound, Tables
  <2>2. Later(r.portal[p].age) \in 0..MaxAge
    BY <2>1, PortalAssumption DEF PortalObjects, Later
  <2> QED BY <2>1, <2>2 DEF PortalObjects, Askable
<1> HIDE DEF older, s
<1>3. Tables(s)
  BY <1>1, <1>2 DEF Sound, Tables
<1>4. Owned(s)
  BY <1>1, <1>2 DEF Sound, Owned, Listed
<1>5. Sound(s)
  BY <1>1, <1>2, <1>3, <1>4 DEF Sound, Numbered
<1> QED BY <1>1, <1>5 DEF older, s

(***************************************************************************)
(* The time that a portal is silent.                                       *)
(***************************************************************************)

\* A portal to which k inquiries have been sent since it answered has been
\* silent for k - 1 of the shortest intervals and for the age of the last.
Paced(r, t) ==
  \A p \in DOMAIN r.portal :
    r.portal[p].sent > 0 =>
      t[p] >= (r.portal[p].sent - 1) * sns_esi_interval + r.portal[p].age

\* The ghost that counts the silence is not stopped too early by its bound.
LEMMA QuietBound ==
  ASSUME NEW k \in 1..(esi_sent_limit - 1), NEW a \in 0..MaxAge
  PROVE  /\ (k - 1) * sns_esi_interval + a \in Nat
         /\ (k - 1) * sns_esi_interval + a <= MaxQuiet
<1> DEFINE i == sns_esi_interval
           l == esi_sent_limit
<1>1. /\ i \in Nat /\ l \in Nat /\ MaxAge \in Nat /\ i <= MaxAge
      /\ k \in Nat /\ k >= 1 /\ k + 1 <= l /\ a \in Nat /\ a <= MaxAge
  BY PortalAssumption
<1> HIDE DEF i, l
<1>2. (k - 1) * i \in Nat /\ (k - 1) * i <= (k - 1) * MaxAge
  BY <1>1
<1>3. (k - 1) * MaxAge + MaxAge = k * MaxAge
  BY <1>1
<1>4. k * MaxAge <= MaxAge * l
  BY <1>1
<1>5. (k - 1) * MaxAge \in Nat /\ k * MaxAge \in Nat /\ MaxAge * l \in Nat
  BY <1>1
<1>6. (k - 1) * i + a \in Nat /\ (k - 1) * i + a <= MaxAge * l
  BY <1>1, <1>2, <1>3, <1>4, <1>5
<1> QED BY <1>6 DEF i, l, MaxQuiet

\* One more inquiry after the shortest interval at least.
LEMMA OneMoreInterval ==
  ASSUME NEW k \in Nat, NEW a \in Nat, NEW q \in Nat, k > 0,
         a >= sns_esi_interval, q >= (k - 1) * sns_esi_interval + a
  PROVE  q >= k * sns_esi_interval
<1> DEFINE i == sns_esi_interval
<1>1. i \in Nat
  BY PortalAssumption
<1> HIDE DEF i
<1>2. (k - 1) * i + i = k * i /\ (k - 1) * i \in Nat
  BY <1>1
<1>3. k * i \in Nat /\ q >= (k - 1) * i + a /\ a >= i
  BY <1>1 DEF i
<1> QED BY <1>1, <1>2, <1>3 DEF i

(***************************************************************************)
(* The invariant and its steps.                                            *)
(***************************************************************************)

\* The types of the variables beside the tables.
Others ==
  /\ owner \in [FDs -> Clients \cup {Nobody}]
  /\ asked \subseteq Clients \X Portals \X Entities
  /\ answers \subseteq Portals \X Entities
  /\ quiet \in [Portals -> 0..MaxQuiet]

Inv == Sound(db) /\ Others /\ Paced(db, quiet)

LEMMA MaxQuietType == MaxQuiet \in Nat
BY PortalAssumption DEF MaxQuiet

LEMMA InvImplies == Inv => TypeOK /\ PortalsOwned /\ AskedOnConnection
BY DEF Inv, Sound, Tables, Others, Askable, TypeOK, PortalsOwned,
       AskedOnConnection

LEMMA InitInv == Init => Inv
<1> SUFFICES ASSUME Init PROVE Inv
  OBVIOUS
<1>1. Tables(db)
  BY PortalAssumption DEF Init, Tables, Empty
<1>2. Sound(db)
  BY <1>1 DEF Init, Sound, Owned, Numbered, Empty
<1>3. Others
  BY MaxQuietType DEF Init, Others
<1>4. Paced(db, quiet)
  BY DEF Init, Paced, Empty
<1> QED BY <1>2, <1>3, <1>4 DEF Inv

LEMMA RegistrationsInv ==
  ASSUME Inv, RegEntity \/ DeregEntity \/ DeregPortal
  PROVE  Inv'
<1>1. /\ Sound(db')
      /\ \A p \in DOMAIN db'.portal :
           p \in DOMAIN db.portal /\ db'.portal[p] = db.portal[p]
  <2>1. CASE RegEntity
    BY <2>1, RegisterEntitySound DEF Inv, RegEntity
  <2>2. CASE DeregEntity
    BY <2>2, RemoveEntitySound DEF Inv, DeregEntity, Within
  <2>3. CASE DeregPortal
    BY <2>3, RemovePortalsSound DEF Inv, DeregPortal, Within
  <2> QED BY <2>1, <2>2, <2>3
<1>2. UNCHANGED <<owner, asked, answers, quiet>>
  BY DEF RegEntity, DeregEntity, DeregPortal
<1> QED BY <1>1, <1>2 DEF Inv, Others, Paced

LEMMA RegPortalInv ==
  ASSUME Inv, RegPortal
  PROVE  Inv'
<1>1. PICK m \in PortalReqs, f \in FDs :
        /\ db.last < MaxIdx
        /\ m.keys = <<>> => m.named \in DOMAIN db.entity
        /\ db' = RegisterPortal(db, m, f)
        /\ quiet' = IF m.portal \in DOMAIN db.portal /\ ~m.replace THEN quiet
                    ELSE [quiet EXCEPT ![m.portal] = 0]
        /\ UNCHANGED <<owner, asked, answers>>
  BY DEF RegPortal
<1>2. m \in PortalRequests
  BY PortalReqAssumption
<1>3. /\ Sound(db')
      /\ \A q \in DOMAIN db'.portal :
           IF q = m.portal /\ (q \notin DOMAIN db.portal \/ m.replace)
           THEN db'.portal[q].sent = 0
           ELSE /\ q \in DOMAIN db.portal
                /\ db'.portal[q].sent = db.portal[q].sent
                /\ db'.portal[q].age = db.portal[q].age
  BY <1>1, <1>2, RegisterPortalSound DEF Inv
<1>4. Others'
  <2>1. m.portal \in Portals
    BY <1>2 DEF PortalRequests
  <2>2. quiet \in [Portals -> 0..MaxQuiet] /\ 0 \in 0..MaxQuiet
    BY MaxQuietType DEF Inv, Others
  <2>3. quiet' \in [Portals -> 0..MaxQuiet]
    BY <1>1, <2>1, <2>2
  <2> QED BY <1>1, <2>3 DEF Inv, Others
<1>5. \A q \in Portals : q # m.portal => quiet'[q] = quiet[q]
  BY <1>1 DEF Inv, Others
<1>6. DOMAIN db'.portal \subseteq Portals
  BY <1>3 DEF Sound, Tables
<1>7. Paced(db', quiet')
  BY <1>1, <1>3, <1>5, <1>6 DEF Inv, Paced
<1> QED BY <1>3, <1>4, <1>7 DEF Inv

LEMMA EsiTickInv ==
  ASSUME Inv, EsiTick
  PROVE  /\ Inv'
         /\ \A p \in DOMAIN db.portal \ DOMAIN db'.portal :
              quiet[p] >= (esi_sent_limit - 1) * sns_esi_interval
<1>1. /\ db' = SendESI(db) /\ asked' = asked \cup Reached(db, db')
      /\ UNCHANGED <<owner, answers, quiet>>
  BY DEF EsiTick
<1>2. /\ Sound(db')
      /\ \A p \in DOMAIN db'.portal :
           /\ p \in DOMAIN db.portal
           /\ db'.portal[p] =
                IF p \in Due(db)
                THEN [db.portal[p] EXCEPT !.sent = @ + 1, !.age = 0]
                ELSE db.portal[p]
      /\ \A p \in DOMAIN db.portal \ DOMAIN db'.portal :
           p \in Due(db) /\ db.portal[p].sent + 1 >= esi_sent_limit
  BY <1>1, SendESISound DEF Inv
<1>3. ASSUME NEW p \in DOMAIN db.portal
      PROVE  /\ p \in Portals /\ quiet[p] \in Nat
             /\ db.portal[p] \in PortalObjects /\ Askable(db.portal[p])
             /\ db.portal[p].sent \in Nat /\ db.portal[p].age \in Nat
             /\ db.portal[p].sent <= esi_sent_limit - 1
             /\ db.portal[p].entity \in Entities
             /\ db.portal[p].fd \in FDs \cup {NoFD}
  BY PortalAssumption, MaxQuietType
     DEF Inv, Others, Sound, Tables, PortalObjects
<1>4. ASSUME NEW p \in Due(db), db.portal[p].sent > 0
      PROVE  quiet[p] >= db.portal[p].sent * sns_esi_interval
  <2>1. /\ p \in DOMAIN db.portal /\ db.portal[p].period # 0
        /\ db.portal[p].age >= db.portal[p].period
    BY DEF Due
  <2>2. db.portal[p].age >= sns_esi_interval
    BY <1>3, <2>1, PortalAssumption DEF Askable, PortalObjects
  <2>3. quiet[p] >= (db.portal[p].sent - 1) * sns_esi_interval + db.portal[p].age
    BY <1>4, <2>1 DEF Inv, Paced
  <2> QED BY <1>3, <1>4, <2>1, <2>2, <2>3, OneMoreInterval
<1>5. Paced(db', quiet')
  <2> SUFFICES ASSUME NEW p \in DOMAIN db'.portal, db'.portal[p].sent > 0
               PROVE  quiet[p] >= (db'.portal[p].sent - 1) * sns_esi_interval
                                  + db'.portal[p].age
    BY <1>1 DEF Paced
  <2>1. p \in DOMAIN db.portal
    BY <1>2
  <2>2. CASE p \notin Due(db)
    BY <1>2, <2>1, <2>2 DEF Inv, Paced
  <2>3. CASE p \in Due(db)
    <3> DEFINE k == db.portal[p].sent
    <3>1. db'.portal[p] = [db.portal[p] EXCEPT !.sent = @ + 1, !.age = 0]
      BY <1>2, <2>3
    <3>2. db'.portal[p].sent = k + 1 /\ db'.portal[p].age = 0 /\ k \in Nat
      BY <1>3, <2>1, <3>1 DEF PortalObjects
    <3>3. k > 0 => quiet[p] >= k * sns_esi_interval
      BY <1>4, <2>3
    <3>4. quiet[p] \in Nat /\ sns_esi_interval \in Nat
      BY <1>3, <2>1, PortalAssumption
    <3> HIDE DEF k
    <3>5. (k + 1 - 1) * sns_esi_interval + 0 = k * sns_esi_interval
      BY <3>2, <3>4
    <3>6. k = 0 => k * sns_esi_interval = 0
      BY <3>4
    <3> QED BY <3>2, <3>3, <3>4, <3>5, <3>6
  <2> QED BY <2>2, <2>3
<1>6. Others'
  <2>1. Reached(db, db') \subseteq Clients \X Portals \X Entities
    <3> SUFFICES ASSUME NEW p \in Due(db), db.portal[p].fd \in FDs,
                        owner[db.portal[p].fd] # Nobody
                 PROVE  <<owner[db.portal[p].fd], p, db.portal[p].entity>>
                          \in Clients \X Portals \X Entities
      BY DEF Reached
    <3>1. p \in DOMAIN db.portal
      BY DEF Due
    <3> QED BY <1>3, <3>1 DEF Inv, Others
  <2> QED BY <1>1, <2>1 DEF Inv, Others
<1>7. ASSUME NEW p \in DOMAIN db.portal \ DOMAIN db'.portal
      PROVE  quiet[p] >= (esi_sent_limit - 1) * sns_esi_interval
  <2> DEFINE k == db.portal[p].sent
  <2>3. p \in Due(db) /\ k + 1 >= esi_sent_limit
    BY <1>2
  <2>4. k \in Nat /\ k <= esi_sent_limit - 1
    BY <1>3
  <2> HIDE DEF k
  <2>5. esi_sent_limit \in Nat
    BY PortalAssumption
  <2>1. p \in Due(db) /\ k = esi_sent_limit - 1
    BY <2>3, <2>4, <2>5
  <2> USE DEF k
  <2>2. db.portal[p].sent > 0
    BY <2>1, PortalAssumption
  <2> QED BY <1>4, <2>1, <2>2
<1> QED BY <1>2, <1>5, <1>6, <1>7 DEF Inv

LEMMA EsiResponseInv ==
  ASSUME Inv, EsiResponse
  PROVE  Inv'
<1>1. PICK a \in answers :
        /\ db' = ProcessESI(db, a[1], a[2])
        /\ answers' = answers \ {a}
        /\ quiet' = IF a[2] \in DOMAIN db.entity
                    THEN [quiet EXCEPT ![a[1]] = 0] ELSE quiet
        /\ UNCHANGED <<owner, asked>>
  BY DEF EsiResponse
<1>2. /\ Sound(db')
      /\ \A q \in DOMAIN db'.portal :
           /\ q \in DOMAIN db.portal
           /\ db'.portal[q] = IF q = a[1] /\ a[2] \in DOMAIN db.entity
                              THEN [db.portal[q] EXCEPT !.sent = 0]
                              ELSE db.portal[q]
  BY <1>1, ProcessESISound DEF Inv
<1>3. a[1] \in Portals
  BY DEF Inv, Others
<1>4. quiet \in [Portals -> 0..MaxQuiet] /\ 0 \in 0..MaxQuiet
  BY MaxQuietType DEF Inv, Others
<1>5. quiet' \in [Portals -> 0..MaxQuiet]
  BY <1>1, <1>3, <1>4
<1>6. Others'
  BY <1>1, <1>5 DEF Inv, Others
<1>7. Paced(db', quiet')
  <2> SUFFICES ASSUME NEW p \in DOMAIN db'.portal, db'.portal[p].sent > 0
               PROVE  quiet'[p] >= (db'.portal[p].sent - 1) * sns_esi_interval
                                   + db'.portal[p].age
    BY DEF Paced
  <2>1. p \in DOMAIN db.portal /\ p \in Portals /\ db.portal[p] \in PortalObjects
    BY <1>2 DEF Inv, Sound, Tables
  <2>2. ~(p = a[1] /\ a[2] \in DOMAIN db.entity)
    <3>1. SUFFICES ASSUME p = a[1], a[2] \in DOMAIN db.entity PROVE FALSE
      OBVIOUS
    <3>2. db'.portal[p].sent = 0
      BY <1>2, <2>1, <3>1 DEF PortalObjects
    <3> QED BY <3>2
  <2>3. db'.portal[p] = db.portal[p] /\ quiet'[p] = quiet[p]
    BY <1>1, <1>2, <1>3, <1>4, <2>1, <2>2
  <2> QED BY <2>1, <2>3 DEF Inv, Paced
<1> QED BY <1>2, <1>6, <1>7 DEF Inv

LEMMA SecondInv ==
  ASSUME Inv, Second
  PROVE  Inv'
<1>1. /\ db' = Elapse(db)
      /\ quiet' = [p \in Portals |-> IF quiet[p] < MaxQuiet THEN quiet[p] + 1
                                     ELSE MaxQuiet]
      /\ UNCHANGED <<owner, asked, answers>>
  BY DEF Second
<1>2. /\ Sound(db')
      /\ \A q \in DOMAIN db'.portal :
           /\ q \in DOMAIN db.portal
           /\ db'.portal[q] = [db.portal[q] EXCEPT !.age = Later(@)]
  BY <1>1, ElapseSound DEF Inv
<1>3. Others'
  <2>1. quiet \in [Portals -> 0..MaxQuiet]
    BY DEF Inv, Others
  <2>2. quiet' \in [Portals -> 0..MaxQuiet]
    BY <1>1, <2>1, MaxQuietType
  <2> QED BY <1>1, <2>2 DEF Inv, Others
<1>4. Paced(db', quiet')
  <2> SUFFICES ASSUME NEW p \in DOMAIN db'.portal, db'.portal[p].sent > 0
               PROVE  quiet'[p] >= (db'.portal[p].sent - 1) * sns_esi_interval
                                   + db'.portal[p].age
    BY DEF Paced
  <2>1. /\ p \in DOMAIN db.portal /\ p \in Portals
        /\ db.portal[p] \in PortalObjects
        /\ db'.portal[p] = [db.portal[p] EXCEPT !.age = Later(@)]
    BY <1>2 DEF Inv, Sound, Tables
  <2> DEFINE k == db.portal[p].sent
             a == db.portal[p].age
             i == sns_esi_interval
  <2>2. db'.portal[p].sent = k /\ db'.portal[p].age = Later(a)
    BY <2>1 DEF PortalObjects
  <2>3. k \in 1..(esi_sent_limit - 1) /\ a \in 0..MaxAge
    <3>1. k \in 0..(esi_sent_limit - 1) /\ a \in 0..MaxAge
      BY <2>1 DEF PortalObjects
    <3>2. k > 0
      BY <2>2
    <3> QED BY <3>1, <3>2, PortalAssumption
  <2>4. quiet[p] \in 0..MaxQuiet /\ quiet[p] >= (k - 1) * i + a
    BY <2>1, <2>3 DEF Inv, Others, Paced
  <2>5. quiet'[p] = IF quiet[p] < MaxQuiet THEN quiet[p] + 1 ELSE MaxQuiet
    BY <1>1, <2>1
  <2> HIDE DEF k, a, i
  <2>6. /\ Later(a) \in 0..MaxAge /\ Later(a) <= a + 1
    BY <2>3, PortalAssumption DEF Later
  <2>7. /\ (k - 1) * i \in Nat
        /\ (k - 1) * i + Later(a) <= MaxQuiet
    <3>1. i \in Nat /\ k - 1 \in Nat
      BY <2>3, PortalAssumption DEF i
    <3>2. (k - 1) * i \in Nat
      BY <3>1
    <3> QED BY <2>3, <2>6, <3>2, QuietBound DEF i
  <2>8. quiet'[p] >= (k - 1) * i + Later(a)
    <3> DEFINE b == (k - 1) * i
               l == Later(a)
    <3>1. b \in Nat /\ b + l <= MaxQuiet /\ quiet[p] >= b + a /\ l <= a + 1
      BY <2>4, <2>6, <2>7
    <3>2. l \in Nat /\ a \in Nat /\ MaxQuiet \in Nat /\ quiet[p] \in Nat
      BY <2>3, <2>4, <2>6, MaxQuietType, PortalAssumption
    <3>3. /\ quiet'[p] = IF quiet[p] < MaxQuiet THEN quiet[p] + 1 ELSE MaxQuiet
          /\ (k - 1) * i + Later(a) = b + l
      BY <2>5
    <3> HIDE DEF b, l
    <3>4. quiet'[p] >= b + l
      BY <3>1, <3>2, <3>3
    <3> QED BY <3>3, <3>4
  <2> QED BY <2>2, <2>8 DEF i
<1> QED BY <1>2, <1>3, <1>4 DEF Inv

LEMMA ConnectionsInv ==
  ASSUME Inv, Reply \/ Connect \/ Disconnect
  PROVE  Inv'
<1>1. UNCHANGED <<db, quiet>>
  BY DEF Reply, Connect, Disconnect
<1>2. Others'
  <2>1. CASE Reply
    BY <2>1 DEF Inv, Others, Reply
  <2>2. CASE Connect
    BY <2>2 DEF Inv, Others, Connect, Free
  <2>3. CASE Disconnect
    BY <2>3 DEF Inv, Others, Disconnect
  <2> QED BY <2>1, <2>2, <2>3
<1> QED BY <1>1, <1>2 DEF Inv

LEMMA StepInv ==
  ASSUME Inv, [Next]_vars
  PROVE  /\ Inv'
         /\ EsiTick => \A p \in DOMAIN db.portal \ DOMAIN db'.portal :
                         quiet[p] >= (esi_sent_limit - 1) * sns_esi_interval
<1>1. EsiTick => \A p \in DOMAIN db.portal \ DOMAIN db'.portal :
                   quiet[p] >= (esi_sent_limit - 1) * sns_esi_interval
  BY EsiTickInv
<1>2. Inv'
  <2>1. CASE RegEntity \/ DeregEntity \/ DeregPortal
    BY <2>1, RegistrationsInv
  <2>2. CASE RegPortal
    BY <2>2, RegPortalInv
  <2>3. CASE EsiTick
    BY <2>3, EsiTickInv
  <2>4. CASE Reply \/ Connect \/ Disconnect
    BY <2>4, ConnectionsInv
  <2>5. CASE EsiResponse
    BY <2>5, EsiResponseInv
  <2>6. CASE Second
    BY <2>6, SecondInv
  <2>7. CASE UNCHANGED vars
    BY <2>7 DEF vars, Inv, Others
  <2> QED BY <2>1, <2>2, <2>3, <2>4, <2>5, <2>6, <2>7 DEF Next
<1> QED BY <1>1, <1>2

THEOREM InvAlways == Spec => []Inv
BY InitInv, StepInv, PTL DEF Spec

(***************************************************************************)
(* What the handlers of iSNSreg.c, iSNSdereg.c and iSNSesi.c maintain for  *)
(* portals, for any constants.                                             *)
(***************************************************************************)

\* The variables keep their types; in particular the inquiries of a stored
\* portal never reach the limit.
THEOREM PortalsTypeCorrect == Spec => []TypeOK
BY InvAlways, InvImplies, PTL

\* Every stored portal is listed by the stored entity it belongs to, and its
\* index leads to it, whatever moves, replacements and removals came before.
THEOREM PortalsOwnedAlways == Spec => []PortalsOwned
BY InvAlways, InvImplies, PTL

\* A portal to be asked over TCP has a descriptor, whichever registration gave
\* the interval and whichever the port.
THEOREM AskedAlways == Spec => []AskedOnConnection
BY InvAlways, InvImplies, PTL

\* The inquiries remove no portal before esi_sent_limit - 1 of the shortest
\* intervals have passed since it was stored or answered.
THEOREM RemovedOnlySilent == Spec => RemovedOnlyIfSilent
BY InvAlways, StepInv, PTL DEF RemovedOnlyIfSilent, Spec
=============================================================================
