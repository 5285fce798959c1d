------------------------ MODULE IsnsRegistryProofs ------------------------
(***************************************************************************)
(* The theorems about the tables of IsnsRegistry, for every set of names,  *)
(* domains, sets and entities and every set of requests, one lemma for     *)
(* each handler: first the types of the tables and the reference counts of *)
(* the index of names, then how the tables refer to each other - the links *)
(* between Discovery Domains and Discovery Domain Sets, the lists of nodes *)
(* of the entities, the DDs that a node knows, and the symbolic names of   *)
(* DDs.                                                                    *)
(***************************************************************************)
EXTENDS IsnsQuery, SequenceTheorems, FiniteSetTheorems, WellFoundedInduction,
        TLAPS

(***************************************************************************)
(* Sequences and tables.                                                   *)
(***************************************************************************)

\* What RemoveAt returns: the elements after position i move down by one.
LEMMA RemoveAtElements ==
  ASSUME NEW S, NEW s \in Seq(S), NEW i \in 1..Len(s)
  PROVE  /\ RemoveAt(s, i) \in Seq(S)
         /\ Len(RemoveAt(s, i)) = Len(s) - 1
         /\ \A k \in 1..(Len(s) - 1) :
              RemoveAt(s, i)[k] = IF k < i THEN s[k] ELSE s[k + 1]
<1> DEFINE before == SubSeq(s, 1, i - 1)
           after  == SubSeq(s, i + 1, Len(s))
<1>1. Len(s) \in Nat /\ \A k \in 1..Len(s) : s[k] \in S
  BY LenProperties
<1>2. /\ before \in Seq(S)
      /\ Len(before) = i - 1
      /\ \A k \in 1..(i - 1) : before[k] = s[k]
  BY <1>1, SubSeqProperties
<1>3. /\ after \in Seq(S)
      /\ Len(after) = Len(s) - i
      /\ \A k \in 1..(Len(s) - i) : after[k] = s[i + k]
  BY <1>1, SubSeqProperties
<1> HIDE DEF before, after
<1>4. RemoveAt(s, i) = before \o after
  BY DEF RemoveAt, before, after
<1>5. /\ before \o after \in Seq(S)
      /\ Len(before \o after) = Len(before) + Len(after)
      /\ \A k \in 1..(Len(before) + Len(after)) : (before \o after)[k] =
           IF k <= Len(before) THEN before[k] ELSE after[k - Len(before)]
  <2>1. before \in Seq(S) /\ after \in Seq(S)
    BY <1>2, <1>3
  <2> QED BY ONLY <2>1, ConcatProperties
<1>6. Len(before) + Len(after) = Len(s) - 1
  BY <1>1, <1>2, <1>3
<1> QED BY <1>1, <1>2, <1>3, <1>4, <1>5, <1>6

\* A list without one of its elements is a list of the same type.
LEMMA WithoutType ==
  ASSUME NEW S, NEW s \in Seq(S), NEW x
  PROVE  Without(s, x) \in Seq(S)
BY RemoveAtElements, LenProperties DEF Without, Range

LEMMA AppendNewType ==
  ASSUME NEW S, NEW s \in Seq(S), NEW x \in S
  PROVE  AppendNew(s, x) \in Seq(S)
BY DEF AppendNew

LEMMA PutTable ==
  ASSUME NEW K, NEW V, NEW t, IsTable(t, K, V), NEW k \in K, NEW v \in V
  PROVE  IsTable(Put(t, k, v), K, V)
BY DEF IsTable, Put

LEMMA DropTable ==
  ASSUME NEW K, NEW V, NEW t, IsTable(t, K, V), NEW k
  PROVE  IsTable(Drop(t, k), K, V)
BY DEF IsTable, Drop

LEMMA UpdateTable ==
  ASSUME NEW K, NEW V, NEW t, IsTable(t, K, V), NEW k, NEW v \in V
  PROVE  IsTable([t EXCEPT ![k] = v], K, V)
BY DEF IsTable

\* The tables with one of them replaced.
LEMMA TypedUpdate ==
  ASSUME NEW r, Typed(r), NEW t
  PROVE  /\ IsTable(t, Entities, EntityObjects) => Typed([r EXCEPT !.entity = t])
         /\ IsTable(t, Names, Nodes)     => Typed([r EXCEPT !.node = t])
         /\ IsTable(t, Names, Nat)       => Typed([r EXCEPT !.idx = t])
         /\ IsTable(t, DDs, DDObjects)   => Typed([r EXCEPT !.dd = t])
         /\ IsTable(t, DDSs, DDSObjects) => Typed([r EXCEPT !.dds = t])
BY DEF Typed

LEMMA TypedTables ==
  ASSUME NEW r, Typed(r)
  PROVE  /\ IsTable(r.entity, Entities, EntityObjects)
         /\ IsTable(r.node, Names, Nodes)
         /\ IsTable(r.idx, Names, Nat)
         /\ IsTable(r.dd, DDs, DDObjects)
         /\ IsTable(r.dds, DDSs, DDSObjects)
BY DEF Typed

\* A stored object has the type of its table.
LEMMA TypedObjects ==
  ASSUME NEW r, Typed(r)
  PROVE  /\ DOMAIN r.entity \subseteq Entities
         /\ DOMAIN r.node \subseteq Names
         /\ DOMAIN r.idx \subseteq Names
         /\ DOMAIN r.dd \subseteq DDs
         /\ DOMAIN r.dds \subseteq DDSs
         /\ \A e \in DOMAIN r.entity : r.entity[e] \in EntityObjects
         /\ \A n \in DOMAIN r.node : r.node[n] \in Nodes
         /\ \A n \in DOMAIN r.idx : r.idx[n] \in Nat
         /\ \A d \in DOMAIN r.dd : r.dd[d] \in DDObjects
         /\ \A s \in DOMAIN r.dds : r.dds[s] \in DDSObjects
BY DEF Typed, IsTable

(***************************************************************************)
(* Membership.                                                             *)
(***************************************************************************)

LEMMA AddDDToNodeTyped ==
  ASSUME NEW r, Typed(r), NEW d \in DOMAIN r.dd, NEW n \in Names
  PROVE  Typed(AddDDToNode(r, d, n))
<1> DEFINE node == [r.node[n] EXCEPT !.dds = @ \cup {d},
                                     !.active = @ \/ r.dd[d].active]
           t == [r.node EXCEPT ![n] = node]
<1>1. CASE n \in DOMAIN r.node
  <2>1. r.node[n] \in Nodes /\ d \in DDs
    BY <1>1, TypedObjects
  <2>2. node \in Nodes
    BY <2>1 DEF Nodes
  <2>3. IsTable(t, Names, Nodes)
    BY <2>2, TypedTables, UpdateTable
  <2>4. AddDDToNode(r, d, n) = [r EXCEPT !.node = t]
    BY <1>1, <2>1 DEF AddDDToNode, Nodes, Typed
  <2>5. Typed([r EXCEPT !.node = t])
    BY <2>3, TypedUpdate
  <2> QED BY <2>4, <2>5
<1>2. CASE n \notin DOMAIN r.node
  BY <1>2 DEF AddDDToNode
<1> QED BY <1>1, <1>2

LEMMA AddDDMemberTyped ==
  ASSUME NEW r, Typed(r), NEW d \in DOMAIN r.dd, NEW n \in Names,
         NEW enabled \in BOOLEAN
  PROVE  Typed(AddDDMember(r, d, n, enabled))
<1> DEFINE new == [name |-> n, enabled |-> enabled]
           idx == Put(r.idx, n, IF n \in DOMAIN r.idx THEN r.idx[n] + 1 ELSE 1)
           obj == [r.dd[d] EXCEPT !.members = Append(@, new)]
           dd  == [r.dd EXCEPT ![d] = obj]
           s   == [[r EXCEPT !.idx = idx] EXCEPT !.dd = dd]
<1>1. IsTable(idx, Names, Nat)
  <2>1. (IF n \in DOMAIN r.idx THEN r.idx[n] + 1 ELSE 1) \in Nat
    BY TypedObjects
  <2> QED BY <2>1, PutTable DEF Typed
<1>2. new \in Members /\ r.dd[d] \in DDObjects
  BY TypedObjects DEF Members
<1>3. obj \in DDObjects
  <2>1. r.dd[d].members \in Seq(Members)
    BY <1>2 DEF DDObjects
  <2>2. Append(r.dd[d].members, new) \in Seq(Members)
    BY <1>2, <2>1
  <2> QED BY <1>2, <2>2 DEF DDObjects
<1>4. IsTable(dd, DDs, DDObjects)
  BY <1>3, TypedTables, UpdateTable
<1>5. Typed([r EXCEPT !.idx = idx])
  BY <1>1, TypedUpdate
<1>6. Typed(s)
  BY <1>4, <1>5, TypedUpdate
<1>7. AddDDMember(r, d, n, enabled) \in {r, s}
  BY <1>2 DEF AddDDMember, DDObjects, Typed
<1> QED BY <1>6, <1>7

LEMMA JoinDDTyped ==
  ASSUME NEW r, Typed(r), NEW d \in DOMAIN r.dd, NEW n \in Names
  PROVE  Typed(JoinDD(r, d, n))
<1>1. AddDDToNode(r, d, n).dd = r.dd
  BY DEF AddDDToNode, Typed
<1>2. Typed(AddDDToNode(r, d, n))
  BY AddDDToNodeTyped
<1>3. (n \in DOMAIN r.node) \in BOOLEAN
  OBVIOUS
<1>4. Typed(AddDDMember(AddDDToNode(r, d, n), d, n, n \in DOMAIN r.node))
  BY <1>1, <1>2, <1>3, AddDDMemberTyped
<1> QED BY <1>4 DEF JoinDD

LEMMA RemoveDDFromNodeTyped ==
  ASSUME NEW r, Typed(r), NEW d, NEW n \in Names
  PROVE  Typed(RemoveDDFromNode(r, d, n))
<1> DEFINE rest == r.node[n].dds \ {d}
           live == \E x \in rest \cap DOMAIN r.dd : r.dd[x].active
           node == [r.node[n] EXCEPT !.dds = rest, !.active = @ /\ live]
           t == [r.node EXCEPT ![n] = node]
<1>1. CASE n \in DOMAIN r.node
  <2>1. r.node[n] \in Nodes
    BY <1>1, TypedObjects
  <2> DEFINE active == r.node[n].active /\ live
  <2>2. active \in BOOLEAN
    OBVIOUS
  <2> HIDE DEF live
  <2>3. node \in Nodes
    BY <2>1, <2>2 DEF Nodes
  <2>4. IsTable(t, Names, Nodes)
    BY <2>3, TypedTables, UpdateTable
  <2>5. RemoveDDFromNode(r, d, n) \in {r, [r EXCEPT !.node = t]}
    BY <1>1, <2>1 DEF RemoveDDFromNode, Nodes, Typed, live
  <2>6. Typed([r EXCEPT !.node = t])
    BY <2>4, TypedUpdate
  <2> QED BY <2>5, <2>6
<1>2. CASE n \notin DOMAIN r.node
  BY <1>2 DEF RemoveDDFromNode
<1> QED BY <1>1, <1>2

LEMMA ReleaseIdxType ==
  ASSUME NEW r, Typed(r), NEW names
  PROVE  IsTable(ReleaseIdx(r, names), Names, Nat)
BY DEF Typed, IsTable, ReleaseIdx

LEMMA RemoveDDMemberTyped ==
  ASSUME NEW r, Typed(r), NEW d \in DOMAIN r.dd, NEW n
  PROVE  Typed(RemoveDDMember(r, d, n))
<1> DEFINE members == r.dd[d].members
           i   == CHOOSE k \in DOMAIN members : members[k].name = n
           obj == [r.dd[d] EXCEPT !.members = RemoveAt(members, i)]
           dd  == [r.dd EXCEPT ![d] = obj]
           idx == ReleaseIdx(r, {n})
<1>1. CASE n \in MemberNames(members)
  <2>1. r.dd[d] \in DDObjects
    BY TypedObjects
  <2>2. members \in Seq(Members)
    BY <2>1 DEF DDObjects
  <2>3. i \in 1..Len(members)
    BY <1>1, <2>2, LenProperties DEF MemberNames
  <2>4. obj \in DDObjects
    BY <2>1, <2>2, <2>3, RemoveAtElements DEF DDObjects
  <2>5. IsTable(dd, DDs, DDObjects) /\ IsTable(idx, Names, Nat)
    BY <2>4, TypedTables, UpdateTable, ReleaseIdxType
  <2>6. Typed([[r EXCEPT !.dd = dd] EXCEPT !.idx = idx])
    BY <2>5, TypedUpdate
  <2>7. RemoveDDMember(r, d, n) = [[r EXCEPT !.dd = dd] EXCEPT !.idx = idx]
    BY <1>1, <2>1 DEF RemoveDDMember, DDObjects, Typed
  <2> QED BY <2>6, <2>7
<1>2. CASE n \notin MemberNames(members)
  BY <1>2 DEF RemoveDDMember
<1> QED BY <1>1, <1>2

(***************************************************************************)
(* Discovery Domains.                                                      *)
(***************************************************************************)

LEMMA JoinDDKeepsDDs ==
  ASSUME NEW r, Typed(r), NEW d \in DOMAIN r.dd, NEW n
  PROVE  DOMAIN JoinDD(r, d, n).dd = DOMAIN r.dd
<1>1. AddDDToNode(r, d, n).dd = r.dd
  BY DEF AddDDToNode, Typed
<1>2. ASSUME NEW x, NEW e, x.dd = r.dd
      PROVE  DOMAIN AddDDMember(x, d, n, e).dd = DOMAIN r.dd
  BY <1>2 DEF AddDDMember
<1> QED BY <1>1, <1>2 DEF JoinDD

LEMMA AttrNameType ==
  ASSUME NEW a \in MemberAttrs
  PROVE  AttrName(a) \in Names
BY NameAssumption DEF MemberAttrs, AttrName

\* The names in a registration.
LEMMA RequestNames ==
  ASSUME NEW m \in DDRequests
  PROVE  m.auto \in Syms /\ NameRead(m) \in Syms \cup {NoSym}
BY DEF DDRequests, NameRead

LEMMA RegisterDDTyped ==
  ASSUME NEW r, Typed(r), NEW m \in DDRequests
  PROVE  Typed(RegisterDD(r, m))
<1> DEFINE d        == m.dd
           exists   == d \in DOMAIN r.dd
           new      == [sym |-> IF m.sym = NoSym THEN m.auto ELSE NoSym,
                        active |-> FALSE, members |-> <<>>, dds |-> <<>>]
           start    == IF exists THEN r ELSE [r EXCEPT !.dd = Put(@, d, new)]
           unknown  == m.member # <<>> /\ ~AttrKnown(r, m.member[1])
           early    == m.member # <<>> /\ ~m.member[1].byIdx
           joined   == IF m.member = <<>> \/ unknown THEN start
                       ELSE JoinDD(start, d, AttrName(m.member[1]))
           conflict == /\ NameRead(m) \notin {NoSym, start.dd[d].sym}
                       /\ DDSymTaken(r, d, NameRead(m))
           undone   == [joined EXCEPT !.dd = r.dd]
           named    == [joined.dd[d] EXCEPT !.sym = NameRead(m)]
           renamed  == [joined EXCEPT !.dd = [@ EXCEPT ![d] = named]]
<1>1. /\ d \in DDs
      /\ m.auto \in Syms /\ NameRead(m) \in Syms \cup {NoSym}
      /\ m.member # <<>> => m.member[1] \in MemberAttrs
  BY RequestNames DEF DDRequests
<1>2. Typed(start) /\ d \in DOMAIN start.dd
  <2>1. new \in DDObjects
    BY <1>1, SymAssumption, EmptySeq DEF DDObjects
  <2>2. IsTable(Put(r.dd, d, new), DDs, DDObjects)
    BY <1>1, <2>1, TypedTables, PutTable
  <2>3. Typed([r EXCEPT !.dd = Put(r.dd, d, new)])
    BY <2>2, TypedUpdate
  <2>4. d \in DOMAIN Put(r.dd, d, new)
    BY DEF Put
  <2> QED BY <2>3, <2>4 DEF Typed
<1> HIDE DEF start
<1>3. Typed(joined) /\ d \in DOMAIN joined.dd
  <2>1. CASE m.member = <<>> \/ unknown
    BY <1>2, <2>1
  <2>2. CASE m.member # <<>> /\ ~unknown
    <3>1. AttrName(m.member[1]) \in Names
      BY <1>1, <2>2, AttrNameType
    <3>2. joined = JoinDD(start, d, AttrName(m.member[1]))
      BY <2>2
    <3> QED BY <1>2, <3>1, <3>2, JoinDDTyped, JoinDDKeepsDDs
  <2> QED BY <2>1, <2>2
<1> HIDE DEF joined
<1>4. Typed(undone)
  BY <1>3, TypedTables, TypedUpdate
<1>5. Typed(renamed)
  <2>1. joined.dd[d] \in DDObjects
    BY <1>3, TypedObjects
  <2>2. named \in DDObjects
    BY <1>1, <2>1 DEF DDObjects
  <2>3. IsTable([joined.dd EXCEPT ![d] = named], DDs, DDObjects)
    BY <1>3, <2>2, TypedTables, UpdateTable
  <2> QED BY <1>3, <2>3, TypedUpdate
<1>6. RegisterDD(r, m) \in {r, joined, undone, renamed}
  BY DEF RegisterDD, start, joined
<1> QED BY <1>3, <1>4, <1>5, <1>6

LEMMA DeregisterDDMemberTyped ==
  ASSUME NEW r, Typed(r), NEW d, NEW a \in MemberAttrs
  PROVE  Typed(DeregisterDDMember(r, d, a))
<1>1. ASSUME NEW n PROVE RemoveDDFromNode(r, d, n).dd = r.dd
  BY DEF RemoveDDFromNode, Typed
<1>2. CASE d \in DOMAIN r.dd
  BY <1>1, <1>2, AttrNameType, RemoveDDFromNodeTyped, RemoveDDMemberTyped
     DEF DeregisterDDMember
<1>3. CASE d \notin DOMAIN r.dd
  BY <1>3 DEF DeregisterDDMember
<1> QED BY <1>2, <1>3

LEMMA DeregisterDDTyped ==
  ASSUME NEW r, Typed(r), NEW d \in DDs
  PROVE  Typed(DeregisterDD(r, d))
<1> DEFINE members == r.dd[d].members
           enabled == {members[i].name : i \in {k \in DOMAIN members :
                                                  members[k].enabled}}
           left    == StoredPrefix(r.dd[d].dds, r.dds)
           node    == [n \in DOMAIN r.node |->
                         IF n \in enabled THEN RemoveDDFromNode(r, d, n).node[n]
                         ELSE r.node[n]]
           idx     == ReleaseIdx(r, MemberNames(members))
           dds     == [s \in DOMAIN r.dds |->
                         IF s \in left
                         THEN [r.dds[s] EXCEPT !.dds = Without(@, d)]
                         ELSE r.dds[s]]
           bare    == [r.dd EXCEPT ![d].members = <<>>]
           dd      == IF Range(r.dd[d].dds) = left THEN Drop(r.dd, d) ELSE bare
<1>1. CASE d \in DOMAIN r.dd
  <2>1. IsTable(node, Names, Nodes)
    <3>1. ASSUME NEW n \in DOMAIN r.node
          PROVE  RemoveDDFromNode(r, d, n).node[n] \in Nodes
      <4>1. Typed(RemoveDDFromNode(r, d, n))
        BY RemoveDDFromNodeTyped, TypedObjects
      <4>2. n \in DOMAIN RemoveDDFromNode(r, d, n).node
        BY DEF RemoveDDFromNode, Typed
      <4> QED BY <4>1, <4>2, TypedObjects
    <3> QED BY <3>1, TypedObjects DEF IsTable
  <2>2. IsTable(idx, Names, Nat)
    BY ReleaseIdxType
  <2>3. IsTable(dds, DDSs, DDSObjects)
    <3>1. ASSUME NEW s \in DOMAIN r.dds
          PROVE  [r.dds[s] EXCEPT !.dds = Without(@, d)] \in DDSObjects
      <4>1. r.dds[s] \in DDSObjects
        BY TypedObjects
      <4>2. Without(r.dds[s].dds, d) \in Seq(DDs)
        BY <4>1, WithoutType DEF DDSObjects
      <4> QED BY <4>1, <4>2 DEF DDSObjects
    <3> QED BY <3>1, TypedObjects DEF IsTable
  <2>4. IsTable(dd, DDs, DDObjects)
    <3>1. [r.dd[d] EXCEPT !.members = <<>>] \in DDObjects
      BY <1>1, TypedObjects, EmptySeq DEF DDObjects
    <3>2. IsTable(bare, DDs, DDObjects)
      BY <3>1, TypedTables, UpdateTable
    <3> QED BY <3>2, TypedTables, DropTable
  <2>5. DeregisterDD(r, d) = [r EXCEPT !.node = node, !.idx = idx,
                                       !.dds = dds, !.dd = dd]
    BY <1>1 DEF DeregisterDD
  <2> HIDE DEF node, idx, dd, dds
  <2> QED BY <2>1, <2>2, <2>3, <2>4, <2>5 DEF Typed
<1>2. CASE d \notin DOMAIN r.dd
  BY <1>2 DEF DeregisterDD
<1> QED BY <1>1, <1>2

(***************************************************************************)
(* Discovery Domain Sets.                                                  *)
(***************************************************************************)

LEMMA ChangeMemberFlagsTyped ==
  ASSUME NEW r, Typed(r), NEW ds
  PROVE  Typed(ChangeMemberFlags(r, ds))
<1> DEFINE Reaching(n) == {i \in DOMAIN ds : n \in FlaggedMembers(r, ds[i])}
           Flag(n) == \/ r.dd[ds[Max(Reaching(n))]].active
                      \/ \E d \in r.node[n].dds : IsDDActive(r, d, {})
           node == [n \in DOMAIN r.node |->
                      IF Reaching(n) = {} THEN r.node[n]
                      ELSE [r.node[n] EXCEPT !.active = Flag(n)]]
<1>1. IsTable(node, Names, Nodes)
  <2>1. ASSUME NEW n \in DOMAIN r.node
        PROVE  [r.node[n] EXCEPT !.active = Flag(n)] \in Nodes
    <3>1. Flag(n) \in BOOLEAN
      OBVIOUS
    <3> HIDE DEF Flag
    <3> QED BY <3>1, TypedObjects DEF Nodes
  <2> HIDE DEF Flag, Reaching
  <2> QED BY <2>1, TypedObjects DEF IsTable
<1>2. ChangeMemberFlags(r, ds) = [r EXCEPT !.node = node]
  BY DEF ChangeMemberFlags
<1>3. Typed([r EXCEPT !.node = node])
  BY <1>1, TypedUpdate
<1> QED BY <1>2, <1>3

LEMMA DeregisterDDSTyped ==
  ASSUME NEW r, Typed(r), NEW s
  PROVE  Typed(DeregisterDDS(r, s))
<1> DEFINE listed  == r.dds[s].dds
           left    == StoredPrefix(listed, r.dd)
           dark(d) == ~IsDDActive(r, d, {s})
           dd      == [d \in DOMAIN r.dd |->
                         IF d \notin left THEN r.dd[d]
                         ELSE [r.dd[d] EXCEPT !.dds = Without(@, s),
                                              !.active = @ /\ ~dark(d)]]
           unlinked == [r EXCEPT !.dd = dd]
           changed == SelectSeq(listed, LAMBDA d : r.dd[d].active /\ dark(d))
           flagged == ChangeMemberFlags(unlinked, changed)
           removed == [flagged EXCEPT !.dds = Drop(@, s)]
<1>1. IsTable(dd, DDs, DDObjects)
  <2>1. ASSUME NEW d \in DOMAIN r.dd
        PROVE  [r.dd[d] EXCEPT !.dds = Without(@, s),
                               !.active = @ /\ ~dark(d)] \in DDObjects
    <3>1. r.dd[d] \in DDObjects
      BY TypedObjects
    <3>2. Without(r.dd[d].dds, s) \in Seq(DDSs)
      BY <3>1, WithoutType DEF DDObjects
    <3>3. (r.dd[d].active /\ ~dark(d)) \in BOOLEAN
      OBVIOUS
    <3> HIDE DEF dark
    <3> QED BY <3>1, <3>2, <3>3 DEF DDObjects
  <2> HIDE DEF dark, left
  <2> QED BY <2>1, TypedObjects DEF IsTable
<1>2. Typed(unlinked)
  BY <1>1, TypedUpdate
<1>3. Typed(flagged)
  BY <1>2, ChangeMemberFlagsTyped
<1> HIDE DEF flagged
<1>4. Typed(removed)
  BY <1>3, TypedTables, DropTable, TypedUpdate
<1>5. DeregisterDDS(r, s) \in {r, unlinked, removed}
  BY DEF DeregisterDDS, flagged
<1> HIDE DEF unlinked, removed
<1> QED BY <1>2, <1>4, <1>5

LEMMA DeregisterDDSMemberTyped ==
  ASSUME NEW r, Typed(r), NEW s, NEW d
  PROVE  Typed(DeregisterDDSMember(r, s, d))
<1> DEFINE set == [r.dds[s] EXCEPT !.dds = Without(@, d)]
           dds == [r.dds EXCEPT ![s] = set]
           live == IsDDActive(r, d, {s})
           obj == [r.dd[d] EXCEPT !.dds = Without(@, s), !.active = @ /\ live]
           dd  == [r.dd EXCEPT ![d] = obj]
           dropped == [r EXCEPT !.dds = dds]
           removed == [dropped EXCEPT !.dd = dd]
<1>1. CASE s \in DOMAIN r.dds
  <2>1. r.dds[s] \in DDSObjects
    BY <1>1, TypedObjects
  <2>2. set \in DDSObjects
    BY <2>1, WithoutType DEF DDSObjects
  <2>3. IsTable(dds, DDSs, DDSObjects)
    BY <2>2, TypedTables, UpdateTable
  <2>4. Typed(dropped)
    BY <2>3, TypedUpdate
  <2>5. CASE d \in DOMAIN r.dd
    <3>1. r.dd[d] \in DDObjects
      BY <2>5, TypedObjects
    <3>2. Without(r.dd[d].dds, s) \in Seq(DDSs)
      BY <3>1, WithoutType DEF DDObjects
    <3>3. (r.dd[d].active /\ live) \in BOOLEAN
      OBVIOUS
    <3> HIDE DEF live
    <3>4. obj \in DDObjects
      BY <3>1, <3>2, <3>3 DEF DDObjects
    <3>5. IsTable(dd, DDs, DDObjects)
      BY <3>4, TypedTables, UpdateTable
    <3>6. Typed(removed)
      BY <2>4, <3>5, TypedUpdate
    <3>7. DeregisterDDSMember(r, s, d) = removed
      BY ZenonT(60), <1>1, <2>1, <2>5, <3>1
         DEF DeregisterDDSMember, Typed, DDObjects, DDSObjects, live
    <3> QED BY <3>6, <3>7
  <2>6. CASE d \notin DOMAIN r.dd
    <3>1. DeregisterDDSMember(r, s, d) = dropped
      BY <1>1, <2>6 DEF DeregisterDDSMember
    <3> QED BY <2>4, <3>1
  <2> QED BY <2>5, <2>6
<1>2. CASE s \notin DOMAIN r.dds
  BY <1>2 DEF DeregisterDDSMember
<1> QED BY <1>1, <1>2

LEMMA AddDDSToDDTyped ==
  ASSUME NEW r, Typed(r), NEW s \in DOMAIN r.dds, NEW d \in DOMAIN r.dd,
         NEW status \in BOOLEAN
  PROVE  Typed(AddDDSToDD(r, s, d, status))
<1> DEFINE set == [r.dds[s] EXCEPT !.dds = AppendNew(@, d)]
           dds == [r.dds EXCEPT ![s] = set]
           obj == [r.dd[d] EXCEPT !.dds = AppendNew(@, s),
                                  !.active = @ \/ status]
           dd  == [r.dd EXCEPT ![d] = obj]
           linked == [[r EXCEPT !.dds = dds] EXCEPT !.dd = dd]
<1>1. r.dds[s] \in DDSObjects /\ r.dd[d] \in DDObjects /\ s \in DDSs /\ d \in DDs
  BY TypedObjects
<1>2. set \in DDSObjects
  BY <1>1, AppendNewType DEF DDSObjects
<1>3. AppendNew(r.dd[d].dds, s) \in Seq(DDSs)
  BY <1>1, AppendNewType DEF DDObjects
<1>4. obj \in DDObjects
  BY <1>1, <1>3 DEF DDObjects
<1>5. IsTable(dds, DDSs, DDSObjects) /\ IsTable(dd, DDs, DDObjects)
  BY <1>2, <1>4, TypedTables, UpdateTable
<1>6. Typed([r EXCEPT !.dds = dds])
  BY <1>5, TypedUpdate
<1>7. Typed(linked)
  BY <1>5, <1>6, TypedUpdate
<1>8. AddDDSToDD(r, s, d, status) = linked
  BY <1>1 DEF AddDDSToDD, Typed, DDObjects, DDSObjects
<1> QED BY <1>7, <1>8

LEMMA SpreadStatusTyped ==
  ASSUME NEW r, Typed(r), NEW s, NEW w
  PROVE  Typed(SpreadStatus(r, s, w))
<1> DEFINE visited == SubSeq(r.dds[s].dds, 1, w.visited)
           changed == SelectSeq(visited, LAMBDA d :
                        r.dd[d].active # IsDDActive(r, d, {}))
           dd == [d \in DOMAIN r.dd |->
                    IF d \in Range(visited)
                    THEN [r.dd[d] EXCEPT !.active = IsDDActive(r, d, {})]
                    ELSE r.dd[d]]
           spread == [r EXCEPT !.dd = dd]
<1>1. IsTable(dd, DDs, DDObjects)
  <2>1. ASSUME NEW d \in DOMAIN r.dd
        PROVE  [r.dd[d] EXCEPT !.active = IsDDActive(r, d, {})] \in DDObjects
    <3>1. IsDDActive(r, d, {}) \in BOOLEAN
      BY DEF IsDDActive
    <3> QED BY <3>1, TypedObjects DEF DDObjects
  <2> HIDE DEF visited
  <2> QED BY <2>1, TypedObjects DEF IsTable
<1>2. Typed(spread)
  BY <1>1, TypedUpdate
<1>3. Typed(ChangeMemberFlags(spread, changed))
  BY <1>2, ChangeMemberFlagsTyped
<1>4. SpreadStatus(r, s, w) \in {spread, ChangeMemberFlags(spread, changed)}
  BY DEF SpreadStatus
<1> HIDE DEF spread, changed
<1> QED BY <1>2, <1>3, <1>4

LEMMA DeregisterDDSKeepsDDs ==
  ASSUME NEW r, Typed(r), NEW s
  PROVE  DOMAIN DeregisterDDS(r, s).dd = DOMAIN r.dd
BY DEF DeregisterDDS, ChangeMemberFlags, Typed

LEMMA PlaceDDSTyped ==
  ASSUME NEW r, Typed(r), NEW m \in DDSRequests
  PROVE  Typed(PlaceDDS(r, m).db)
<1> DEFINE s        == m.dds
           new      == s \notin DOMAIN r.dds \/ m.replace
           before   == IF m.replace THEN DeregisterDDS(r, s) ELSE r
           old      == IF new THEN [sym |-> NoSym, status |-> FALSE, dds |-> <<>>]
                       ELSE r.dds[s]
           start    == [before EXCEPT !.dds = Put(@, s, old)]
           status   == IF m.status = <<>> THEN old.status ELSE m.status[1]
           given    == IF m.statusLast THEN old.status ELSE status
           unknown  == m.dd # <<>> /\ m.dd[1] \notin DOMAIN r.dd
           linked   == IF m.dd = <<>> \/ unknown THEN start
                       ELSE AddDDSToDD(start, s, m.dd[1], given)
           set      == [linked.dds[s] EXCEPT
                          !.status = status,
                          !.sym = IF m.sym = NoSym THEN @ ELSE m.sym]
           written  == [linked EXCEPT !.dds = [@ EXCEPT ![s] = set]]
           undone   == [linked EXCEPT !.dds = before.dds]
<1>1. /\ s \in DDSs
      /\ m.sym \in Syms \cup {NoSym}
      /\ m.status # <<>> => m.status[1] \in BOOLEAN
  <2>1. /\ s \in DDSs
        /\ m.sym \in Syms \cup {NoSym}
        /\ m.status \in {<<>>, <<TRUE>>, <<FALSE>>}
    BY DEF DDSRequests
  <2>2. ASSUME m.status # <<>> PROVE m.status[1] \in BOOLEAN
    <3>1. CASE m.status = <<TRUE>>
      BY <3>1
    <3>2. CASE m.status = <<FALSE>>
      BY <3>2
    <3> QED BY <2>1, <2>2, <3>1, <3>2
  <2> QED BY <2>1, <2>2
<1>2. Typed(before) /\ DOMAIN before.dd = DOMAIN r.dd
  BY DeregisterDDSTyped, DeregisterDDSKeepsDDs
<1> HIDE DEF before
<1>3. old \in DDSObjects
  BY TypedObjects, EmptySeq DEF DDSObjects
<1> HIDE DEF old
<1>4. status \in BOOLEAN /\ given \in BOOLEAN
  BY <1>1, <1>3 DEF DDSObjects
<1> HIDE DEF status, given
<1>5. Typed(start) /\ s \in DOMAIN start.dds /\ start.dd = before.dd
  <2>1. IsTable(Put(before.dds, s, old), DDSs, DDSObjects)
    BY <1>1, <1>2, <1>3, TypedTables, PutTable
  <2>2. Typed(start)
    BY <1>2, <2>1, TypedUpdate
  <2>3. start.dds = Put(before.dds, s, old) /\ start.dd = before.dd
    BY <1>2 DEF Typed
  <2>4. s \in DOMAIN Put(before.dds, s, old)
    BY DEF Put
  <2> QED BY <2>2, <2>3, <2>4
<1> HIDE DEF start
<1>6. Typed(linked) /\ s \in DOMAIN linked.dds
  <2>1. CASE m.dd = <<>> \/ unknown
    BY <1>5, <2>1
  <2>2. CASE m.dd # <<>> /\ m.dd[1] \in DOMAIN r.dd
    <3>1. linked = AddDDSToDD(start, s, m.dd[1], given)
      BY <2>2
    <3>2. Typed(linked)
      BY <1>2, <1>4, <1>5, <2>2, <3>1, AddDDSToDDTyped
    <3>3. DOMAIN linked.dds = DOMAIN start.dds
      BY <1>5, <3>1 DEF AddDDSToDD, Typed
    <3> QED BY <1>5, <3>2, <3>3
  <2> QED BY <2>1, <2>2
<1> HIDE DEF linked
<1>7. linked.dds[s] \in DDSObjects
  BY <1>6, TypedObjects
<1>8. Typed(written)
  <2>1. set \in DDSObjects
    BY <1>1, <1>4, <1>7 DEF DDSObjects
  <2>2. IsTable([linked.dds EXCEPT ![s] = set], DDSs, DDSObjects)
    BY <1>6, <2>1, TypedTables, UpdateTable
  <2> QED BY <1>6, <2>2, TypedUpdate
<1>9. Typed(undone)
  BY <1>2, <1>6, TypedTables, TypedUpdate
<1>10. PlaceDDS(r, m).db \in {before, undone, linked, written}
  <2>1. written = [linked EXCEPT
                     !.dds[s].status = status,
                     !.dds[s].sym = IF m.sym = NoSym THEN @ ELSE m.sym]
    BY <1>6, <1>7 DEF Typed, DDSObjects
  <2> HIDE DEF written
  <2> QED BY <2>1 DEF PlaceDDS, before, old, start, status, given, linked
<1> HIDE DEF undone, written
<1> QED BY <1>2, <1>6, <1>8, <1>9, <1>10

LEMMA RegisterDDSResultsTyped ==
  ASSUME NEW r, Typed(r), NEW m \in DDSRequests,
         NEW res \in RegisterDDSResults(r, m)
  PROVE  Typed(res.db)
<1>1. Typed(PlaceDDS(r, m).db)
  BY PlaceDDSTyped
<1>2. \A w : Typed(SpreadStatus(PlaceDDS(r, m).db, m.dds, w))
  BY <1>1, SpreadStatusTyped
<1> QED BY <1>1, <1>2 DEF RegisterDDSResults

(***************************************************************************)
(* Nodes and entities.                                                     *)
(***************************************************************************)

LEMMA RemoveNodeTyped ==
  ASSUME NEW r, Typed(r), NEW n
  PROVE  Typed(RemoveNode(r, n))
<1> DEFINE e   == r.node[n].entity
           obj == [r.entity[e] EXCEPT !.nodes = @ \ {n}]
           entity == [r.entity EXCEPT ![e] = obj]
           idx == IF n \in DOMAIN r.idx /\ r.idx[n] = 0 THEN Drop(r.idx, n)
                  ELSE r.idx
           s1 == [r EXCEPT !.entity = entity]
           s2 == [s1 EXCEPT !.idx = idx]
           s3 == [s2 EXCEPT !.node = Drop(r.node, n)]
<1>1. CASE n \in DOMAIN r.node /\ e \in DOMAIN r.entity
  <2>1. r.entity[e] \in EntityObjects
    BY <1>1, TypedObjects
  <2>2. obj \in EntityObjects
    BY <2>1 DEF EntityObjects
  <2>3. /\ IsTable(entity, Entities, EntityObjects)
        /\ IsTable(idx, Names, Nat)
        /\ IsTable(Drop(r.node, n), Names, Nodes)
    BY <2>2, TypedTables, UpdateTable, DropTable
  <2>4. Typed(s1)
    BY <2>3, TypedUpdate
  <2>5. Typed(s2)
    BY <2>3, <2>4, TypedUpdate
  <2>6. Typed(s3)
    BY <2>3, <2>5, TypedUpdate
  <2>7. RemoveNode(r, n) = s3
    BY <1>1, <2>1 DEF RemoveNode, Typed, EntityObjects
  <2> QED BY <2>6, <2>7
<1>2. CASE ~(n \in DOMAIN r.node /\ e \in DOMAIN r.entity)
  BY <1>2 DEF RemoveNode
<1> QED BY <1>1, <1>2

LEMMA ActivateMembershipTyped ==
  ASSUME NEW r, Typed(r), NEW n \in DOMAIN r.node
  PROVE  Typed(ActivateMembership(r, n))
<1> DEFINE listing == DDsListing(r, n)
           default == {d \in DOMAIN r.dd : r.dd[d].sym = DefaultSym}
           d       == CHOOSE x \in default : TRUE
           live    == \E x \in listing : r.dd[x].active
           joined  == AddDDMember(r, d, n, TRUE)
<1>1. n \in Names /\ r.node[n] \in Nodes
  BY TypedObjects
<1>2. CASE listing # {}
  <2> DEFINE node == [r.node[n] EXCEPT !.dds = @ \cup listing,
                                       !.active = @ \/ live]
             t == [r.node EXCEPT ![n] = node]
  <2>1. listing \subseteq DDs
    BY TypedObjects DEF DDsListing
  <2>2. (r.node[n].active \/ live) \in BOOLEAN
    OBVIOUS
  <2>3. node \in Nodes
    <3> HIDE DEF live, listing
    <3> QED BY <1>1, <2>1, <2>2 DEF Nodes
  <2>4. IsTable(t, Names, Nodes)
    BY <2>3, TypedTables, UpdateTable
  <2>5. Typed([r EXCEPT !.node = t])
    BY <2>4, TypedUpdate
  <2>6. ActivateMembership(r, n) = [r EXCEPT !.node = t]
    BY <1>1, <1>2 DEF ActivateMembership, Typed, Nodes
  <2> QED BY <2>5, <2>6
<1>3. CASE listing = {} /\ default = {}
  <2> DEFINE t == [r.node EXCEPT ![n] = [@ EXCEPT !.active = TRUE]]
  <2>1. [r.node[n] EXCEPT !.active = TRUE] \in Nodes
    BY <1>1 DEF Nodes
  <2>2. IsTable(t, Names, Nodes)
    BY <2>1, TypedTables, UpdateTable
  <2>3. Typed([r EXCEPT !.node = t])
    BY <2>2, TypedUpdate
  <2>4. ActivateMembership(r, n) = [r EXCEPT !.node = t]
    BY <1>1, <1>3 DEF ActivateMembership, Typed
  <2> QED BY <2>3, <2>4
<1>4. CASE listing = {} /\ default # {}
  <2> DEFINE node == [r.node[n] EXCEPT !.dds = @ \cup {d}, !.active = TRUE]
             t == [r.node EXCEPT ![n] = node]
  <2>1. d \in DOMAIN r.dd
    BY <1>4
  <2>2. Typed(joined)
    BY <1>1, <2>1, AddDDMemberTyped
  <2>3. joined.node = r.node
    BY DEF AddDDMember, Typed
  <2> HIDE DEF joined
  <2>4. node \in Nodes
    BY ZenonT(60), <1>1, <2>1, TypedObjects DEF Nodes
  <2>5. IsTable(t, Names, Nodes)
    BY <2>4, TypedTables, UpdateTable
  <2>6. Typed([joined EXCEPT !.node = t])
    BY <2>2, <2>5, TypedUpdate
  <2>7. ActivateMembership(r, n) = [joined EXCEPT !.node = t]
    BY ZenonT(60), <1>1, <1>4, <2>2, <2>3
       DEF ActivateMembership, joined, Typed, Nodes
  <2> QED BY <2>6, <2>7
<1> QED BY <1>2, <1>3, <1>4

LEMMA RegisterNodeTyped ==
  ASSUME NEW r, Typed(r), NEW n \in Names, NEW e \in Entities,
         NEW replace \in BOOLEAN
  PROVE  Typed(RegisterNode(r, n, e, replace))
<1> DEFINE before  == IF replace THEN RemoveNode(r, n) ELSE r
           indexed == IF n \in DOMAIN before.idx THEN before
                      ELSE [before EXCEPT !.idx = Put(@, n, 0)]
           fresh   == [entity |-> e, active |-> FALSE, dds |-> {}]
           obj     == [indexed.entity[e] EXCEPT !.nodes = @ \cup {n}]
           entity  == [indexed.entity EXCEPT ![e] = obj]
           s1      == [indexed EXCEPT !.entity = entity]
           node    == Put(indexed.node, n, fresh)
           s2      == [s1 EXCEPT !.node = node]
<1>1. Typed(before) /\ DOMAIN before.entity = DOMAIN r.entity
  BY RemoveNodeTyped DEF RemoveNode, Typed
<1> HIDE DEF before
<1>2. Typed(indexed) /\ indexed.entity = before.entity
  <2>1. IsTable(Put(before.idx, n, 0), Names, Nat)
    BY <1>1, TypedTables, PutTable
  <2>2. Typed([before EXCEPT !.idx = Put(@, n, 0)])
    BY <1>1, <2>1, TypedUpdate
  <2> QED BY <1>1, <2>2 DEF Typed
<1> HIDE DEF indexed
<1>3. CASE n \in DOMAIN r.node /\ ~replace
  BY <1>3, ActivateMembershipTyped DEF RegisterNode
<1>4. CASE /\ ~(n \in DOMAIN r.node /\ ~replace)
           /\ e \notin DOMAIN r.entity \/ r.entity[e].type # "iscsi"
  <2>1. RegisterNode(r, n, e, replace) = indexed
    BY <1>4 DEF RegisterNode, indexed, before
  <2> QED BY <1>2, <2>1
<1>5. CASE /\ ~(n \in DOMAIN r.node /\ ~replace)
           /\ e \in DOMAIN r.entity /\ r.entity[e].type = "iscsi"
  <2>1. indexed.entity[e] \in EntityObjects
    BY <1>1, <1>2, <1>5, TypedObjects
  <2>2. obj \in EntityObjects
    BY <2>1 DEF EntityObjects
  <2>3. IsTable(entity, Entities, EntityObjects)
    BY <1>2, <2>2, TypedTables, UpdateTable
  <2>4. fresh \in Nodes
    BY DEF Nodes
  <2>5. IsTable(node, Names, Nodes)
    BY <1>2, <2>4, TypedTables, PutTable
  <2>6. Typed(s1)
    BY <1>2, <2>3, TypedUpdate
  <2>7. Typed(s2)
    BY <2>5, <2>6, TypedUpdate
  <2>8. s2 = [indexed EXCEPT !.entity[e].nodes = @ \cup {n},
                             !.node = Put(@, n, fresh)]
    BY <1>2, <2>1 DEF Typed, EntityObjects
  <2>9. n \in DOMAIN s2.node
    BY <1>2 DEF Typed, Put
  <2>10. RegisterNode(r, n, e, replace) = ActivateMembership(s2, n)
    <3> HIDE DEF s2
    <3> QED BY <1>5, <2>8 DEF RegisterNode, indexed, before
  <2> HIDE DEF s2
  <2> QED BY <2>7, <2>9, <2>10, ActivateMembershipTyped
<1> QED BY <1>3, <1>4, <1>5

LEMMA RemoveEntityTyped ==
  ASSUME NEW r, Typed(r), NEW e
  PROVE  Typed(RemoveEntity(r, e))
<1> DEFINE nodes == IF r.entity[e].type = "iscsi" THEN r.entity[e].nodes ELSE {}
           idx  == [n \in {x \in DOMAIN r.idx : x \in nodes => r.idx[x] # 0} |->
                      r.idx[n]]
           node == [n \in DOMAIN r.node \ nodes |-> r.node[n]]
           s1   == [r EXCEPT !.idx = idx]
           s2   == [s1 EXCEPT !.node = node]
           s3   == [s2 EXCEPT !.entity = Drop(r.entity, e)]
<1>1. /\ IsTable(idx, Names, Nat)
      /\ IsTable(node, Names, Nodes)
      /\ IsTable(Drop(r.entity, e), Entities, EntityObjects)
  <2> HIDE DEF nodes
  <2>1. IsTable(idx, Names, Nat)
    BY TypedObjects DEF IsTable
  <2>2. IsTable(node, Names, Nodes)
    BY TypedObjects DEF IsTable
  <2>3. IsTable(Drop(r.entity, e), Entities, EntityObjects)
    BY TypedTables, DropTable
  <2> QED BY <2>1, <2>2, <2>3
<1>2. Typed(s1)
  BY <1>1, TypedUpdate
<1>3. Typed(s2)
  BY <1>1, <1>2, TypedUpdate
<1>4. Typed(s3)
  BY <1>1, <1>3, TypedUpdate
<1>5. RemoveEntity(r, e) \in {r, s3}
  BY DEF RemoveEntity, Typed
<1> HIDE DEF s3
<1> QED BY <1>4, <1>5

LEMMA RegisterEntityTyped ==
  ASSUME NEW r, Typed(r), NEW m \in EntityRequests
  PROVE  Typed(RegisterEntity(r, m))
<1> DEFINE e      == m.entity
           before == IF m.replace /\ m.same THEN RemoveEntity(r, e) ELSE r
           old    == IF e \in DOMAIN before.entity THEN before.entity[e]
                     ELSE [type |-> "none", nodes |-> {}]
           type   == IF m.type = "none" THEN old.type ELSE m.type
           obj    == [old EXCEPT !.type = type]
<1>1. e \in Entities /\ m.type \in EntityTypes
  BY DEF EntityRequests
<1>2. Typed(before)
  BY RemoveEntityTyped
<1> HIDE DEF before
<1>3. old \in EntityObjects
  BY <1>2, TypedObjects DEF EntityObjects, EntityTypes
<1> HIDE DEF old
<1>4. obj \in EntityObjects
  BY <1>1, <1>3 DEF EntityObjects
<1>5. IsTable(Put(before.entity, e, obj), Entities, EntityObjects)
  BY <1>1, <1>2, <1>4, TypedTables, PutTable
<1>6. Typed([before EXCEPT !.entity = Put(@, e, obj)])
  BY <1>2, <1>5, TypedUpdate
<1>7. RegisterEntity(r, m) \in
        {before, [before EXCEPT !.entity = Put(@, e, obj)]}
  BY DEF RegisterEntity, before, old
<1> QED BY <1>2, <1>6, <1>7

(***************************************************************************)
(* The theorem.                                                            *)
(***************************************************************************)

LEMMA InitTyped == Init => TypeOK
<1> SUFFICES ASSUME NEW d \in DDs, NEW s \in DDSs, up = TRUE,
               db = [entity |-> Empty, node |-> Empty, idx |-> Empty,
                     dd  |-> Put(Empty, d, [sym |-> DefaultSym, active |-> TRUE,
                                            members |-> <<>>, dds |-> <<s>>]),
                     dds |-> Put(Empty, s, [sym |-> DefaultDDSSym,
                                            status |-> TRUE, dds |-> <<d>>])]
             PROVE  TypeOK
  BY DEF Init
<1>1. \A K, V : IsTable(Empty, K, V)
  BY DEF IsTable, Empty
<1>2. [sym |-> DefaultSym, active |-> TRUE, members |-> <<>>, dds |-> <<s>>]
        \in DDObjects
  BY SymAssumption DEF DDObjects
<1>3. [sym |-> DefaultDDSSym, status |-> TRUE, dds |-> <<d>>] \in DDSObjects
  BY SymAssumption DEF DDSObjects
<1> QED BY <1>1, <1>2, <1>3, PutTable DEF TypeOK, Typed

LEMMA RequestTyped ==
  ASSUME Typed(db), Request \/ CrashInRegDDS
  PROVE  Typed(db')
<1>1. CASE RegEntity
  BY <1>1, RegisterEntityTyped, RequestAssumption DEF RegEntity
<1>2. CASE DeregEntity
  BY <1>2, RemoveEntityTyped DEF DeregEntity
<1>3. CASE RegNode
  BY <1>3, RegisterNodeTyped DEF RegNode
<1>4. CASE DeregNode
  BY <1>4, RemoveNodeTyped DEF DeregNode
<1>5. CASE RegDD
  BY <1>5, RegisterDDTyped, RequestAssumption DEF RegDD
<1>6. CASE DeregDDMember
  BY <1>6, DeregisterDDMemberTyped DEF DeregDDMember
<1>7. CASE DeregDD
  BY <1>7, DeregisterDDTyped DEF DeregDD
<1>8. CASE RegDDS
  BY <1>8, RegisterDDSResultsTyped, RequestAssumption DEF RegDDS
<1>9. CASE DeregDDSMember
  BY <1>9, DeregisterDDSMemberTyped DEF DeregDDSMember
<1>10. CASE DeregDDS
  BY <1>10, DeregisterDDSTyped DEF DeregDDS
<1>11. CASE CrashInRegDDS
  BY <1>11, RegisterDDSResultsTyped, RequestAssumption DEF CrashInRegDDS
<1> QED BY <1>1, <1>2, <1>3, <1>4, <1>5, <1>6, <1>7, <1>8, <1>9, <1>10, <1>11
        DEF Request

\* The tables stay well typed whatever the requests; no reference count of an
\* index becomes negative (ISNSdbExec and every handler it calls).
THEOREM TypeCorrect == Spec => []TypeOK
<1>1. TypeOK /\ [Next]_vars => TypeOK'
  <2> SUFFICES ASSUME TypeOK, [Next]_vars PROVE TypeOK'
    OBVIOUS
  <2>1. CASE Next
    <3>1. up' \in BOOLEAN
      BY <2>1 DEF Next, Request, Serving, RegEntity, DeregEntity, RegNode,
                  DeregNode, RegDD, DeregDDMember, DeregDD, RegDDS,
                  DeregDDSMember, DeregDDS, CrashInRegDDS
    <3> QED BY <2>1, <3>1, RequestTyped DEF TypeOK, Next
  <2>2. CASE UNCHANGED vars
    BY <2>2 DEF TypeOK, Typed, vars
  <2> QED BY <2>1, <2>2
<1> QED BY InitTyped, <1>1, PTL DEF Spec

-----------------------------------------------------------------------------
(***************************************************************************)
(* The index of names and its reference counts: no handler frees an index  *)
(* that is in use.  The inductive invariant adds to Indexed that no DD     *)
(* lists a name twice: a removal takes one member out and gives one        *)
(* reference back, so a second member of the same name would be left with  *)
(* a count that is too low.                                                *)
(***************************************************************************)

Sound(r) ==
  Typed(r) /\ UniqueMembers(r) /\ NodesIndexed(r) /\ MembersIndexed(r)

\* The tables r and s agree on everything that Sound is about.
SameMembers(r, s) ==
  /\ DOMAIN s.dd = DOMAIN r.dd
  /\ \A d \in DOMAIN r.dd : s.dd[d].members = r.dd[d].members
  /\ s.idx = r.idx
  /\ DOMAIN s.node = DOMAIN r.node

LEMMA SameMembersSound ==
  ASSUME NEW r, NEW s, Sound(r), Typed(s), SameMembers(r, s)
  PROVE  Sound(s)
<1>1. \A n : DDsListing(s, n) = DDsListing(r, n)
  BY DEF DDsListing, SameMembers
<1> QED
  BY <1>1 DEF Sound, SameMembers, UniqueMembers, NodesIndexed, MembersIndexed

LEMMA SameMembersTransitive ==
  ASSUME NEW r, NEW s, NEW t, SameMembers(r, s), SameMembers(s, t)
  PROVE  SameMembers(r, t)
BY DEF SameMembers

\* The DDs that list a name are finitely many.
LEMMA ListingFinite ==
  ASSUME NEW r, Typed(r), NEW n
  PROVE  /\ IsFiniteSet(DDsListing(r, n))
         /\ Cardinality(DDsListing(r, n)) \in Nat
<1>1. DDsListing(r, n) \subseteq DDs
  BY TypedObjects DEF DDsListing
<1> QED BY <1>1, IdAssumption, FS_Subset, FS_CardinalityType

(***************************************************************************)
(* Lists of members.                                                       *)
(***************************************************************************)

LEMMA MembersOf ==
  ASSUME NEW r, Typed(r), NEW d \in DOMAIN r.dd
  PROVE  /\ r.dd[d].members \in Seq(Members)
         /\ DOMAIN r.dd[d].members = 1..Len(r.dd[d].members)
         /\ Len(r.dd[d].members) \in Nat
<1>1. r.dd[d].members \in Seq(Members)
  BY TypedObjects DEF DDObjects
<1> QED BY <1>1, LenProperties

\* Taking out one member of a list without duplicates takes its name out.
LEMMA RemoveMemberNames ==
  ASSUME NEW s \in Seq(Members), NEW i \in 1..Len(s),
         \A j, k \in DOMAIN s : s[j].name = s[k].name => j = k
  PROVE  /\ MemberNames(RemoveAt(s, i)) = MemberNames(s) \ {s[i].name}
         /\ \A j, k \in DOMAIN RemoveAt(s, i) :
              RemoveAt(s, i)[j].name = RemoveAt(s, i)[k].name => j = k
<1> DEFINE t == RemoveAt(s, i)
<1>1. Len(s) \in Nat /\ DOMAIN s = 1..Len(s)
  BY LenProperties
<1>2. /\ t \in Seq(Members)
      /\ Len(t) = Len(s) - 1
      /\ \A k \in 1..(Len(s) - 1) : t[k] = IF k < i THEN s[k] ELSE s[k + 1]
  BY RemoveAtElements
<1>3. DOMAIN t = 1..(Len(s) - 1)
  BY <1>2, LenProperties
<1> HIDE DEF t
<1>4. ASSUME NEW j \in DOMAIN t
      PROVE  \E k \in DOMAIN s \ {i} : t[j] = s[k]
  BY <1>1, <1>2, <1>3, <1>4
<1>5. ASSUME NEW k \in DOMAIN s \ {i}
      PROVE  \E j \in DOMAIN t : t[j] = s[k]
  <2>1. CASE k < i
    BY <1>1, <1>2, <1>3, <2>1
  <2>2. CASE k > i
    <3>1. k - 1 \in DOMAIN t /\ t[k - 1] = s[k]
      BY <1>1, <1>2, <1>3, <2>2
    <3> QED BY <3>1
  <2> QED BY <1>1, <2>1, <2>2
<1>6. MemberNames(t) = MemberNames(s) \ {s[i].name}
  BY <1>1, <1>4, <1>5 DEF MemberNames
<1>7. ASSUME NEW j \in DOMAIN t, NEW k \in DOMAIN t, t[j].name = t[k].name
      PROVE  j = k
  <2> DEFINE at(x) == IF x < i THEN x ELSE x + 1
  <2>1. ASSUME NEW x \in DOMAIN t PROVE at(x) \in DOMAIN s /\ t[x] = s[at(x)]
    BY <1>1, <1>2, <1>3
  <2>2. at(j) = at(k)
    <3> HIDE DEF at
    <3> QED BY <1>7, <2>1
  <2> QED BY <1>1, <1>3, <2>2
<1> QED BY <1>6, <1>7 DEF t

LEMMA AppendMemberNames ==
  ASSUME NEW s \in Seq(Members), NEW x \in Members, x.name \notin MemberNames(s),
         \A j, k \in DOMAIN s : s[j].name = s[k].name => j = k
  PROVE  /\ MemberNames(Append(s, x)) = MemberNames(s) \cup {x.name}
         /\ \A j, k \in DOMAIN Append(s, x) :
              Append(s, x)[j].name = Append(s, x)[k].name => j = k
<1>1. Len(s) \in Nat /\ DOMAIN s = 1..Len(s)
  BY LenProperties
<1>2. /\ DOMAIN Append(s, x) = 1..(Len(s) + 1)
      /\ Append(s, x)[Len(s) + 1] = x
      /\ \A k \in 1..Len(s) : Append(s, x)[k] = s[k]
  BY <1>1
<1> DEFINE t == Append(s, x)
<1> HIDE DEF t
<1>3. MemberNames(t) = MemberNames(s) \cup {x.name}
  BY <1>1, <1>2 DEF MemberNames, t
<1>4. ASSUME NEW j \in DOMAIN t, NEW k \in DOMAIN t, t[j].name = t[k].name
      PROVE  j = k
  BY <1>1, <1>2, <1>4 DEF MemberNames, t
<1> QED BY <1>3, <1>4 DEF t

(***************************************************************************)
(* Adding and removing members.                                            *)
(***************************************************************************)

LEMMA AddDDToNodeSame ==
  ASSUME NEW r, Typed(r), NEW d, NEW n
  PROVE  SameMembers(r, AddDDToNode(r, d, n)) /\ AddDDToNode(r, d, n).dd = r.dd
BY DEF SameMembers, AddDDToNode, Typed

LEMMA RemoveDDFromNodeSame ==
  ASSUME NEW r, Typed(r), NEW d, NEW n
  PROVE  /\ SameMembers(r, RemoveDDFromNode(r, d, n))
         /\ RemoveDDFromNode(r, d, n).dd = r.dd
BY DEF SameMembers, RemoveDDFromNode, Typed

\* What a new member adds to the lists.
LEMMA AddDDMemberListing ==
  ASSUME NEW r, Typed(r), UniqueMembers(r), NEW d \in DOMAIN r.dd,
         NEW n \in Names, NEW enabled \in BOOLEAN
  PROVE  /\ UniqueMembers(AddDDMember(r, d, n, enabled))
         /\ AddDDMember(r, d, n, enabled).node = r.node
         /\ AddDDMember(r, d, n, enabled).entity = r.entity
         /\ \A x \in Names \ {n} :
              DDsListing(AddDDMember(r, d, n, enabled), x) = DDsListing(r, x)
         /\ DDsListing(AddDDMember(r, d, n, enabled), n)
              \subseteq DDsListing(r, n) \cup {d}
<1> DEFINE new == [name |-> n, enabled |-> enabled]
           old == r.dd[d].members
           s   == AddDDMember(r, d, n, enabled)
<1>1. CASE \E m \in MemberNames(old) : <<n, m>> \in Prefix
  BY <1>1 DEF AddDDMember
<1>2. CASE ~ \E m \in MemberNames(old) : <<n, m>> \in Prefix
  <2>1. n \notin MemberNames(old) /\ r.dd[d] \in DDObjects
    BY <1>2, NameAssumption, TypedObjects
  <2>2. /\ s.node = r.node /\ s.entity = r.entity
        /\ DOMAIN s.dd = DOMAIN r.dd
        /\ s.dd[d].members = Append(old, new)
        /\ \A x \in DOMAIN r.dd \ {d} : s.dd[x] = r.dd[x]
    BY <1>2, <2>1 DEF AddDDMember, Typed, DDObjects
  <2> HIDE DEF s
  <2>3. /\ MemberNames(Append(old, new)) = MemberNames(old) \cup {n}
        /\ \A j, k \in DOMAIN Append(old, new) :
             Append(old, new)[j].name = Append(old, new)[k].name => j = k
    <3>1. old \in Seq(Members) /\ new \in Members /\ new.name = n
      BY MembersOf DEF Members
    <3>2. \A j, k \in DOMAIN old : old[j].name = old[k].name => j = k
      BY DEF UniqueMembers
    <3> HIDE DEF new, old
    <3> QED BY <2>1, <3>1, <3>2, AppendMemberNames
  <2> HIDE DEF new
  <2>4. UniqueMembers(s)
    BY <2>2, <2>3 DEF UniqueMembers
  <2>5. /\ \A x \in Names \ {n} : DDsListing(s, x) = DDsListing(r, x)
        /\ DDsListing(s, n) \subseteq DDsListing(r, n) \cup {d}
    BY <2>2, <2>3 DEF DDsListing
  <2> QED BY <2>2, <2>4, <2>5 DEF s
<1> QED BY <1>1, <1>2

LEMMA AddDDMemberSound ==
  ASSUME NEW r, Sound(r), NEW d \in DOMAIN r.dd, NEW n \in Names,
         NEW enabled \in BOOLEAN
  PROVE  /\ Sound(AddDDMember(r, d, n, enabled))
         /\ AddDDMember(r, d, n, enabled).node = r.node
         /\ AddDDMember(r, d, n, enabled).entity = r.entity
<1> DEFINE old == r.dd[d].members
           s   == AddDDMember(r, d, n, enabled)
           L   == DDsListing(r, n)
<1>1. CASE \E m \in MemberNames(old) : <<n, m>> \in Prefix
  BY <1>1 DEF AddDDMember
<1>2. CASE ~ \E m \in MemberNames(old) : <<n, m>> \in Prefix
  <2>1. /\ Typed(s) /\ UniqueMembers(s)
        /\ s.node = r.node /\ s.entity = r.entity
        /\ \A x \in Names \ {n} : DDsListing(s, x) = DDsListing(r, x)
        /\ DDsListing(s, n) \subseteq L \cup {d}
    BY AddDDMemberTyped, AddDDMemberListing DEF Sound
  <2>2. s.idx = Put(r.idx, n, IF n \in DOMAIN r.idx THEN r.idx[n] + 1 ELSE 1)
    BY <1>2 DEF AddDDMember, Sound, Typed
  <2> HIDE DEF s
  <2>3. /\ DOMAIN s.idx = DOMAIN r.idx \cup {n}
        /\ s.idx[n] = IF n \in DOMAIN r.idx THEN r.idx[n] + 1 ELSE 1
        /\ \A x \in DOMAIN r.idx \ {n} : s.idx[x] = r.idx[x]
    BY <2>2 DEF Put
  <2>4. NodesIndexed(s)
    BY <2>1, <2>3 DEF NodesIndexed, Sound
  <2>5. ASSUME NEW x \in Names \ {n}, DDsListing(s, x) # {}
        PROVE  x \in DOMAIN s.idx /\ Cardinality(DDsListing(s, x)) <= s.idx[x]
    BY <2>1, <2>3, <2>5 DEF Sound, MembersIndexed
  <2>6. Cardinality(DDsListing(s, n)) <= s.idx[n]
    <3>1. IsFiniteSet(L) /\ Cardinality(L) \in Nat
      BY ListingFinite DEF Sound
    <3>2. Cardinality(DDsListing(s, n)) \in Nat
      BY <2>1, ListingFinite
    <3>3. /\ IsFiniteSet(L \cup {d})
          /\ Cardinality(L \cup {d}) =
               IF d \in L THEN Cardinality(L) ELSE Cardinality(L) + 1
      <4> HIDE DEF L
      <4> QED BY <3>1, FS_AddElement
    <3>4. Cardinality(DDsListing(s, n)) <= Cardinality(L \cup {d})
      BY <2>1, <3>3, FS_Subset
    <3>5. /\ L # {} => n \in DOMAIN r.idx /\ Cardinality(L) <= r.idx[n]
          /\ n \in DOMAIN r.idx => r.idx[n] \in Nat
      BY TypedObjects DEF Sound, MembersIndexed
    <3>6. L = {} => Cardinality(L) = 0
      BY FS_EmptySet
    <3> HIDE DEF L
    <3> QED BY <2>3, <3>1, <3>2, <3>3, <3>4, <3>5, <3>6
  <2>7. MembersIndexed(s)
    BY <2>3, <2>5, <2>6 DEF MembersIndexed
  <2> QED BY <2>1, <2>4, <2>7 DEF Sound, s
<1> QED BY <1>1, <1>2

LEMMA JoinDDSound ==
  ASSUME NEW r, Sound(r), NEW d \in DOMAIN r.dd, NEW n \in Names
  PROVE  Sound(JoinDD(r, d, n))
<1> DEFINE s == AddDDToNode(r, d, n)
<1>1. Sound(s) /\ d \in DOMAIN s.dd
  BY AddDDToNodeSame, AddDDToNodeTyped, SameMembersSound DEF Sound
<1>2. (n \in DOMAIN r.node) \in BOOLEAN
  OBVIOUS
<1> HIDE DEF s
<1>3. Sound(AddDDMember(s, d, n, n \in DOMAIN r.node))
  BY <1>1, <1>2, AddDDMemberSound
<1> QED BY <1>3 DEF JoinDD, s

\* The members "names" leave the DD d and their references are given back.
LEMMA ReleaseSound ==
  ASSUME NEW r, Sound(r), NEW d \in DOMAIN r.dd,
         NEW names, names \subseteq MemberNames(r.dd[d].members),
         NEW s, Typed(s), s.idx = ReleaseIdx(r, names),
         DOMAIN s.node = DOMAIN r.node,
         \A n \in names : DDsListing(s, n) = DDsListing(r, n) \ {d},
         \A n \in Names \ names : DDsListing(s, n) = DDsListing(r, n)
  PROVE  NodesIndexed(s) /\ MembersIndexed(s)
<1>1. NodesIndexed(s)
  BY DEF ReleaseIdx, NodesIndexed, Sound
<1>2. ASSUME NEW n \in Names, DDsListing(s, n) # {}
      PROVE  n \in DOMAIN s.idx /\ Cardinality(DDsListing(s, n)) <= s.idx[n]
  <2>1. DDsListing(r, n) # {}
    BY <1>2
  <2>2. n \in DOMAIN r.idx /\ Cardinality(DDsListing(r, n)) <= r.idx[n]
    BY <2>1 DEF Sound, MembersIndexed
  <2>3. CASE n \notin names
    BY <2>2, <2>3 DEF ReleaseIdx
  <2>4. CASE n \in names
    <3>1. d \in DDsListing(r, n)
      BY <2>4 DEF DDsListing
    <3>2. /\ IsFiniteSet(DDsListing(r, n))
          /\ Cardinality(DDsListing(r, n)) \in Nat
          /\ IsFiniteSet(DDsListing(s, n))
          /\ Cardinality(DDsListing(s, n)) \in Nat
      BY ListingFinite DEF Sound
    <3>3. Cardinality(DDsListing(s, n)) = Cardinality(DDsListing(r, n)) - 1
      BY <2>4, <3>1, <3>2, FS_RemoveElement
    <3>4. Cardinality(DDsListing(s, n)) # 0
      BY <1>2, <3>2, FS_EmptySet
    <3>5. r.idx[n] \in Nat
      BY <2>2, TypedObjects DEF Sound
    <3>6. r.idx[n] > 1
      BY <2>2, <3>2, <3>3, <3>4, <3>5
    <3>7. n \in DOMAIN s.idx /\ s.idx[n] = r.idx[n] - 1
      BY <2>2, <2>4, <3>5, <3>6 DEF ReleaseIdx
    <3> QED BY <2>2, <3>2, <3>3, <3>5, <3>7
  <2> QED BY <2>3, <2>4
<1> QED BY <1>1, <1>2 DEF MembersIndexed

\* The one member of that name leaves the DD.
LEMMA RemoveDDMemberListing ==
  ASSUME NEW r, Typed(r), UniqueMembers(r), NEW d \in DOMAIN r.dd,
         NEW n \in Names
  PROVE  /\ UniqueMembers(RemoveDDMember(r, d, n))
         /\ RemoveDDMember(r, d, n).node = r.node
         /\ DDsListing(RemoveDDMember(r, d, n), n) = DDsListing(r, n) \ {d}
         /\ \A x \in Names \ {n} :
              DDsListing(RemoveDDMember(r, d, n), x) = DDsListing(r, x)
<1> DEFINE old == r.dd[d].members
           i   == CHOOSE k \in DOMAIN old : old[k].name = n
           s   == RemoveDDMember(r, d, n)
<1>1. CASE n \notin MemberNames(old)
  BY <1>1 DEF RemoveDDMember, DDsListing
<1>2. CASE n \in MemberNames(old)
  <2>1. r.dd[d] \in DDObjects
    BY TypedObjects
  <2>2. old \in Seq(Members) /\ i \in 1..Len(old) /\ old[i].name = n
    BY <1>2, MembersOf DEF MemberNames
  <2>3. /\ s.node = r.node
        /\ DOMAIN s.dd = DOMAIN r.dd
        /\ s.dd[d].members = RemoveAt(old, i)
        /\ \A x \in DOMAIN r.dd \ {d} : s.dd[x] = r.dd[x]
    BY <1>2, <2>1 DEF RemoveDDMember, Typed, DDObjects
  <2>4. /\ MemberNames(RemoveAt(old, i)) = MemberNames(old) \ {n}
        /\ \A j, k \in DOMAIN RemoveAt(old, i) :
             RemoveAt(old, i)[j].name = RemoveAt(old, i)[k].name => j = k
    <3>1. \A j, k \in DOMAIN old : old[j].name = old[k].name => j = k
      BY DEF UniqueMembers
    <3> HIDE DEF i, old
    <3> QED BY <2>2, <3>1, RemoveMemberNames
  <2> HIDE DEF s, i
  <2>5. UniqueMembers(s)
    BY <2>3, <2>4 DEF UniqueMembers
  <2>6. /\ DDsListing(s, n) = DDsListing(r, n) \ {d}
        /\ \A x \in Names \ {n} : DDsListing(s, x) = DDsListing(r, x)
    BY <2>3, <2>4 DEF DDsListing
  <2> QED BY <2>3, <2>5, <2>6 DEF s
<1> QED BY <1>1, <1>2

LEMMA RemoveDDMemberSound ==
  ASSUME NEW r, Sound(r), NEW d \in DOMAIN r.dd, NEW n \in Names
  PROVE  Sound(RemoveDDMember(r, d, n))
<1> DEFINE s == RemoveDDMember(r, d, n)
<1>1. CASE n \notin MemberNames(r.dd[d].members)
  BY <1>1 DEF RemoveDDMember
<1>2. CASE n \in MemberNames(r.dd[d].members)
  <2>1. /\ Typed(s) /\ UniqueMembers(s) /\ s.node = r.node
        /\ DDsListing(s, n) = DDsListing(r, n) \ {d}
        /\ \A x \in Names \ {n} : DDsListing(s, x) = DDsListing(r, x)
    BY RemoveDDMemberTyped, RemoveDDMemberListing DEF Sound
  <2>2. s.idx = ReleaseIdx(r, {n})
    BY <1>2 DEF RemoveDDMember, Sound, Typed
  <2> HIDE DEF s
  <2>3. NodesIndexed(s) /\ MembersIndexed(s)
    <3>1. {n} \subseteq MemberNames(r.dd[d].members)
      BY <1>2
    <3>2. /\ \A x \in {n} : DDsListing(s, x) = DDsListing(r, x) \ {d}
          /\ \A x \in Names \ {n} : DDsListing(s, x) = DDsListing(r, x)
      BY <2>1
    <3> QED BY <2>1, <2>2, <3>1, <3>2, ReleaseSound
  <2> QED BY <2>1, <2>3 DEF Sound, s
<1> QED BY <1>1, <1>2

LEMMA DeregisterDDMemberSound ==
  ASSUME NEW r, Sound(r), NEW d, NEW a \in MemberAttrs
  PROVE  Sound(DeregisterDDMember(r, d, a))
<1> DEFINE s == RemoveDDFromNode(r, d, AttrName(a))
<1>1. AttrName(a) \in Names
  BY AttrNameType
<1>2. Sound(s) /\ s.dd = r.dd
  BY <1>1, RemoveDDFromNodeSame, RemoveDDFromNodeTyped, SameMembersSound
     DEF Sound
<1> HIDE DEF s
<1>3. CASE d \in DOMAIN r.dd
  <2>1. Sound(RemoveDDMember(s, d, AttrName(a)))
    BY <1>1, <1>2, <1>3, RemoveDDMemberSound
  <2> QED BY <2>1 DEF DeregisterDDMember, s
<1>4. CASE d \notin DOMAIN r.dd
  BY <1>4 DEF DeregisterDDMember
<1> QED BY <1>3, <1>4

\* Losing a DD, with what it lists, loses no index.
LEMMA FewerDDsSound ==
  ASSUME NEW r, Sound(r), NEW s, Typed(s), s.idx = r.idx,
         DOMAIN s.node = DOMAIN r.node, DOMAIN s.dd \subseteq DOMAIN r.dd,
         \A d \in DOMAIN s.dd : s.dd[d].members = r.dd[d].members
  PROVE  Sound(s)
<1>1. UniqueMembers(s) /\ NodesIndexed(s)
  BY DEF UniqueMembers, NodesIndexed, Sound
<1>2. ASSUME NEW n \in Names, DDsListing(s, n) # {}
      PROVE  n \in DOMAIN s.idx /\ Cardinality(DDsListing(s, n)) <= s.idx[n]
  <2>1. DDsListing(s, n) \subseteq DDsListing(r, n)
    BY DEF DDsListing
  <2>2. n \in DOMAIN r.idx /\ Cardinality(DDsListing(r, n)) <= r.idx[n]
    BY <1>2, <2>1 DEF Sound, MembersIndexed
  <2>3. /\ IsFiniteSet(DDsListing(r, n))
        /\ Cardinality(DDsListing(r, n)) \in Nat
        /\ Cardinality(DDsListing(s, n)) \in Nat
    BY ListingFinite DEF Sound
  <2>4. Cardinality(DDsListing(s, n)) <= Cardinality(DDsListing(r, n))
    BY <2>1, <2>3, FS_Subset
  <2>5. r.idx[n] \in Nat
    BY <2>2, TypedObjects DEF Sound
  <2> QED BY <2>2, <2>3, <2>4, <2>5
<1> QED BY <1>1, <1>2 DEF Sound, MembersIndexed

(***************************************************************************)
(* Discovery Domains.                                                      *)
(***************************************************************************)

LEMMA JoinDDOthers ==
  ASSUME NEW r, Typed(r), NEW d \in DOMAIN r.dd, NEW n,
         NEW x \in DOMAIN r.dd \ {d}
  PROVE  JoinDD(r, d, n).dd[x] = r.dd[x]
<1>1. AddDDToNode(r, d, n).dd = r.dd
  BY AddDDToNodeSame
<1>2. ASSUME NEW s, NEW e, s.dd = r.dd
      PROVE  AddDDMember(s, d, n, e).dd[x] = r.dd[x]
  BY <1>2 DEF AddDDMember
<1> QED BY <1>1, <1>2 DEF JoinDD

LEMMA JoinDDNodes ==
  ASSUME NEW r, Typed(r), NEW d, NEW n
  PROVE  DOMAIN JoinDD(r, d, n).node = DOMAIN r.node
<1>1. DOMAIN AddDDToNode(r, d, n).node = DOMAIN r.node
  BY AddDDToNodeSame DEF SameMembers
<1>2. ASSUME NEW s, NEW e PROVE AddDDMember(s, d, n, e).node = s.node
  BY DEF AddDDMember
<1> QED BY <1>1, <1>2 DEF JoinDD

\* A DD without members is written into the table.
LEMMA NewDDSound ==
  ASSUME NEW r, Sound(r), NEW d \in DDs \ DOMAIN r.dd,
         NEW new \in DDObjects, new.members = <<>>,
         NEW s, Typed(s), s.idx = r.idx, s.node = r.node,
         s.dd = Put(r.dd, d, new)
  PROVE  /\ Sound(s)
         /\ DOMAIN s.dd = DOMAIN r.dd \cup {d}
         /\ s.dd[d] = new
         /\ \A x \in DOMAIN r.dd : s.dd[x] = r.dd[x]
         /\ \A n : DDsListing(s, n) = DDsListing(r, n)
<1>1. /\ DOMAIN s.dd = DOMAIN r.dd \cup {d}
      /\ s.dd[d] = new
      /\ \A x \in DOMAIN r.dd : s.dd[x] = r.dd[x]
  BY DEF Put
<1>2. \A n : DDsListing(s, n) = DDsListing(r, n)
  <2>1. MemberNames(<<>>) = {}
    BY DEF MemberNames
  <2> QED BY <1>1, <2>1 DEF DDsListing
<1>3. UniqueMembers(s)
  BY <1>1 DEF UniqueMembers, Sound
<1>4. Sound(s)
  BY <1>2, <1>3 DEF Sound, NodesIndexed, MembersIndexed
<1> QED BY <1>1, <1>2, <1>4

LEMMA RegisterDDSound ==
  ASSUME NEW r, Sound(r), NEW m \in DDRequests
  PROVE  Sound(RegisterDD(r, m))
<1> DEFINE d        == m.dd
           exists   == d \in DOMAIN r.dd
           new      == [sym |-> IF m.sym = NoSym THEN m.auto ELSE NoSym,
                        active |-> FALSE, members |-> <<>>, dds |-> <<>>]
           start    == IF exists THEN r ELSE [r EXCEPT !.dd = Put(@, d, new)]
           unknown  == m.member # <<>> /\ ~AttrKnown(r, m.member[1])
           joined   == IF m.member = <<>> \/ unknown THEN start
                       ELSE JoinDD(start, d, AttrName(m.member[1]))
           undone   == [joined EXCEPT !.dd = r.dd]
           named    == [joined.dd[d] EXCEPT !.sym = NameRead(m)]
           renamed  == [joined EXCEPT !.dd = [@ EXCEPT ![d] = named]]
<1>1. /\ d \in DDs
      /\ m.auto \in Syms /\ NameRead(m) \in Syms \cup {NoSym}
      /\ m.member # <<>> => m.member[1] \in MemberAttrs
  BY RequestNames DEF DDRequests
<1>2. /\ Sound(start)
      /\ d \in DOMAIN start.dd
      /\ DOMAIN start.node = DOMAIN r.node
      /\ \A x \in DOMAIN r.dd \ {d} : x \in DOMAIN start.dd /\ start.dd[x] = r.dd[x]
  <2>1. CASE exists
    BY <2>1
  <2>2. CASE ~exists
    <3> DEFINE x == [r EXCEPT !.dd = Put(@, d, new)]
    <3>1. new \in DDObjects /\ new.members = <<>>
      BY <1>1, SymAssumption, EmptySeq DEF DDObjects
    <3> HIDE DEF new
    <3>2. d \in DDs \ DOMAIN r.dd
      BY <1>1, <2>2
    <3> HIDE DEF d
    <3>3. IsTable(Put(r.dd, d, new), DDs, DDObjects)
      BY <3>1, <3>2, TypedTables, PutTable DEF Sound
    <3>4. Typed(x)
      BY <3>3, TypedUpdate DEF Sound
    <3>5. x.idx = r.idx /\ x.node = r.node /\ x.dd = Put(r.dd, d, new)
      BY DEF Sound, Typed
    <3>6. start = x
      BY <2>2
    <3> HIDE DEF x, start
    <3>7. Sound(x)
      BY <3>1, <3>2, <3>4, <3>5, NewDDSound
    <3>8. /\ DOMAIN x.dd = DOMAIN r.dd \cup {d}
          /\ \A y \in DOMAIN r.dd : x.dd[y] = r.dd[y]
      BY <3>2, <3>5 DEF Put
    <3> QED BY <3>5, <3>6, <3>7, <3>8
  <2> QED BY <2>1, <2>2
<1> HIDE DEF start
<1>3. /\ Sound(joined)
      /\ d \in DOMAIN joined.dd
      /\ DOMAIN joined.node = DOMAIN r.node
      /\ \A x \in DOMAIN r.dd \ {d} : x \in DOMAIN joined.dd /\ joined.dd[x] = r.dd[x]
  <2>1. CASE m.member = <<>> \/ unknown
    BY <1>2, <2>1
  <2>2. CASE m.member # <<>> /\ ~unknown
    <3> DEFINE n == AttrName(m.member[1])
    <3>1. n \in Names
      BY <1>1, <2>2, AttrNameType
    <3>2. joined = JoinDD(start, d, n)
      BY <2>2
    <3> HIDE DEF n, joined
    <3>3. Typed(start)
      BY <1>2 DEF Sound
    <3>4. DOMAIN joined.dd = DOMAIN start.dd
      BY <1>2, <3>2, <3>3, JoinDDKeepsDDs
    <3>5. Sound(joined)
      BY <1>2, <3>1, <3>2, JoinDDSound
    <3>6. DOMAIN joined.node = DOMAIN r.node
      BY <1>2, <3>2, <3>3, JoinDDNodes
    <3>7. \A x \in DOMAIN start.dd \ {d} : joined.dd[x] = start.dd[x]
      BY <1>2, <3>2, <3>3, JoinDDOthers
    <3> QED BY <1>2, <3>4, <3>5, <3>6, <3>7
  <2> QED BY <2>1, <2>2
<1> HIDE DEF joined
<1>4. ASSUME ~exists PROVE Sound(undone)
  <2>1. Typed(undone)
    BY <1>3, TypedTables, TypedUpdate DEF Sound
  <2>2. /\ undone.idx = joined.idx /\ undone.node = joined.node
        /\ undone.dd = r.dd
    BY <1>3 DEF Sound, Typed
  <2> HIDE DEF undone
  <2>3. \A x \in DOMAIN undone.dd : /\ x \in DOMAIN joined.dd
                                    /\ undone.dd[x].members = joined.dd[x].members
    BY <1>3, <1>4, <2>2
  <2> QED BY <1>3, <2>1, <2>2, <2>3, FewerDDsSound
<1>5. Sound(renamed)
  <2>1. joined.dd[d] \in DDObjects /\ Typed(joined)
    BY <1>3, TypedObjects DEF Sound
  <2>2. named \in DDObjects /\ named.members = joined.dd[d].members
    BY <1>1, <2>1 DEF DDObjects
  <2> HIDE DEF named
  <2>3. IsTable([joined.dd EXCEPT ![d] = named], DDs, DDObjects)
    BY <2>1, <2>2, TypedTables, UpdateTable
  <2>4. Typed(renamed)
    BY <2>1, <2>3, TypedUpdate
  <2>5. SameMembers(joined, renamed)
    BY <1>3, <2>1, <2>2 DEF SameMembers, Typed
  <2> QED BY <1>3, <2>4, <2>5, SameMembersSound
<1>6. \/ RegisterDD(r, m) \in {r, joined, renamed}
      \/ ~exists /\ RegisterDD(r, m) = undone
  <2> HIDE DEF new
  <2> QED BY DEF RegisterDD, start, joined, new
<1> QED BY <1>3, <1>4, <1>5, <1>6

LEMMA DeregisterDDSound ==
  ASSUME NEW r, Sound(r), NEW d \in DDs
  PROVE  Sound(DeregisterDD(r, d))
<1> DEFINE names == MemberNames(r.dd[d].members)
           s == DeregisterDD(r, d)
<1>1. CASE d \in DOMAIN r.dd
  <2>1. Typed(r) /\ r.dd[d] \in DDObjects
    BY <1>1, TypedObjects DEF Sound
  <2>2. Typed(s)
    BY <2>1, DeregisterDDTyped
  <2>3. s.idx = ReleaseIdx(r, names) /\ DOMAIN s.node = DOMAIN r.node
    BY <1>1, <2>1 DEF DeregisterDD, Typed
  <2>4. \/ s.dd = Drop(r.dd, d)
        \/ s.dd = [r.dd EXCEPT ![d].members = <<>>]
    BY <1>1, <2>1 DEF DeregisterDD, Typed
  <2>5. /\ \A x \in DOMAIN r.dd \ {d} : x \in DOMAIN s.dd /\ s.dd[x] = r.dd[x]
        /\ DOMAIN s.dd \subseteq DOMAIN r.dd
        /\ d \in DOMAIN s.dd => s.dd[d].members = <<>>
    <3> HIDE DEF s
    <3>1. CASE s.dd = Drop(r.dd, d)
      BY <3>1 DEF Drop
    <3>2. CASE s.dd = [r.dd EXCEPT ![d].members = <<>>]
      BY <1>1, <2>1, <3>2 DEF DDObjects
    <3> QED BY <2>4, <3>1, <3>2
  <2> HIDE DEF s
  <2>6. UniqueMembers(s)
    BY <2>5 DEF UniqueMembers, Sound
  <2>7. \A n : DDsListing(s, n) = DDsListing(r, n) \ {d}
    BY <2>5 DEF DDsListing, MemberNames
  <2>8. NodesIndexed(s) /\ MembersIndexed(s)
    <3>1. names \subseteq MemberNames(r.dd[d].members)
      OBVIOUS
    <3>2. /\ \A x \in names : DDsListing(s, x) = DDsListing(r, x) \ {d}
          /\ \A x \in Names \ names : DDsListing(s, x) = DDsListing(r, x)
      BY <2>7 DEF DDsListing
    <3> QED BY <1>1, <2>2, <2>3, <3>1, <3>2, ReleaseSound
  <2> QED BY <2>2, <2>6, <2>8 DEF Sound, s
<1>2. CASE d \notin DOMAIN r.dd
  BY <1>2 DEF DeregisterDD
<1> QED BY <1>1, <1>2

(***************************************************************************)
(* Discovery Domain Sets: no handler touches the members or the index.     *)
(***************************************************************************)

\* New links and flags of DDs.
LEMMA DDsSame ==
  ASSUME NEW r, Typed(r), NEW dd, DOMAIN dd = DOMAIN r.dd,
         \A d \in DOMAIN r.dd : dd[d].members = r.dd[d].members
  PROVE  SameMembers(r, [r EXCEPT !.dd = dd])
BY DEF SameMembers, Typed

LEMMA DDSsSame ==
  ASSUME NEW r, Typed(r), NEW dds
  PROVE  SameMembers(r, [r EXCEPT !.dds = dds])
BY DEF SameMembers, Typed

LEMMA DeregisterDDSSame ==
  ASSUME NEW r, Typed(r), NEW s
  PROVE  SameMembers(r, DeregisterDDS(r, s))
<1> DEFINE listed  == r.dds[s].dds
           left    == StoredPrefix(listed, r.dd)
           dark(d) == ~IsDDActive(r, d, {s})
           dd      == [d \in DOMAIN r.dd |->
                         IF d \notin left THEN r.dd[d]
                         ELSE [r.dd[d] EXCEPT !.dds = Without(@, s),
                                              !.active = @ /\ ~dark(d)]]
           unlinked == [r EXCEPT !.dd = dd]
           changed == SelectSeq(listed, LAMBDA d : r.dd[d].active /\ dark(d))
           flagged == ChangeMemberFlags(unlinked, changed)
           removed == [flagged EXCEPT !.dds = Drop(@, s)]
<1>1. SameMembers(r, unlinked)
  <2>1. \A d \in DOMAIN r.dd : dd[d].members = r.dd[d].members
    <3> HIDE DEF dark, left
    <3> QED BY TypedObjects DEF DDObjects
  <2>2. DOMAIN dd = DOMAIN r.dd
    OBVIOUS
  <2> HIDE DEF dd
  <2> QED BY <2>1, <2>2, DDsSame
<1>2. DeregisterDDS(r, s) \in {r, unlinked, removed}
  BY DEF DeregisterDDS
<1>3. SameMembers(r, removed)
  <2> HIDE DEF dd
  <2>1. unlinked = [r EXCEPT !.dd = dd]
    OBVIOUS
  <2>2. /\ DOMAIN flagged.node = DOMAIN r.node
        /\ flagged.dd = unlinked.dd
        /\ flagged.idx = r.idx
    BY DEF ChangeMemberFlags, Typed
  <2>3. /\ removed.node = flagged.node
        /\ removed.dd = flagged.dd
        /\ removed.idx = flagged.idx
    BY DEF ChangeMemberFlags, Typed
  <2> HIDE DEF removed, flagged, unlinked
  <2> QED BY <1>1, <2>2, <2>3 DEF SameMembers
<1> HIDE DEF unlinked, removed
<1>4. SameMembers(r, r)
  BY DEF SameMembers
<1> QED BY <1>1, <1>2, <1>3, <1>4

LEMMA DeregisterDDSMemberSame ==
  ASSUME NEW r, Typed(r), NEW s, NEW d
  PROVE  SameMembers(r, DeregisterDDSMember(r, s, d))
<1>1. \A x \in DOMAIN r.dd : r.dd[x] \in DDObjects
  BY TypedObjects
<1> QED BY <1>1 DEF DeregisterDDSMember, SameMembers, Typed, DDObjects

LEMMA AddDDSToDDSame ==
  ASSUME NEW r, Typed(r), NEW s, NEW d, NEW status
  PROVE  SameMembers(r, AddDDSToDD(r, s, d, status))
<1>1. \A x \in DOMAIN r.dd : r.dd[x] \in DDObjects
  BY TypedObjects
<1> QED BY <1>1 DEF AddDDSToDD, SameMembers, Typed, DDObjects

LEMMA SpreadStatusSame ==
  ASSUME NEW r, Typed(r), NEW s, NEW w
  PROVE  SameMembers(r, SpreadStatus(r, s, w))
<1> DEFINE visited == SubSeq(r.dds[s].dds, 1, w.visited)
           changed == SelectSeq(visited, LAMBDA d :
                        r.dd[d].active # IsDDActive(r, d, {}))
           dd == [d \in DOMAIN r.dd |->
                    IF d \in Range(visited)
                    THEN [r.dd[d] EXCEPT !.active = IsDDActive(r, d, {})]
                    ELSE r.dd[d]]
           spread == [r EXCEPT !.dd = dd]
           flagged == ChangeMemberFlags(spread, changed)
<1>1. SameMembers(r, spread)
  <2>1. \A d \in DOMAIN r.dd : dd[d].members = r.dd[d].members
    <3> HIDE DEF visited
    <3> QED BY TypedObjects DEF DDObjects
  <2>2. DOMAIN dd = DOMAIN r.dd
    OBVIOUS
  <2> HIDE DEF dd
  <2> QED BY <2>1, <2>2, DDsSame
<1>2. SameMembers(r, flagged)
  <2> HIDE DEF dd
  <2>1. /\ DOMAIN flagged.node = DOMAIN r.node
        /\ flagged.dd = spread.dd
        /\ flagged.idx = r.idx
    BY DEF ChangeMemberFlags, Typed
  <2> HIDE DEF flagged, spread
  <2> QED BY <1>1, <2>1 DEF SameMembers
<1>3. SpreadStatus(r, s, w) \in {spread, flagged}
  BY DEF SpreadStatus
<1> HIDE DEF spread, flagged
<1> QED BY <1>1, <1>2, <1>3

LEMMA PlaceDDSSame ==
  ASSUME NEW r, Typed(r), NEW m \in DDSRequests
  PROVE  SameMembers(r, PlaceDDS(r, m).db)
<1> DEFINE s        == m.dds
           new      == s \notin DOMAIN r.dds \/ m.replace
           before   == IF m.replace THEN DeregisterDDS(r, s) ELSE r
           old      == IF new THEN [sym |-> NoSym, status |-> FALSE, dds |-> <<>>]
                       ELSE r.dds[s]
           start    == [before EXCEPT !.dds = Put(@, s, old)]
           status   == IF m.status = <<>> THEN old.status ELSE m.status[1]
           given    == IF m.statusLast THEN old.status ELSE status
           unknown  == m.dd # <<>> /\ m.dd[1] \notin DOMAIN r.dd
           linked   == IF m.dd = <<>> \/ unknown THEN start
                       ELSE AddDDSToDD(start, s, m.dd[1], given)
           written  == [linked EXCEPT
                          !.dds[s].status = status,
                          !.dds[s].sym = IF m.sym = NoSym THEN @ ELSE m.sym]
           undone   == [linked EXCEPT !.dds = before.dds]
<1>1. SameMembers(r, r)
  BY DEF SameMembers
<1>2. Typed(before) /\ SameMembers(r, before)
  BY <1>1, DeregisterDDSTyped, DeregisterDDSSame
<1>3. Typed(start)
  <2>1. s \in DDSs
    BY DEF DDSRequests
  <2>2. old \in DDSObjects
    BY TypedObjects, EmptySeq DEF DDSObjects
  <2> HIDE DEF before, old
  <2>3. IsTable(Put(before.dds, s, old), DDSs, DDSObjects)
    BY <1>2, <2>1, <2>2, TypedTables, PutTable
  <2> QED BY <1>2, <2>3, TypedUpdate
<1> HIDE DEF before, old
<1>4. SameMembers(r, start)
  BY <1>2, DDSsSame, SameMembersTransitive
<1> HIDE DEF start, given, status
<1>5. SameMembers(r, linked)
  BY <1>3, <1>4, AddDDSToDDSame, SameMembersTransitive
<1>6. /\ linked.idx = start.idx
      /\ "dds" \in DOMAIN linked
      /\ linked = [entity |-> linked.entity, node |-> linked.node,
                   idx |-> linked.idx, dd |-> linked.dd, dds |-> linked.dds]
  BY <1>3 DEF AddDDSToDD, Typed
<1> HIDE DEF linked
<1>7. SameMembers(r, undone) /\ SameMembers(r, written)
  BY <1>5, <1>6 DEF SameMembers
<1>8. PlaceDDS(r, m).db \in {before, undone, linked, written}
  BY DEF PlaceDDS, before, old, start, status, given, linked
<1> HIDE DEF undone, written
<1> QED BY <1>2, <1>5, <1>7, <1>8

LEMMA RegisterDDSResultsSound ==
  ASSUME NEW r, Sound(r), NEW m \in DDSRequests,
         NEW res \in RegisterDDSResults(r, m)
  PROVE  Sound(res.db)
<1> DEFINE p == PlaceDDS(r, m).db
<1>1. Typed(p) /\ SameMembers(r, p)
  BY PlaceDDSTyped, PlaceDDSSame DEF Sound
<1>2. \A w : SameMembers(p, SpreadStatus(p, m.dds, w))
  BY <1>1, SpreadStatusSame
<1>3. res.db = p \/ \E w : res.db = SpreadStatus(p, m.dds, w)
  BY DEF RegisterDDSResults
<1> HIDE DEF p
<1>4. SameMembers(r, res.db)
  BY <1>1, <1>2, <1>3, SameMembersTransitive
<1>5. Typed(res.db)
  BY RegisterDDSResultsTyped DEF Sound
<1> QED BY <1>4, <1>5, SameMembersSound

(***************************************************************************)
(* Nodes and entities.                                                     *)
(***************************************************************************)

\* Only nodes that are gone lose their index, and only while no DD counts on it.
LEMMA FewerNodesSound ==
  ASSUME NEW r, Sound(r), NEW s, Typed(s), s.dd = r.dd,
         DOMAIN s.node \subseteq DOMAIN r.node,
         DOMAIN s.node \subseteq DOMAIN s.idx,
         DOMAIN s.idx \subseteq DOMAIN r.idx,
         \A n \in DOMAIN s.idx : s.idx[n] = r.idx[n],
         \A n \in DOMAIN r.idx \ DOMAIN s.idx : r.idx[n] = 0
  PROVE  Sound(s)
<1>1. \A n : DDsListing(s, n) = DDsListing(r, n)
  BY DEF DDsListing
<1>2. ASSUME NEW n \in Names, DDsListing(s, n) # {}
      PROVE  n \in DOMAIN s.idx /\ Cardinality(DDsListing(s, n)) <= s.idx[n]
  <2>1. n \in DOMAIN r.idx /\ Cardinality(DDsListing(r, n)) <= r.idx[n]
    BY <1>1, <1>2 DEF Sound, MembersIndexed
  <2>2. /\ IsFiniteSet(DDsListing(r, n))
        /\ Cardinality(DDsListing(r, n)) \in Nat
    BY ListingFinite DEF Sound
  <2>3. Cardinality(DDsListing(r, n)) # 0
    BY <1>1, <1>2, <2>2, FS_EmptySet
  <2>4. n \in DOMAIN s.idx
    BY <2>1, <2>2, <2>3
  <2> QED BY <1>1, <2>1, <2>4
<1>3. UniqueMembers(s)
  BY DEF UniqueMembers, Sound
<1> QED BY <1>2, <1>3 DEF Sound, NodesIndexed, MembersIndexed

LEMMA RemoveNodeSound ==
  ASSUME NEW r, Sound(r), NEW n
  PROVE  Sound(RemoveNode(r, n))
<1> DEFINE s == RemoveNode(r, n)
<1>1. CASE n \in DOMAIN r.node /\ r.node[n].entity \in DOMAIN r.entity
  <2>1. Typed(s)
    BY RemoveNodeTyped DEF Sound
  <2>2. /\ s.dd = r.dd
        /\ s.node = Drop(r.node, n)
        /\ s.idx = IF n \in DOMAIN r.idx /\ r.idx[n] = 0 THEN Drop(r.idx, n)
                   ELSE r.idx
    BY <1>1 DEF RemoveNode, Sound, Typed
  <2> HIDE DEF s
  <2>3. /\ DOMAIN s.node \subseteq DOMAIN r.node
        /\ DOMAIN s.node \subseteq DOMAIN s.idx
        /\ DOMAIN s.idx \subseteq DOMAIN r.idx
        /\ \A x \in DOMAIN s.idx : s.idx[x] = r.idx[x]
        /\ \A x \in DOMAIN r.idx \ DOMAIN s.idx : r.idx[x] = 0
    BY <2>2 DEF Drop, Sound, NodesIndexed
  <2>4. Sound(s)
    BY <2>1, <2>2, <2>3, FewerNodesSound
  <2> QED BY <2>4 DEF s
<1>2. CASE ~(n \in DOMAIN r.node /\ r.node[n].entity \in DOMAIN r.entity)
  BY <1>2 DEF RemoveNode
<1> QED BY <1>1, <1>2

LEMMA RemoveEntitySound ==
  ASSUME NEW r, Sound(r), NEW e
  PROVE  Sound(RemoveEntity(r, e))
<1> DEFINE nodes == IF r.entity[e].type = "iscsi" THEN r.entity[e].nodes ELSE {}
           s == RemoveEntity(r, e)
<1>1. CASE e \in DOMAIN r.entity
  <2>1. Typed(s)
    BY RemoveEntityTyped DEF Sound
  <2>2. /\ s.dd = r.dd
        /\ DOMAIN s.node = DOMAIN r.node \ nodes
        /\ s.idx = [n \in {x \in DOMAIN r.idx : x \in nodes => r.idx[x] # 0} |->
                      r.idx[n]]
    BY <1>1 DEF RemoveEntity, Sound, Typed
  <2> HIDE DEF s, nodes
  <2>3. /\ DOMAIN s.node \subseteq DOMAIN s.idx
        /\ DOMAIN s.idx \subseteq DOMAIN r.idx
        /\ \A x \in DOMAIN s.idx : s.idx[x] = r.idx[x]
        /\ \A x \in DOMAIN r.idx \ DOMAIN s.idx : r.idx[x] = 0
    BY <2>2 DEF Sound, NodesIndexed
  <2>4. Sound(s)
    BY <2>1, <2>2, <2>3, FewerNodesSound
  <2> QED BY <2>4 DEF s
<1>2. CASE e \notin DOMAIN r.entity
  BY <1>2 DEF RemoveEntity
<1> QED BY <1>1, <1>2

LEMMA RegisterEntitySound ==
  ASSUME NEW r, Sound(r), NEW m \in EntityRequests
  PROVE  Sound(RegisterEntity(r, m))
<1> DEFINE before == IF m.replace /\ m.same THEN RemoveEntity(r, m.entity) ELSE r
           s == RegisterEntity(r, m)
<1>1. Sound(before)
  BY RemoveEntitySound
<1>2. Typed(s)
  BY RegisterEntityTyped DEF Sound
<1> HIDE DEF before
<1>3. s.dd = before.dd /\ s.idx = before.idx /\ s.node = before.node
  BY <1>1 DEF RegisterEntity, before, Sound, Typed
<1> HIDE DEF s
<1>4. SameMembers(before, s)
  BY <1>3 DEF SameMembers
<1>5. Sound(s)
  BY <1>1, <1>2, <1>4, SameMembersSound
<1> QED BY <1>5 DEF s

LEMMA ActivateMembershipSound ==
  ASSUME NEW r, Sound(r), NEW n \in DOMAIN r.node
  PROVE  Sound(ActivateMembership(r, n))
<1> DEFINE listing == DDsListing(r, n)
           default == {d \in DOMAIN r.dd : r.dd[d].sym = DefaultSym}
           d       == CHOOSE x \in default : TRUE
           joined  == AddDDMember(r, d, n, TRUE)
           s       == ActivateMembership(r, n)
<1>1. Typed(r) /\ Typed(s) /\ n \in Names
  BY ActivateMembershipTyped, TypedObjects DEF Sound
<1>2. CASE listing # {} \/ default = {}
  <2>1. SameMembers(r, s)
    BY <1>1, <1>2 DEF ActivateMembership, SameMembers, Typed
  <2> HIDE DEF s
  <2>2. Sound(s)
    BY <1>1, <2>1, SameMembersSound
  <2> QED BY <2>2 DEF s
<1>3. CASE listing = {} /\ default # {}
  <2>1. d \in DOMAIN r.dd
    BY <1>3
  <2>2. Sound(joined) /\ Typed(joined)
    BY <1>1, <2>1, AddDDMemberSound DEF Sound
  <2>3. s = [joined EXCEPT !.node[n].dds = @ \cup {d}, !.node[n].active = TRUE]
    BY <1>3 DEF ActivateMembership
  <2> HIDE DEF s, joined
  <2>4. SameMembers(joined, s)
    BY <2>2, <2>3 DEF SameMembers, Typed
  <2>5. Sound(s)
    BY <1>1, <2>2, <2>4, SameMembersSound
  <2> QED BY <2>5 DEF s
<1> QED BY <1>2, <1>3

\* A name gets an index before its node is stored.
LEMMA NewIndexSound ==
  ASSUME NEW r, Sound(r), NEW n \in Names \ DOMAIN r.idx,
         NEW x, x = [r EXCEPT !.idx = Put(@, n, 0)]
  PROVE  /\ Sound(x) /\ n \in DOMAIN x.idx
         /\ x.entity = r.entity /\ x.node = r.node /\ x.dd = r.dd
<1>1. IsTable(Put(r.idx, n, 0), Names, Nat)
  BY TypedTables, PutTable DEF Sound
<1>2. Typed(x)
  BY <1>1, TypedUpdate DEF Sound
<1>3. /\ x.idx = Put(r.idx, n, 0)
      /\ x.node = r.node /\ x.dd = r.dd /\ x.entity = r.entity
  BY DEF Sound, Typed
<1>4. \A y : DDsListing(x, y) = DDsListing(r, y)
  BY <1>3 DEF DDsListing
<1>5. DDsListing(r, n) = {}
  BY DEF Sound, MembersIndexed
<1>6. MembersIndexed(x)
  BY <1>3, <1>4, <1>5 DEF MembersIndexed, Sound, Put
<1>7. UniqueMembers(x) /\ NodesIndexed(x)
  BY <1>3 DEF UniqueMembers, NodesIndexed, Sound, Put
<1>8. n \in DOMAIN x.idx
  BY <1>3 DEF Put
<1> QED BY <1>2, <1>3, <1>6, <1>7, <1>8 DEF Sound

\* The three ways a node registration ends: the node was stored and is kept;
\* only its index is written; or the node is stored, under a name that no longer
\* has one, before its memberships are looked for.
LEMMA RegisterNodeSteps ==
  ASSUME NEW r, Sound(r), NEW n \in Names, NEW e \in Entities,
         NEW replace \in BOOLEAN
  PROVE  LET before == IF replace THEN RemoveNode(r, n) ELSE r
             done   == RegisterNode(r, n, e, replace)
         IN \/ n \in DOMAIN r.node /\ done = ActivateMembership(r, n)
            \/ Sound(done) /\ done.dd = before.dd /\ done.node = before.node
            \/ \E s : /\ Sound(s) /\ s.dd = before.dd
                      /\ s.node = Put(before.node, n,
                           [entity |-> e, active |-> FALSE, dds |-> {}])
                      /\ done = ActivateMembership(s, n)
<1> DEFINE before  == IF replace THEN RemoveNode(r, n) ELSE r
           indexed == IF n \in DOMAIN before.idx THEN before
                      ELSE [before EXCEPT !.idx = Put(@, n, 0)]
           fresh   == [entity |-> e, active |-> FALSE, dds |-> {}]
           s       == [indexed EXCEPT !.entity[e].nodes = @ \cup {n},
                                      !.node = Put(@, n, fresh)]
<1>1. Sound(before) /\ DOMAIN before.entity = DOMAIN r.entity
  BY RemoveNodeSound DEF RemoveNode, Sound, Typed
<1> HIDE DEF before
<1>2. /\ Sound(indexed) /\ n \in DOMAIN indexed.idx
      /\ indexed.entity = before.entity /\ indexed.node = before.node
      /\ indexed.dd = before.dd
  BY <1>1, NewIndexSound
<1> HIDE DEF indexed
<1>3. CASE n \in DOMAIN r.node /\ ~replace
  BY <1>3 DEF RegisterNode
<1>4. CASE /\ ~(n \in DOMAIN r.node /\ ~replace)
           /\ e \notin DOMAIN r.entity \/ r.entity[e].type # "iscsi"
  <2>1. RegisterNode(r, n, e, replace) = indexed
    BY <1>4 DEF RegisterNode, indexed, before
  <2> QED BY <1>2, <2>1 DEF before
<1>5. CASE /\ ~(n \in DOMAIN r.node /\ ~replace)
           /\ e \in DOMAIN r.entity /\ r.entity[e].type = "iscsi"
  <2>1. RegisterNode(r, n, e, replace) = ActivateMembership(s, n)
    BY <1>5 DEF RegisterNode, indexed, before
  <2>2. indexed.entity[e] \in EntityObjects /\ Typed(indexed)
    BY <1>1, <1>2, <1>5, TypedObjects DEF Sound
  <2>3. Typed(s)
    <3> DEFINE obj    == [indexed.entity[e] EXCEPT !.nodes = @ \cup {n}]
               entity == [indexed.entity EXCEPT ![e] = obj]
               node   == Put(indexed.node, n, fresh)
               s1     == [indexed EXCEPT !.entity = entity]
    <3>1. obj \in EntityObjects /\ fresh \in Nodes
      BY <2>2 DEF EntityObjects, Nodes
    <3>2. IsTable(entity, Entities, EntityObjects) /\ IsTable(node, Names, Nodes)
      BY <2>2, <3>1, TypedTables, UpdateTable, PutTable
    <3>3. Typed(s1)
      BY <2>2, <3>2, TypedUpdate
    <3>4. Typed([s1 EXCEPT !.node = node])
      BY <3>2, <3>3, TypedUpdate
    <3>5. s = [s1 EXCEPT !.node = node]
      BY <2>2 DEF Typed, EntityObjects
    <3> QED BY <3>4, <3>5
  <2>4. /\ s.dd = indexed.dd /\ s.idx = indexed.idx
        /\ s.node = Put(indexed.node, n, fresh)
    BY <2>2 DEF Typed
  <2> HIDE DEF s
  <2>5. \A y : DDsListing(s, y) = DDsListing(indexed, y)
    BY <2>4 DEF DDsListing
  <2>6. DOMAIN s.node = DOMAIN indexed.node \cup {n}
    BY <2>4 DEF Put
  <2>7. Sound(s)
    BY <1>2, <2>3, <2>4, <2>5, <2>6
       DEF Sound, UniqueMembers, NodesIndexed, MembersIndexed
  <2> QED BY <1>2, <2>1, <2>4, <2>7 DEF before
<1> QED BY <1>3, <1>4, <1>5

LEMMA RegisterNodeSound ==
  ASSUME NEW r, Sound(r), NEW n \in Names, NEW e \in Entities,
         NEW replace \in BOOLEAN
  PROVE  Sound(RegisterNode(r, n, e, replace))
<1>1. \A t, x : n \in DOMAIN Put(t, n, x)
  BY DEF Put
<1> DEFINE before == IF replace THEN RemoveNode(r, n) ELSE r
           fresh  == [entity |-> e, active |-> FALSE, dds |-> {}]
           done   == RegisterNode(r, n, e, replace)
<1>2. \/ n \in DOMAIN r.node /\ done = ActivateMembership(r, n)
      \/ Sound(done)
      \/ \E s : /\ Sound(s) /\ s.node = Put(before.node, n, fresh)
                /\ done = ActivateMembership(s, n)
  BY RegisterNodeSteps
<1> HIDE DEF before, fresh, done
<1>3. Sound(done)
  BY <1>1, <1>2, ActivateMembershipSound
<1> QED BY <1>3 DEF done

(***************************************************************************)
(* The theorem.                                                            *)
(***************************************************************************)

LEMMA InitSound == Init => Sound(db)
<1> SUFFICES ASSUME Init PROVE Sound(db)
  OBVIOUS
<1>1. Typed(db)
  BY InitTyped DEF TypeOK
<1>2. PICK d \in DDs, s \in DDSs :
        db = [entity |-> Empty, node |-> Empty, idx |-> Empty,
              dd  |-> Put(Empty, d, [sym |-> DefaultSym, active |-> TRUE,
                                     members |-> <<>>, dds |-> <<s>>]),
              dds |-> Put(Empty, s, [sym |-> DefaultDDSSym, status |-> TRUE,
                                     dds |-> <<d>>])]
  BY DEF Init
<1>3. DOMAIN db.node = {} /\ \A x \in DOMAIN db.dd : db.dd[x].members = <<>>
  BY <1>2 DEF Put, Empty
<1>4. \A n : DDsListing(db, n) = {}
  BY <1>3 DEF DDsListing, MemberNames
<1> QED BY <1>1, <1>3, <1>4
        DEF Sound, UniqueMembers, NodesIndexed, MembersIndexed

LEMMA RequestSound ==
  ASSUME Sound(db), Request \/ CrashInRegDDS
  PROVE  Sound(db')
<1>1. CASE RegEntity
  BY <1>1, RegisterEntitySound, RequestAssumption DEF RegEntity
<1>2. CASE DeregEntity
  BY <1>2, RemoveEntitySound DEF DeregEntity
<1>3. CASE RegNode
  BY <1>3, RegisterNodeSound DEF RegNode
<1>4. CASE DeregNode
  BY <1>4, RemoveNodeSound DEF DeregNode
<1>5. CASE RegDD
  BY <1>5, RegisterDDSound, RequestAssumption DEF RegDD
<1>6. CASE DeregDDMember
  BY <1>6, DeregisterDDMemberSound DEF DeregDDMember
<1>7. CASE DeregDD
  BY <1>7, DeregisterDDSound DEF DeregDD
<1>8. CASE RegDDS
  BY <1>8, RegisterDDSResultsSound, RequestAssumption DEF RegDDS
<1>9. CASE DeregDDSMember
  <2>1. PICK s \in DDSs, d \in DDs : db' = DeregisterDDSMember(db, s, d)
    BY <1>9 DEF DeregDDSMember
  <2>2. Typed(db') /\ SameMembers(db, db')
    BY <2>1, DeregisterDDSMemberTyped, DeregisterDDSMemberSame DEF Sound
  <2> QED BY <2>2, SameMembersSound
<1>10. CASE DeregDDS
  <2>1. PICK s \in DDSs : db' = DeregisterDDS(db, s)
    BY <1>10 DEF DeregDDS
  <2>2. Typed(db') /\ SameMembers(db, db')
    BY <2>1, DeregisterDDSTyped, DeregisterDDSSame DEF Sound
  <2> QED BY <2>2, SameMembersSound
<1>11. CASE CrashInRegDDS
  BY <1>11, RegisterDDSResultsSound, RequestAssumption DEF CrashInRegDDS
<1> QED BY <1>1, <1>2, <1>3, <1>4, <1>5, <1>6, <1>7, <1>8, <1>9, <1>10, <1>11
        DEF Request

\* Sound is an invariant: it is preserved by every request, and by a request
\* that ends in a crash.
THEOREM SoundAlways == Spec => []Sound(db)
<1>1. Sound(db) /\ [Next]_vars => Sound(db)'
  <2> SUFFICES ASSUME Sound(db), [Next]_vars PROVE Sound(db')
    BY DEF Sound, Typed, UniqueMembers, NodesIndexed, MembersIndexed, DDsListing
  <2>1. CASE Next
    BY <2>1, RequestSound DEF Next
  <2>2. CASE UNCHANGED vars
    BY <2>2 DEF vars
  <2> QED BY <2>1, <2>2
<1> QED BY InitSound, <1>1, PTL DEF Spec

\* The name of a registered node and the name of a member always have an index,
\* whose count is never below the number of DDs that list the name
\* (Add_DD_Member, Remove_DD_Member, SNSdbRemoveDD_Entry,
\* SNSRemoveISCSINodeEntry, ISNSdbAddAttrISCSINode).
THEOREM IndexAlwaysHeld == Spec => []Indexed
<1>1. Sound(db) => Indexed
  BY DEF Sound, Indexed
<1> QED BY SoundAlways, <1>1, PTL

(***************************************************************************)
(* The links: no list holds an id twice, and a set lists only DDs that     *)
(* exist and list it too.  Neither is inductive without the other: taking  *)
(* an id out of a list takes out one cell, so it is gone only if it was    *)
(* there once, and a set is deleted only if its walk meets no missing DD.  *)
(***************************************************************************)

Linked(r) == UniqueLinks(r) /\ DDsOfSets(r)

\* The tables r and s agree on the links.
SameLinks(r, s) ==
  /\ DOMAIN s.dd = DOMAIN r.dd
  /\ \A d \in DOMAIN r.dd : s.dd[d].dds = r.dd[d].dds
  /\ DOMAIN s.dds = DOMAIN r.dds
  /\ \A x \in DOMAIN r.dds : s.dds[x].dds = r.dds[x].dds

LEMMA SameLinksLinked ==
  ASSUME NEW r, NEW s, Linked(r), SameLinks(r, s)
  PROVE  Linked(s)
BY DEF Linked, UniqueLinks, DDsOfSets, SameLinks

LEMMA SameLinksTransitive ==
  ASSUME NEW r, NEW s, NEW t, SameLinks(r, s), SameLinks(s, t)
  PROVE  SameLinks(r, t)
BY DEF SameLinks

LEMMA SameDomains ==
  ASSUME NEW r, NEW s, s.dd = r.dd, s.dds = r.dds
  PROVE  SameLinks(r, s)
BY DEF SameLinks

\* The lists of the stored objects.
LEMMA LinkLists ==
  ASSUME NEW r, Typed(r)
  PROVE  /\ \A d \in DOMAIN r.dd : r.dd[d].dds \in Seq(DDSs)
         /\ \A s \in DOMAIN r.dds : r.dds[s].dds \in Seq(DDs)
BY TypedObjects DEF DDObjects, DDSObjects

(***************************************************************************)
(* Lists without duplicates.                                               *)
(***************************************************************************)

LEMMA EmptyLinks ==
  IsInjective(<<>>) /\ Range(<<>>) = {}
BY DEF IsInjective, Range

LEMMA AppendNewLinks ==
  ASSUME NEW S, NEW s \in Seq(S), NEW x \in S, IsInjective(s)
  PROVE  /\ IsInjective(AppendNew(s, x))
         /\ Range(AppendNew(s, x)) = Range(s) \cup {x}
<1>1. CASE x \in Range(s)
  BY <1>1 DEF AppendNew
<1>2. CASE x \notin Range(s)
  <2> DEFINE t == Append(s, x)
  <2>1. Len(s) \in Nat /\ DOMAIN s = 1..Len(s)
    BY LenProperties
  <2>2. /\ DOMAIN t = 1..(Len(s) + 1)
        /\ t[Len(s) + 1] = x
        /\ \A k \in 1..Len(s) : t[k] = s[k]
    BY <2>1
  <2>3. AppendNew(s, x) = t
    BY <1>2 DEF AppendNew
  <2> HIDE DEF t
  <2>4. Range(t) = Range(s) \cup {x}
    BY <2>1, <2>2 DEF Range
  <2>5. IsInjective(t)
    BY <1>2, <2>1, <2>2 DEF Range, IsInjective
  <2> QED BY <2>3, <2>4, <2>5
<1> QED BY <1>1, <1>2

LEMMA WithoutLinks ==
  ASSUME NEW S, NEW s \in Seq(S), NEW x, IsInjective(s)
  PROVE  IsInjective(Without(s, x)) /\ Range(Without(s, x)) = Range(s) \ {x}
<1> DEFINE i == CHOOSE k \in DOMAIN s : s[k] = x
           t == RemoveAt(s, i)
<1>1. CASE x \notin Range(s)
  BY <1>1 DEF Without
<1>2. CASE x \in Range(s)
  <2>1. Len(s) \in Nat /\ DOMAIN s = 1..Len(s)
    BY LenProperties
  <2>2. i \in 1..Len(s) /\ s[i] = x
    BY <1>2, <2>1 DEF Range
  <2>3. Without(s, x) = t
    BY <1>2 DEF Without
  <2> HIDE DEF i
  <2>4. /\ t \in Seq(S)
        /\ Len(t) = Len(s) - 1
        /\ \A k \in 1..(Len(s) - 1) : t[k] = IF k < i THEN s[k] ELSE s[k + 1]
    BY <2>2, RemoveAtElements
  <2>5. DOMAIN t = 1..(Len(s) - 1)
    BY <2>4, LenProperties
  <2> HIDE DEF t
  <2>6. ASSUME NEW j \in DOMAIN t
        PROVE  \E k \in DOMAIN s \ {i} : t[j] = s[k]
    BY <2>1, <2>2, <2>4, <2>5
  <2>7. ASSUME NEW k \in DOMAIN s \ {i}
        PROVE  \E j \in DOMAIN t : t[j] = s[k]
    <3>1. CASE k < i
      BY <2>1, <2>2, <2>4, <2>5, <3>1
    <3>2. CASE k > i
      <4>1. k - 1 \in DOMAIN t /\ t[k - 1] = s[k]
        BY <2>1, <2>2, <2>4, <2>5, <3>2
      <4> QED BY <4>1
    <3> QED BY <2>1, <2>2, <3>1, <3>2
  <2>8. Range(t) = Range(s) \ {x}
    BY <2>1, <2>2, <2>6, <2>7 DEF Range, IsInjective
  <2>9. ASSUME NEW j \in DOMAIN t, NEW k \in DOMAIN t, t[j] = t[k]
        PROVE  j = k
    <3> DEFINE at(y) == IF y < i THEN y ELSE y + 1
    <3>1. ASSUME NEW y \in DOMAIN t PROVE at(y) \in DOMAIN s /\ t[y] = s[at(y)]
      BY <2>1, <2>2, <2>4, <2>5
    <3>2. at(j) = at(k)
      <4> HIDE DEF at
      <4> QED BY <2>9, <3>1 DEF IsInjective
    <3> QED BY <2>1, <2>2, <2>5, <3>2
  <2>10. IsInjective(t)
    BY <2>9 DEF IsInjective
  <2> QED BY <2>3, <2>8, <2>10
<1> QED BY <1>1, <1>2

\* All the elements of a list are stored when its stored prefix is the list.
LEMMA StoredPrefixAll ==
  ASSUME NEW S, NEW s \in Seq(S), NEW t
  PROVE  /\ StoredPrefix(s, t) \subseteq Range(s)
         /\ Range(s) \subseteq DOMAIN t => StoredPrefix(s, t) = Range(s)
<1>1. Len(s) \in Nat /\ DOMAIN s = 1..Len(s)
  BY LenProperties
<1>2. StoredPrefix(s, t) \subseteq Range(s)
  BY DEF StoredPrefix, Range
<1>3. ASSUME Range(s) \subseteq DOMAIN t, NEW i \in DOMAIN s
      PROVE  s[i] \in StoredPrefix(s, t)
  <2>1. \A j \in 1..i : s[j] \in DOMAIN t
    BY <1>1, <1>3 DEF Range
  <2> QED BY <2>1 DEF StoredPrefix
<1> QED BY <1>2, <1>3 DEF Range

(***************************************************************************)
(* Members and nodes: no handler touches a link.                           *)
(***************************************************************************)

LEMMA AddDDMemberLinks ==
  ASSUME NEW r, Typed(r), NEW d \in DOMAIN r.dd, NEW n, NEW enabled
  PROVE  SameLinks(r, AddDDMember(r, d, n, enabled))
<1> DEFINE s == AddDDMember(r, d, n, enabled)
<1>1. r.dd[d] \in DDObjects
  BY TypedObjects
<1>2. CASE \E m \in MemberNames(r.dd[d].members) : <<n, m>> \in Prefix
  BY <1>2 DEF AddDDMember, SameLinks
<1>3. CASE ~ \E m \in MemberNames(r.dd[d].members) : <<n, m>> \in Prefix
  <2>1. /\ DOMAIN s.dd = DOMAIN r.dd
        /\ s.dd[d].dds = r.dd[d].dds
        /\ \A x \in DOMAIN r.dd \ {d} : s.dd[x] = r.dd[x]
        /\ s.dds = r.dds
    BY <1>1, <1>3 DEF AddDDMember, Typed, DDObjects
  <2> HIDE DEF s
  <2>2. SameLinks(r, s)
    BY <2>1 DEF SameLinks
  <2> QED BY <2>2 DEF s
<1> QED BY <1>2, <1>3

LEMMA AddDDToNodeDomains ==
  ASSUME NEW r, Typed(r), NEW d, NEW n
  PROVE  AddDDToNode(r, d, n).dd = r.dd /\ AddDDToNode(r, d, n).dds = r.dds
BY DEF AddDDToNode, Typed

LEMMA JoinDDLinks ==
  ASSUME NEW r, Typed(r), NEW d \in DOMAIN r.dd, NEW n \in Names
  PROVE  SameLinks(r, JoinDD(r, d, n))
<1> DEFINE s == AddDDToNode(r, d, n)
<1>1. Typed(s) /\ SameLinks(r, s) /\ d \in DOMAIN s.dd
  BY AddDDToNodeTyped, AddDDToNodeDomains, SameDomains
<1> HIDE DEF s
<1>2. SameLinks(s, AddDDMember(s, d, n, n \in DOMAIN r.node))
  BY <1>1, AddDDMemberLinks
<1>3. SameLinks(r, AddDDMember(s, d, n, n \in DOMAIN r.node))
  BY <1>1, <1>2, SameLinksTransitive
<1> QED BY <1>3 DEF JoinDD, s

LEMMA DeregisterDDMemberLinks ==
  ASSUME NEW r, Typed(r), NEW d, NEW a \in MemberAttrs
  PROVE  SameLinks(r, DeregisterDDMember(r, d, a))
<1> DEFINE n == AttrName(a)
           s == RemoveDDFromNode(r, d, n)
           t == RemoveDDMember(s, d, n)
<1>1. n \in Names
  BY AttrNameType
<1>2. Typed(s) /\ s.dd = r.dd /\ s.dds = r.dds
  BY <1>1, RemoveDDFromNodeTyped DEF RemoveDDFromNode, Typed
<1> HIDE DEF s
<1>3. CASE d \in DOMAIN r.dd
  <2>1. s.dd[d] \in DDObjects
    BY <1>2, <1>3, TypedObjects
  <2>2. /\ DOMAIN t.dd = DOMAIN s.dd
        /\ t.dd[d].dds = s.dd[d].dds
        /\ \A x \in DOMAIN s.dd \ {d} : t.dd[x] = s.dd[x]
        /\ t.dds = s.dds
    BY <1>2, <1>3, <2>1 DEF RemoveDDMember, Typed, DDObjects
  <2>3. DeregisterDDMember(r, d, a) \in {r, t}
    BY DEF DeregisterDDMember, s
  <2> HIDE DEF t
  <2>4. SameLinks(r, r) /\ SameLinks(r, t)
    BY <1>2, <2>2 DEF SameLinks
  <2> QED BY <2>3, <2>4
<1>4. CASE d \notin DOMAIN r.dd
  BY <1>4 DEF DeregisterDDMember, SameLinks
<1> QED BY <1>3, <1>4

LEMMA ActivateMembershipLinks ==
  ASSUME NEW r, Typed(r), NEW n \in DOMAIN r.node
  PROVE  SameLinks(r, ActivateMembership(r, n))
<1> DEFINE default == {d \in DOMAIN r.dd : r.dd[d].sym = DefaultSym}
           d       == CHOOSE x \in default : TRUE
           joined  == AddDDMember(r, d, n, TRUE)
           s       == ActivateMembership(r, n)
<1>1. CASE DDsListing(r, n) # {} \/ default = {}
  <2>1. s.dd = r.dd /\ s.dds = r.dds
    BY <1>1 DEF ActivateMembership, Typed
  <2> HIDE DEF s
  <2>2. SameLinks(r, s)
    BY <2>1, SameDomains
  <2> QED BY <2>2 DEF s
<1>2. CASE DDsListing(r, n) = {} /\ default # {}
  <2>1. d \in DOMAIN r.dd
    BY <1>2
  <2>2. SameLinks(r, joined)
    BY <2>1, AddDDMemberLinks
  <2>3. s.dd = joined.dd /\ s.dds = joined.dds
    <3>1. s = [joined EXCEPT !.node[n].dds = @ \cup {d}, !.node[n].active = TRUE]
      BY <1>2 DEF ActivateMembership
    <3>2. "dd" \in DOMAIN joined /\ "dds" \in DOMAIN joined
      <4> HIDE DEF d
      <4> QED BY DEF AddDDMember, Typed
    <3> HIDE DEF joined, s
    <3> QED BY <3>1, <3>2
  <2> HIDE DEF joined, s
  <2>4. SameLinks(r, s)
    BY <2>2, <2>3, SameDomains, SameLinksTransitive
  <2> QED BY <2>4 DEF s
<1> QED BY <1>1, <1>2

LEMMA RemoveNodeLinks ==
  ASSUME NEW r, Typed(r), NEW n
  PROVE  RemoveNode(r, n).dd = r.dd /\ RemoveNode(r, n).dds = r.dds
BY DEF RemoveNode, Typed

LEMMA RegisterNodeLinks ==
  ASSUME NEW r, Typed(r), NEW n \in Names, NEW e \in Entities,
         NEW replace \in BOOLEAN
  PROVE  SameLinks(r, RegisterNode(r, n, e, replace))
<1> DEFINE before  == IF replace THEN RemoveNode(r, n) ELSE r
           indexed == IF n \in DOMAIN before.idx THEN before
                      ELSE [before EXCEPT !.idx = Put(@, n, 0)]
           fresh   == [entity |-> e, active |-> FALSE, dds |-> {}]
           s       == [indexed EXCEPT !.entity[e].nodes = @ \cup {n},
                                      !.node = Put(@, n, fresh)]
<1>1. /\ Typed(before) /\ before.dd = r.dd /\ before.dds = r.dds
      /\ DOMAIN before.entity = DOMAIN r.entity
  BY RemoveNodeTyped, RemoveNodeLinks DEF RemoveNode, Typed
<1> HIDE DEF before
<1>2. /\ Typed(indexed) /\ indexed.dd = r.dd /\ indexed.dds = r.dds
      /\ indexed.entity = before.entity
  <2>1. IsTable(Put(before.idx, n, 0), Names, Nat)
    BY <1>1, TypedTables, PutTable
  <2>2. Typed([before EXCEPT !.idx = Put(@, n, 0)])
    BY <1>1, <2>1, TypedUpdate
  <2> QED BY <1>1, <2>2 DEF Typed
<1> HIDE DEF indexed
<1>3. CASE n \in DOMAIN r.node /\ ~replace
  BY <1>3, ActivateMembershipLinks DEF RegisterNode
<1>4. CASE /\ ~(n \in DOMAIN r.node /\ ~replace)
           /\ e \notin DOMAIN r.entity \/ r.entity[e].type # "iscsi"
  <2>1. RegisterNode(r, n, e, replace) = indexed
    BY <1>4 DEF RegisterNode, indexed, before
  <2> QED BY <1>2, <2>1, SameDomains
<1>5. CASE /\ ~(n \in DOMAIN r.node /\ ~replace)
           /\ e \in DOMAIN r.entity /\ r.entity[e].type = "iscsi"
  <2>1. indexed.entity[e] \in EntityObjects
    BY <1>1, <1>2, <1>5, TypedObjects
  <2>2. Typed(s)
    <3> DEFINE obj    == [indexed.entity[e] EXCEPT !.nodes = @ \cup {n}]
               entity == [indexed.entity EXCEPT ![e] = obj]
               node   == Put(indexed.node, n, fresh)
               s1     == [indexed EXCEPT !.entity = entity]
    <3>1. obj \in EntityObjects /\ fresh \in Nodes
      BY <2>1 DEF EntityObjects, Nodes
    <3>2. IsTable(entity, Entities, EntityObjects) /\ IsTable(node, Names, Nodes)
      BY <1>2, <3>1, TypedTables, UpdateTable, PutTable
    <3>3. Typed(s1)
      BY <1>2, <3>2, TypedUpdate
    <3>4. Typed([s1 EXCEPT !.node = node])
      BY <3>2, <3>3, TypedUpdate
    <3>5. s = [s1 EXCEPT !.node = node]
      BY <1>2, <2>1 DEF Typed, EntityObjects
    <3> QED BY <3>4, <3>5
  <2>3. s.dd = r.dd /\ s.dds = r.dds /\ n \in DOMAIN s.node
    BY <1>2 DEF Typed, Put
  <2>4. RegisterNode(r, n, e, replace) = ActivateMembership(s, n)
    BY <1>5 DEF RegisterNode, indexed, before
  <2> HIDE DEF s
  <2>5. SameLinks(r, s) /\ SameLinks(s, ActivateMembership(s, n))
    BY <2>2, <2>3, SameDomains, ActivateMembershipLinks
  <2> QED BY <2>4, <2>5, SameLinksTransitive
<1> QED BY <1>3, <1>4, <1>5

LEMMA RemoveEntityLinks ==
  ASSUME NEW r, Typed(r), NEW e
  PROVE  RemoveEntity(r, e).dd = r.dd /\ RemoveEntity(r, e).dds = r.dds
BY DEF RemoveEntity, Typed

LEMMA RegisterEntityLinks ==
  ASSUME NEW r, Typed(r), NEW m \in EntityRequests
  PROVE  SameLinks(r, RegisterEntity(r, m))
<1> DEFINE before == IF m.replace /\ m.same THEN RemoveEntity(r, m.entity) ELSE r
           s      == RegisterEntity(r, m)
<1>1. Typed(before) /\ before.dd = r.dd /\ before.dds = r.dds
  BY RemoveEntityTyped, RemoveEntityLinks
<1> HIDE DEF before
<1>2. s.dd = before.dd /\ s.dds = before.dds
  BY <1>1 DEF RegisterEntity, before, Typed
<1> HIDE DEF s
<1>3. SameLinks(r, s)
  BY <1>1, <1>2, SameDomains
<1> QED BY <1>3 DEF s

(***************************************************************************)
(* Discovery Domains.                                                      *)
(***************************************************************************)

LEMMA RegisterDDLinked ==
  ASSUME NEW r, Typed(r), Linked(r), NEW m \in DDRequests
  PROVE  Linked(RegisterDD(r, m))
<1> DEFINE d        == m.dd
           exists   == d \in DOMAIN r.dd
           new      == [sym |-> IF m.sym = NoSym THEN m.auto ELSE NoSym,
                        active |-> FALSE, members |-> <<>>, dds |-> <<>>]
           start    == IF exists THEN r ELSE [r EXCEPT !.dd = Put(@, d, new)]
           unknown  == m.member # <<>> /\ ~AttrKnown(r, m.member[1])
           joined   == IF m.member = <<>> \/ unknown THEN start
                       ELSE JoinDD(start, d, AttrName(m.member[1]))
           undone   == [joined EXCEPT !.dd = r.dd]
           named    == [joined.dd[d] EXCEPT !.sym = NameRead(m)]
           renamed  == [joined EXCEPT !.dd = [@ EXCEPT ![d] = named]]
<1>1. /\ d \in DDs
      /\ m.member # <<>> => m.member[1] \in MemberAttrs
  BY DEF DDRequests
<1>2. /\ Typed(start) /\ Linked(start)
      /\ d \in DOMAIN start.dd /\ start.dds = r.dds
  <2>1. CASE exists
    BY <2>1
  <2>2. CASE ~exists
    <3> DEFINE s == [r EXCEPT !.dd = Put(@, d, new)]
    <3>1. new \in DDObjects
      BY <1>1, RequestNames, EmptySeq DEF DDObjects
    <3>2. Typed(s)
      BY <1>1, <3>1, TypedTables, PutTable, TypedUpdate
    <3>3. new.dds = <<>>
      OBVIOUS
    <3>4. s.dd = Put(r.dd, d, new) /\ s.dds = r.dds
      BY DEF Typed
    <3> HIDE DEF s, new
    <3>5. UniqueLinks(s)
      BY <3>3, <3>4, EmptyLinks DEF UniqueLinks, Linked, Put
    <3>6. DDsOfSets(s)
      BY <2>2, <3>4 DEF DDsOfSets, Linked, Put
    <3>7. d \in DOMAIN s.dd
      BY <3>4 DEF Put
    <3> QED BY <2>2, <3>2, <3>4, <3>5, <3>6, <3>7 DEF Linked, s, new
  <2> QED BY <2>1, <2>2
<1> HIDE DEF start
<1>3. /\ Typed(joined) /\ Linked(joined)
      /\ d \in DOMAIN joined.dd /\ DOMAIN joined.dds = DOMAIN r.dds
      /\ \A x \in DOMAIN r.dds : joined.dds[x].dds = r.dds[x].dds
  <2>1. CASE m.member = <<>> \/ unknown
    BY <1>2, <2>1
  <2>2. CASE m.member # <<>> /\ ~unknown
    <3> DEFINE n == AttrName(m.member[1])
    <3>1. n \in Names
      BY <1>1, <2>2, AttrNameType
    <3>2. joined = JoinDD(start, d, n)
      BY <2>2
    <3> HIDE DEF n, joined
    <3>3. Typed(joined) /\ SameLinks(start, joined)
      BY <1>2, <3>1, <3>2, JoinDDTyped, JoinDDLinks
    <3>4. Linked(joined)
      BY <1>2, <3>3, SameLinksLinked
    <3> QED BY <1>2, <3>3, <3>4 DEF SameLinks
  <2> QED BY <2>1, <2>2
<1> HIDE DEF joined
<1>4. Linked(undone)
  <2>1. undone.dd = r.dd /\ undone.dds = joined.dds
    BY <1>3 DEF Typed
  <2> HIDE DEF undone
  <2>2. SameLinks(r, undone)
    BY <1>3, <2>1 DEF SameLinks
  <2> QED BY <2>2, SameLinksLinked
<1>5. Linked(renamed)
  <2>1. joined.dd[d] \in DDObjects
    BY <1>3, TypedObjects
  <2>2. named.dds = joined.dd[d].dds
    BY <2>1 DEF DDObjects
  <2> HIDE DEF named
  <2>3. SameLinks(joined, renamed)
    BY <1>3, <2>2 DEF SameLinks, Typed
  <2> QED BY <1>3, <2>3, SameLinksLinked
<1>6. RegisterDD(r, m) \in {r, joined, undone, renamed}
  <2> HIDE DEF new
  <2> QED BY DEF RegisterDD, start, joined, new
<1> HIDE DEF undone, renamed
<1> QED BY <1>3, <1>4, <1>5, <1>6

LEMMA DeregisterDDLinked ==
  ASSUME NEW r, Typed(r), Linked(r), NEW d
  PROVE  Linked(DeregisterDD(r, d))
<1> DEFINE left == StoredPrefix(r.dd[d].dds, r.dds)
           s    == DeregisterDD(r, d)
<1>1. CASE d \in DOMAIN r.dd
  <2>1. r.dd[d] \in DDObjects
    BY <1>1, TypedObjects
  <2>2. s.dds = [x \in DOMAIN r.dds |->
                   IF x \in left THEN [r.dds[x] EXCEPT !.dds = Without(@, d)]
                   ELSE r.dds[x]]
    BY <1>1 DEF DeregisterDD, Typed
  <2>3. s.dd = IF Range(r.dd[d].dds) = left THEN Drop(r.dd, d)
               ELSE [r.dd EXCEPT ![d].members = <<>>]
    BY <1>1 DEF DeregisterDD, Typed
  <2> HIDE DEF s, left
  <2>4. /\ DOMAIN s.dds = DOMAIN r.dds
        /\ \A x \in DOMAIN r.dds :
             /\ IsInjective(s.dds[x].dds)
             /\ Range(s.dds[x].dds) =
                  IF x \in left THEN Range(r.dds[x].dds) \ {d}
                  ELSE Range(r.dds[x].dds)
    <3> SUFFICES ASSUME NEW x \in DOMAIN r.dds
                 PROVE  /\ IsInjective(s.dds[x].dds)
                        /\ Range(s.dds[x].dds) =
                             IF x \in left THEN Range(r.dds[x].dds) \ {d}
                             ELSE Range(r.dds[x].dds)
      BY <2>2
    <3>1. r.dds[x] \in DDSObjects /\ IsInjective(r.dds[x].dds)
      BY TypedObjects DEF Linked, UniqueLinks
    <3>2. s.dds[x].dds = IF x \in left THEN Without(r.dds[x].dds, d)
                         ELSE r.dds[x].dds
      BY <2>2, <3>1 DEF DDSObjects
    <3>3. r.dds[x].dds \in Seq(DDs)
      BY <3>1 DEF DDSObjects
    <3> QED BY <3>1, <3>2, <3>3, WithoutLinks
  <2>5. /\ \A x \in DOMAIN r.dd \ {d} : x \in DOMAIN s.dd /\ s.dd[x] = r.dd[x]
        /\ DOMAIN s.dd \subseteq DOMAIN r.dd
        /\ d \in DOMAIN s.dd => s.dd[d].dds = r.dd[d].dds
        /\ d \notin DOMAIN s.dd => Range(r.dd[d].dds) = left
    <3>1. CASE Range(r.dd[d].dds) = left
      BY <2>3, <3>1 DEF Drop
    <3>2. CASE Range(r.dd[d].dds) # left
      BY <1>1, <2>1, <2>3, <3>2 DEF DDObjects
    <3> QED BY <3>1, <3>2
  <2>6. UniqueLinks(s)
    BY <2>4, <2>5 DEF UniqueLinks, Linked
  <2>7. ASSUME NEW x \in DOMAIN s.dds, NEW y \in Range(s.dds[x].dds)
        PROVE  y \in DOMAIN s.dd /\ x \in Range(s.dd[y].dds)
    <3>1. y \in Range(r.dds[x].dds) /\ (x \in left => y # d)
      BY <2>4, <2>7
    <3>2. y \in DOMAIN r.dd /\ x \in Range(r.dd[y].dds)
      BY <2>4, <2>7, <3>1 DEF Linked, DDsOfSets
    <3> QED BY <2>5, <3>1, <3>2
  <2> QED BY <2>6, <2>7 DEF Linked, DDsOfSets, s
<1>2. CASE d \notin DOMAIN r.dd
  BY <1>2 DEF DeregisterDD
<1> QED BY <1>1, <1>2

(***************************************************************************)
(* Discovery Domain Sets.                                                  *)
(***************************************************************************)

\* The set goes, and with it every link to it from the DDs it lists.
LEMMA DeregisterDDSLinked ==
  ASSUME NEW r, Typed(r), Linked(r), NEW s
  PROVE  /\ Linked(DeregisterDDS(r, s))
         /\ s \notin DOMAIN DeregisterDDS(r, s).dds
         /\ DOMAIN DeregisterDDS(r, s).dd = DOMAIN r.dd
<1> DEFINE listed  == r.dds[s].dds
           left    == StoredPrefix(listed, r.dd)
           dark(d) == ~IsDDActive(r, d, {s})
           dd      == [d \in DOMAIN r.dd |->
                         IF d \notin left THEN r.dd[d]
                         ELSE [r.dd[d] EXCEPT !.dds = Without(@, s),
                                              !.active = @ /\ ~dark(d)]]
           unlinked == [r EXCEPT !.dd = dd]
           changed == SelectSeq(listed, LAMBDA d : r.dd[d].active /\ dark(d))
           flagged == ChangeMemberFlags(unlinked, changed)
           t       == DeregisterDDS(r, s)
<1>1. CASE s \in DOMAIN r.dds
  <2>1. listed \in Seq(DDs)
    BY <1>1, LinkLists
  <2>2. left = Range(listed)
    BY <1>1, <2>1, StoredPrefixAll DEF Linked, DDsOfSets
  <2>3. t = [flagged EXCEPT !.dds = Drop(@, s)]
    BY <1>1, <2>2 DEF DeregisterDDS
  <2>4. \A d \in DOMAIN r.dd : dd[d].dds \in {r.dd[d].dds, Without(r.dd[d].dds, s)}
    <3> HIDE DEF dark, left
    <3> QED BY TypedObjects DEF DDObjects
  <2>5. DOMAIN dd = DOMAIN r.dd
    OBVIOUS
  <2> HIDE DEF dd, changed, listed, left
  <2>6. /\ "dd" \in DOMAIN flagged /\ "dds" \in DOMAIN flagged
        /\ flagged.dd = dd /\ flagged.dds = r.dds
    BY DEF ChangeMemberFlags, Typed
  <2> HIDE DEF flagged
  <2>7. t.dd = dd /\ t.dds = Drop(r.dds, s)
    <3> HIDE DEF t
    <3> QED BY <2>3, <2>6
  <2> HIDE DEF t
  <2>8. \A d \in DOMAIN r.dd :
          /\ IsInjective(t.dd[d].dds)
          /\ Range(r.dd[d].dds) \ {s} \subseteq Range(t.dd[d].dds)
    BY <2>4, <2>7, LinkLists, WithoutLinks DEF Linked, UniqueLinks
  <2>9. UniqueLinks(t)
    BY <2>5, <2>7, <2>8 DEF UniqueLinks, Linked, Drop
  <2>10. DDsOfSets(t)
    BY <2>5, <2>7, <2>8 DEF DDsOfSets, Linked, Drop
  <2>11. s \notin DOMAIN t.dds
    BY <2>7 DEF Drop
  <2> QED BY <2>5, <2>7, <2>9, <2>10, <2>11 DEF Linked, t
<1>2. CASE s \notin DOMAIN r.dds
  BY <1>2 DEF DeregisterDDS
<1> QED BY <1>1, <1>2

LEMMA DeregisterDDSMemberLinked ==
  ASSUME NEW r, Typed(r), Linked(r), NEW s, NEW d
  PROVE  Linked(DeregisterDDSMember(r, s, d))
<1> DEFINE t == DeregisterDDSMember(r, s, d)
<1>1. CASE s \in DOMAIN r.dds
  <2>1. r.dds[s] \in DDSObjects /\ \A x \in DOMAIN r.dd : r.dd[x] \in DDObjects
    BY <1>1, TypedObjects
  <2>2. /\ DOMAIN t.dds = DOMAIN r.dds
        /\ t.dds[s].dds = Without(r.dds[s].dds, d)
        /\ \A x \in DOMAIN r.dds \ {s} : t.dds[x] = r.dds[x]
    BY <1>1, <2>1 DEF DeregisterDDSMember, Typed, DDSObjects
  <2>3. /\ DOMAIN t.dd = DOMAIN r.dd
        /\ d \in DOMAIN r.dd => t.dd[d].dds = Without(r.dd[d].dds, s)
        /\ \A x \in DOMAIN r.dd \ {d} : t.dd[x] = r.dd[x]
    BY <1>1, <2>1 DEF DeregisterDDSMember, Typed, DDObjects
  <2> HIDE DEF t
  <2>4. IsInjective(t.dds[s].dds) /\ Range(t.dds[s].dds) = Range(r.dds[s].dds) \ {d}
    BY <1>1, <2>2, LinkLists, WithoutLinks DEF Linked, UniqueLinks
  <2>5. d \in DOMAIN r.dd =>
          IsInjective(t.dd[d].dds) /\ Range(t.dd[d].dds) = Range(r.dd[d].dds) \ {s}
    BY <2>3, LinkLists, WithoutLinks DEF Linked, UniqueLinks
  <2>6. UniqueLinks(t)
    BY <2>2, <2>3, <2>4, <2>5 DEF UniqueLinks, Linked
  <2>7. ASSUME NEW x \in DOMAIN t.dds, NEW y \in Range(t.dds[x].dds)
        PROVE  y \in DOMAIN t.dd /\ x \in Range(t.dd[y].dds)
    <3>1. y \in Range(r.dds[x].dds) /\ (x = s => y # d)
      BY <2>2, <2>4, <2>7
    <3>2. y \in DOMAIN r.dd /\ x \in Range(r.dd[y].dds)
      BY <2>2, <2>7, <3>1 DEF Linked, DDsOfSets
    <3> QED BY <2>3, <2>5, <3>1, <3>2
  <2> QED BY <2>6, <2>7 DEF Linked, DDsOfSets, t
<1>2. CASE s \notin DOMAIN r.dds
  BY <1>2 DEF DeregisterDDSMember
<1> QED BY <1>1, <1>2

LEMMA AddDDSToDDLinked ==
  ASSUME NEW r, Typed(r), Linked(r), NEW s \in DOMAIN r.dds,
         NEW d \in DOMAIN r.dd, NEW status
  PROVE  Linked(AddDDSToDD(r, s, d, status))
<1> DEFINE t == AddDDSToDD(r, s, d, status)
<1>1. r.dds[s] \in DDSObjects /\ r.dd[d] \in DDObjects /\ s \in DDSs /\ d \in DDs
  BY TypedObjects
<1>2. /\ DOMAIN t.dds = DOMAIN r.dds
      /\ t.dds[s].dds = AppendNew(r.dds[s].dds, d)
      /\ \A x \in DOMAIN r.dds \ {s} : t.dds[x] = r.dds[x]
      /\ DOMAIN t.dd = DOMAIN r.dd
      /\ t.dd[d].dds = AppendNew(r.dd[d].dds, s)
      /\ \A x \in DOMAIN r.dd \ {d} : t.dd[x] = r.dd[x]
  BY <1>1 DEF AddDDSToDD, Typed, DDObjects, DDSObjects
<1> HIDE DEF t
<1>3. /\ IsInjective(t.dds[s].dds)
      /\ Range(t.dds[s].dds) = Range(r.dds[s].dds) \cup {d}
  BY <1>1, <1>2, LinkLists, AppendNewLinks DEF Linked, UniqueLinks
<1>4. /\ IsInjective(t.dd[d].dds)
      /\ Range(t.dd[d].dds) = Range(r.dd[d].dds) \cup {s}
  BY <1>1, <1>2, LinkLists, AppendNewLinks DEF Linked, UniqueLinks
<1>5. UniqueLinks(t)
  BY <1>2, <1>3, <1>4 DEF UniqueLinks, Linked
<1>6. ASSUME NEW x \in DOMAIN t.dds, NEW y \in Range(t.dds[x].dds)
      PROVE  y \in DOMAIN t.dd /\ x \in Range(t.dd[y].dds)
  <2>1. CASE y \in Range(r.dds[x].dds)
    <3>1. y \in DOMAIN r.dd /\ x \in Range(r.dd[y].dds)
      BY <1>2, <1>6, <2>1 DEF Linked, DDsOfSets
    <3> QED BY <1>2, <1>4, <3>1
  <2>2. CASE y \notin Range(r.dds[x].dds)
    <3>1. x = s /\ y = d
      BY <1>2, <1>3, <1>6, <2>2
    <3> QED BY <1>2, <1>4, <3>1
  <2> QED BY <2>1, <2>2
<1> QED BY <1>5, <1>6 DEF Linked, DDsOfSets, t

LEMMA SpreadStatusLinks ==
  ASSUME NEW r, Typed(r), NEW s, NEW w
  PROVE  SameLinks(r, SpreadStatus(r, s, w))
<1> DEFINE visited == SubSeq(r.dds[s].dds, 1, w.visited)
           changed == SelectSeq(visited, LAMBDA d :
                        r.dd[d].active # IsDDActive(r, d, {}))
           dd == [d \in DOMAIN r.dd |->
                    IF d \in Range(visited)
                    THEN [r.dd[d] EXCEPT !.active = IsDDActive(r, d, {})]
                    ELSE r.dd[d]]
           spread == [r EXCEPT !.dd = dd]
           flagged == ChangeMemberFlags(spread, changed)
<1>1. DOMAIN dd = DOMAIN r.dd /\ \A d \in DOMAIN r.dd : dd[d].dds = r.dd[d].dds
  <2> HIDE DEF visited
  <2> QED BY TypedObjects DEF DDObjects
<1>2. SpreadStatus(r, s, w) \in {spread, flagged}
  BY DEF SpreadStatus
<1> HIDE DEF dd, changed
<1>3. /\ spread.dd = dd /\ spread.dds = r.dds
      /\ flagged.dd = dd /\ flagged.dds = r.dds
  BY DEF ChangeMemberFlags, Typed
<1> HIDE DEF spread, flagged
<1>4. SameLinks(r, spread) /\ SameLinks(r, flagged)
  BY <1>1, <1>3 DEF SameLinks
<1> QED BY <1>2, <1>4

\* A set that is placed anew starts without a DD.
LEMMA PlaceDDSLinked ==
  ASSUME NEW r, Typed(r), Linked(r), NEW m \in DDSRequests
  PROVE  Linked(PlaceDDS(r, m).db)
<1> DEFINE s        == m.dds
           new      == s \notin DOMAIN r.dds \/ m.replace
           before   == IF m.replace THEN DeregisterDDS(r, s) ELSE r
           old      == IF new THEN [sym |-> NoSym, status |-> FALSE, dds |-> <<>>]
                       ELSE r.dds[s]
           start    == [before EXCEPT !.dds = Put(@, s, old)]
           status   == IF m.status = <<>> THEN old.status ELSE m.status[1]
           given    == IF m.statusLast THEN old.status ELSE status
           unknown  == m.dd # <<>> /\ m.dd[1] \notin DOMAIN r.dd
           linked   == IF m.dd = <<>> \/ unknown THEN start
                       ELSE AddDDSToDD(start, s, m.dd[1], given)
           written  == [linked EXCEPT
                          !.dds[s].status = status,
                          !.dds[s].sym = IF m.sym = NoSym THEN @ ELSE m.sym]
           undone   == [linked EXCEPT !.dds = before.dds]
<1>1. /\ Typed(before) /\ Linked(before)
      /\ DOMAIN before.dd = DOMAIN r.dd
      /\ new => s \notin DOMAIN before.dds
      /\ ~new => before = r
  BY DeregisterDDSTyped, DeregisterDDSLinked
<1>2. /\ old \in DDSObjects
      /\ new => old.dds = <<>>
      /\ ~new => s \in DOMAIN r.dds /\ old = r.dds[s]
  BY TypedObjects, EmptySeq DEF DDSObjects
<1> HIDE DEF before, old
<1>3. /\ Typed(start) /\ start.dd = before.dd
      /\ start.dds = Put(before.dds, s, old) /\ s \in DOMAIN start.dds
  <2>1. s \in DDSs
    BY DEF DDSRequests
  <2>2. Typed(start)
    BY <1>1, <1>2, <2>1, TypedTables, PutTable, TypedUpdate
  <2> QED BY <1>1, <2>2 DEF Typed, Put
<1> HIDE DEF start
<1>4. Linked(start)
  <2>1. CASE new
    <3>1. UniqueLinks(start)
      BY <1>1, <1>2, <1>3, <2>1, EmptyLinks DEF Linked, UniqueLinks, Put
    <3>2. DDsOfSets(start)
      BY <1>1, <1>2, <1>3, <2>1, EmptyLinks DEF Linked, DDsOfSets, Put
    <3> QED BY <3>1, <3>2 DEF Linked
  <2>2. CASE ~new
    <3>1. SameLinks(before, start)
      BY <1>1, <1>2, <1>3, <2>2 DEF SameLinks, Put
    <3> QED BY <1>1, <3>1, SameLinksLinked
  <2> QED BY <2>1, <2>2
<1> HIDE DEF status, given
<1>5. Linked(linked) /\ s \in DOMAIN linked.dds
  <2>1. CASE m.dd = <<>> \/ unknown
    BY <1>3, <1>4, <2>1
  <2>2. CASE m.dd # <<>> /\ m.dd[1] \in DOMAIN r.dd
    <3>1. linked = AddDDSToDD(start, s, m.dd[1], given)
      BY <2>2
    <3>2. m.dd[1] \in DOMAIN start.dd
      BY <1>1, <1>3, <2>2
    <3>3. Linked(linked)
      BY <1>3, <1>4, <3>1, <3>2, AddDDSToDDLinked
    <3>4. DOMAIN linked.dds = DOMAIN start.dds
      BY <1>3, <3>1 DEF AddDDSToDD, Typed
    <3> QED BY <1>3, <3>3, <3>4
  <2> QED BY <2>1, <2>2
<1>6. /\ "dds" \in DOMAIN linked /\ "dd" \in DOMAIN linked
      /\ \A x \in DOMAIN linked.dds :
           DOMAIN linked.dds[x] = {"sym", "status", "dds"}
  <2>1. \A x \in DOMAIN start.dds : DOMAIN start.dds[x] = {"sym", "status", "dds"}
    BY <1>3, TypedObjects DEF DDSObjects
  <2> QED BY <1>3, <2>1 DEF AddDDSToDD, Typed
<1>7. /\ \A x \in DOMAIN before.dds \ {s} :
           x \in DOMAIN linked.dds /\ linked.dds[x] = before.dds[x]
      /\ \A x \in DOMAIN before.dd :
           /\ x \in DOMAIN linked.dd
           /\ Range(before.dd[x].dds) \subseteq Range(linked.dd[x].dds)
  <2>1. CASE m.dd = <<>> \/ unknown
    BY <1>3, <2>1 DEF Put
  <2>2. CASE m.dd # <<>> /\ m.dd[1] \in DOMAIN r.dd
    <3> DEFINE d == m.dd[1]
    <3>1. linked = AddDDSToDD(start, s, d, given)
      BY <2>2
    <3>2. d \in DOMAIN start.dd
      BY <1>1, <1>3, <2>2
    <3> HIDE DEF d, linked
    <3>3. start.dd[d] \in DDObjects /\ start.dds[s] \in DDSObjects
      BY <1>3, <3>2, TypedObjects
    <3>4. /\ \A x \in DOMAIN start.dds \ {s} :
               x \in DOMAIN linked.dds /\ linked.dds[x] = start.dds[x]
          /\ DOMAIN linked.dd = DOMAIN start.dd
          /\ linked.dd[d].dds = AppendNew(start.dd[d].dds, s)
          /\ \A x \in DOMAIN start.dd \ {d} : linked.dd[x] = start.dd[x]
      BY <1>3, <3>1, <3>2, <3>3 DEF AddDDSToDD, Typed, DDObjects, DDSObjects
    <3>5. s \in DDSs /\ start.dd[d].dds \in Seq(DDSs) /\ IsInjective(start.dd[d].dds)
      BY <1>3, <1>4, <3>2, <3>3, TypedObjects DEF DDObjects, Linked, UniqueLinks
    <3>6. Range(linked.dd[d].dds) = Range(start.dd[d].dds) \cup {s}
      BY <3>4, <3>5, AppendNewLinks
    <3> QED BY <1>3, <3>2, <3>4, <3>6 DEF Put
  <2> QED BY <2>1, <2>2
<1> HIDE DEF linked
<1>8. Linked(written)
  <2>1. SameLinks(linked, written)
    BY <1>5, <1>6 DEF SameLinks
  <2> QED BY <1>5, <2>1, SameLinksLinked
<1>9. ASSUME new PROVE Linked(undone)
  <2>1. undone.dds = before.dds /\ undone.dd = linked.dd
    BY <1>6
  <2> HIDE DEF undone
  <2>2. UniqueLinks(undone)
    BY <1>1, <1>5, <2>1 DEF Linked, UniqueLinks
  <2>3. DDsOfSets(undone)
    BY <1>1, <1>7, <1>9, <2>1 DEF Linked, DDsOfSets
  <2> QED BY <2>2, <2>3 DEF Linked
<1>10. PlaceDDS(r, m).db \in {before, linked, written, undone}
  BY DEF PlaceDDS, before, old, start, status, given, linked
<1>11. ASSUME ~new PROVE PlaceDDS(r, m).db \in {before, linked, written}
  BY <1>11 DEF PlaceDDS, before, old, start, status, given, linked
<1> HIDE DEF undone, written
<1> QED BY <1>1, <1>5, <1>8, <1>9, <1>10, <1>11

LEMMA RegisterDDSResultsLinked ==
  ASSUME NEW r, Typed(r), Linked(r), NEW m \in DDSRequests,
         NEW res \in RegisterDDSResults(r, m)
  PROVE  Linked(res.db)
<1> DEFINE p == PlaceDDS(r, m).db
<1>1. Typed(p) /\ Linked(p)
  BY PlaceDDSTyped, PlaceDDSLinked
<1>2. res.db = p \/ \E w : res.db = SpreadStatus(p, m.dds, w)
  BY DEF RegisterDDSResults
<1> HIDE DEF p
<1>3. \A w : SameLinks(p, SpreadStatus(p, m.dds, w))
  BY <1>1, SpreadStatusLinks
<1> QED BY <1>1, <1>2, <1>3, SameLinksLinked

(***************************************************************************)
(* The theorems.                                                           *)
(***************************************************************************)

LEMMA InitLinked == Init => Linked(db)
<1> SUFFICES ASSUME NEW d \in DDs, NEW s \in DDSs,
               db = [entity |-> Empty, node |-> Empty, idx |-> Empty,
                     dd  |-> Put(Empty, d, [sym |-> DefaultSym, active |-> TRUE,
                                            members |-> <<>>, dds |-> <<s>>]),
                     dds |-> Put(Empty, s, [sym |-> DefaultDDSSym,
                                            status |-> TRUE, dds |-> <<d>>])]
             PROVE  Linked(db)
  BY DEF Init
<1>1. /\ DOMAIN db.dd = {d} /\ db.dd[d].dds = <<s>>
      /\ DOMAIN db.dds = {s} /\ db.dds[s].dds = <<d>>
  BY DEF Put, Empty
<1>2. \A x : IsInjective(<<x>>) /\ Range(<<x>>) = {x}
  BY DEF IsInjective, Range
<1>3. UniqueLinks(db)
  BY <1>1, <1>2 DEF UniqueLinks
<1>4. ASSUME NEW x \in DOMAIN db.dds, NEW y \in Range(db.dds[x].dds)
      PROVE  y \in DOMAIN db.dd /\ x \in Range(db.dd[y].dds)
  <2>1. x = s /\ y = d
    BY <1>1, <1>2, <1>4
  <2> QED BY <1>1, <1>2, <2>1
<1> QED BY <1>3, <1>4 DEF Linked, DDsOfSets

LEMMA RequestLinked ==
  ASSUME Typed(db), Linked(db), Request \/ CrashInRegDDS
  PROVE  Linked(db')
<1>1. CASE RegEntity
  BY <1>1, RegisterEntityLinks, SameLinksLinked, RequestAssumption DEF RegEntity
<1>2. CASE DeregEntity
  <2>1. db'.dd = db.dd /\ db'.dds = db.dds
    BY <1>2, RemoveEntityLinks DEF DeregEntity
  <2> QED BY <2>1, SameDomains, SameLinksLinked
<1>3. CASE RegNode
  BY <1>3, RegisterNodeLinks, SameLinksLinked DEF RegNode
<1>4. CASE DeregNode
  <2>1. db'.dd = db.dd /\ db'.dds = db.dds
    BY <1>4, RemoveNodeLinks DEF DeregNode
  <2> QED BY <2>1, SameDomains, SameLinksLinked
<1>5. CASE RegDD
  BY <1>5, RegisterDDLinked, RequestAssumption DEF RegDD
<1>6. CASE DeregDDMember
  BY <1>6, DeregisterDDMemberLinks, SameLinksLinked DEF DeregDDMember
<1>7. CASE DeregDD
  BY <1>7, DeregisterDDLinked DEF DeregDD
<1>8. CASE RegDDS
  BY <1>8, RegisterDDSResultsLinked, RequestAssumption DEF RegDDS
<1>9. CASE DeregDDSMember
  BY <1>9, DeregisterDDSMemberLinked DEF DeregDDSMember
<1>10. CASE DeregDDS
  BY <1>10, DeregisterDDSLinked DEF DeregDDS
<1>11. CASE CrashInRegDDS
  BY <1>11, RegisterDDSResultsLinked, RequestAssumption DEF CrashInRegDDS
<1> QED BY <1>1, <1>2, <1>3, <1>4, <1>5, <1>6, <1>7, <1>8, <1>9, <1>10, <1>11
        DEF Request

\* Both halves of the links are kept by every request, also by one that ends in
\* a crash of the walk over a set.
THEOREM LinkedAlways == Spec => []Linked(db)
<1>1. ASSUME TypeOK, Linked(db), [Next]_vars
      PROVE  Linked(db)'
  <2>1. CASE Next
    BY <1>1, <2>1, RequestLinked
       DEF Next, TypeOK, Linked, UniqueLinks, DDsOfSets
  <2>2. CASE UNCHANGED vars
    BY <1>1, <2>2 DEF vars, Linked, UniqueLinks, DDsOfSets
  <2> QED BY <1>1, <2>1, <2>2
<1> QED BY <1>1, InitLinked, TypeCorrect, PTL DEF Spec

\* A set lists only DDs that exist and list the set: the walks over the DDs of
\* a set (SNSdbRemoveAttrDDS_Entry, ISNSdbAddAttrDDS) meet no missing DD.
THEOREM SetsListedAlways == Spec => []SetsListed
<1>1. Linked(db) => SetsListed
  BY DEF Linked, SetsListed
<1> QED BY LinkedAlways, <1>1, PTL

\* No list of members, DDs or DDSs holds an element twice (Add_DD_Member,
\* Add_dds_to_dd), so taking out one cell takes the element out.
THEOREM NoDuplicatesAlways == Spec => []NoDuplicates
<1>1. Linked(db) /\ Sound(db) => NoDuplicates
  BY DEF Linked, Sound, NoDuplicates
<1> QED BY LinkedAlways, SoundAlways, <1>1, PTL

-----------------------------------------------------------------------------
(***************************************************************************)
(* The lists of nodes of the entities: an entity lists only nodes that are *)
(* registered under it, so that the removal of an entity finds every node  *)
(* it lists.  The invariant is inductive on well typed tables: a node      *)
(* belongs to one entity, and the handlers of domains and sets change      *)
(* neither the entities nor whose a node is.                               *)
(***************************************************************************)

\* The tables r and s agree on the entities and on whose the nodes are.
SameOwners(r, s) ==
  /\ s.entity = r.entity
  /\ DOMAIN s.node = DOMAIN r.node
  /\ \A n \in DOMAIN r.node : s.node[n].entity = r.node[n].entity

LEMMA SameOwnersListed ==
  ASSUME NEW r, NEW s, NodesOfEntities(r), SameOwners(r, s)
  PROVE  NodesOfEntities(s)
BY DEF NodesOfEntities, SameOwners

LEMMA SameOwnersTransitive ==
  ASSUME NEW r, NEW s, NEW t, SameOwners(r, s), SameOwners(s, t)
  PROVE  SameOwners(r, t)
BY DEF SameOwners

\* Tables that are not looked at.
LEMMA SameTables ==
  ASSUME NEW r, NEW s, s.entity = r.entity, s.node = r.node
  PROVE  SameOwners(r, s)
BY DEF SameOwners

LEMMA OtherTables ==
  ASSUME NEW r, Typed(r), NEW t
  PROVE  /\ SameOwners(r, [r EXCEPT !.idx = t])
         /\ SameOwners(r, [r EXCEPT !.dd = t])
         /\ SameOwners(r, [r EXCEPT !.dds = t])
BY DEF Typed, SameOwners

(***************************************************************************)
(* Domains and their members.                                              *)
(***************************************************************************)

LEMMA AddDDToNodeOwners ==
  ASSUME NEW r, Typed(r), NEW d, NEW n
  PROVE  SameOwners(r, AddDDToNode(r, d, n))
<1> DEFINE node == [r.node[n] EXCEPT !.dds = @ \cup {d},
                                     !.active = @ \/ r.dd[d].active]
           t == [r.node EXCEPT ![n] = node]
<1>1. CASE n \in DOMAIN r.node
  <2>1. r.node[n] \in Nodes
    BY <1>1, TypedObjects
  <2>2. node.entity = r.node[n].entity
    BY <2>1 DEF Nodes
  <2>3. AddDDToNode(r, d, n) = [r EXCEPT !.node = t]
    BY <1>1, <2>1 DEF AddDDToNode, Nodes, Typed
  <2> HIDE DEF node
  <2> QED BY <1>1, <2>2, <2>3 DEF SameOwners, Typed
<1>2. CASE n \notin DOMAIN r.node
  BY <1>2 DEF AddDDToNode, SameOwners
<1> QED BY <1>1, <1>2

LEMMA AddDDMemberOwners ==
  ASSUME NEW r, Typed(r), NEW d, NEW n, NEW enabled
  PROVE  /\ AddDDMember(r, d, n, enabled).entity = r.entity
         /\ AddDDMember(r, d, n, enabled).node = r.node
         /\ SameOwners(r, AddDDMember(r, d, n, enabled))
<1>1. /\ AddDDMember(r, d, n, enabled).entity = r.entity
      /\ AddDDMember(r, d, n, enabled).node = r.node
  BY DEF AddDDMember, Typed
<1> QED BY <1>1, SameTables

LEMMA JoinDDOwners ==
  ASSUME NEW r, Typed(r), NEW d \in DOMAIN r.dd, NEW n \in Names
  PROVE  SameOwners(r, JoinDD(r, d, n))
<1> DEFINE s == AddDDToNode(r, d, n)
<1>1. Typed(s) /\ SameOwners(r, s)
  BY AddDDToNodeTyped, AddDDToNodeOwners
<1> HIDE DEF s
<1>2. SameOwners(s, AddDDMember(s, d, n, n \in DOMAIN r.node))
  BY <1>1, AddDDMemberOwners
<1>3. SameOwners(r, AddDDMember(s, d, n, n \in DOMAIN r.node))
  BY <1>1, <1>2, SameOwnersTransitive
<1> QED BY <1>3 DEF JoinDD, s

LEMMA RemoveDDFromNodeOwners ==
  ASSUME NEW r, Typed(r), NEW d, NEW n
  PROVE  SameOwners(r, RemoveDDFromNode(r, d, n))
<1> DEFINE rest == r.node[n].dds \ {d}
           live == \E x \in rest \cap DOMAIN r.dd : r.dd[x].active
           node == [r.node[n] EXCEPT !.dds = rest, !.active = @ /\ live]
           t == [r.node EXCEPT ![n] = node]
<1>1. CASE n \in DOMAIN r.node
  <2>1. r.node[n] \in Nodes
    BY <1>1, TypedObjects
  <2>2. RemoveDDFromNode(r, d, n) \in {r, [r EXCEPT !.node = t]}
    BY <1>1, <2>1 DEF RemoveDDFromNode, Nodes, Typed
  <2> HIDE DEF live
  <2>3. node.entity = r.node[n].entity
    BY <2>1 DEF Nodes
  <2> HIDE DEF node
  <2>4. SameOwners(r, r) /\ SameOwners(r, [r EXCEPT !.node = t])
    BY <1>1, <2>3 DEF SameOwners, Typed
  <2> QED BY <2>2, <2>4
<1>2. CASE n \notin DOMAIN r.node
  BY <1>2 DEF RemoveDDFromNode, SameOwners
<1> QED BY <1>1, <1>2

LEMMA RemoveDDMemberOwners ==
  ASSUME NEW r, Typed(r), NEW d, NEW n
  PROVE  SameOwners(r, RemoveDDMember(r, d, n))
<1>1. /\ RemoveDDMember(r, d, n).entity = r.entity
      /\ RemoveDDMember(r, d, n).node = r.node
  BY DEF RemoveDDMember, Typed
<1> QED BY <1>1, SameTables

LEMMA DeregisterDDMemberOwners ==
  ASSUME NEW r, Typed(r), NEW d, NEW a \in MemberAttrs
  PROVE  SameOwners(r, DeregisterDDMember(r, d, a))
<1> DEFINE n == AttrName(a)
           s == RemoveDDFromNode(r, d, n)
           t == RemoveDDMember(s, d, n)
<1>1. n \in Names
  BY AttrNameType
<1>2. Typed(s) /\ SameOwners(r, s)
  BY <1>1, RemoveDDFromNodeTyped, RemoveDDFromNodeOwners
<1>3. SameOwners(s, t)
  <2> HIDE DEF s
  <2> QED BY <1>2, RemoveDDMemberOwners
<1>4. DeregisterDDMember(r, d, a) \in {r, t}
  BY DEF DeregisterDDMember
<1> HIDE DEF s, t
<1>5. SameOwners(r, r) /\ SameOwners(r, t)
  BY <1>2, <1>3, SameOwnersTransitive DEF SameOwners
<1> QED BY <1>4, <1>5

LEMMA RegisterDDOwners ==
  ASSUME NEW r, Typed(r), NEW m \in DDRequests
  PROVE  SameOwners(r, RegisterDD(r, m))
<1> DEFINE d        == m.dd
           exists   == d \in DOMAIN r.dd
           new      == [sym |-> IF m.sym = NoSym THEN m.auto ELSE NoSym,
                        active |-> FALSE, members |-> <<>>, dds |-> <<>>]
           start    == IF exists THEN r ELSE [r EXCEPT !.dd = Put(@, d, new)]
           unknown  == m.member # <<>> /\ ~AttrKnown(r, m.member[1])
           joined   == IF m.member = <<>> \/ unknown THEN start
                       ELSE JoinDD(start, d, AttrName(m.member[1]))
           undone   == [joined EXCEPT !.dd = r.dd]
           renamed  == [joined EXCEPT !.dd[d].sym = NameRead(m)]
<1>1. d \in DDs /\ (m.member # <<>> => m.member[1] \in MemberAttrs)
  BY DEF DDRequests
<1>2. Typed(start) /\ d \in DOMAIN start.dd /\ SameOwners(r, start)
  <2>1. new \in DDObjects
    BY <1>1, RequestNames, EmptySeq DEF DDObjects
  <2>2. Typed([r EXCEPT !.dd = Put(r.dd, d, new)])
    BY <1>1, <2>1, TypedTables, PutTable, TypedUpdate
  <2> HIDE DEF new
  <2>3. d \in DOMAIN start.dd
    BY DEF Put, Typed
  <2>4. SameOwners(r, start)
    BY DEF Typed, SameOwners
  <2> QED BY <2>2, <2>3, <2>4
<1> HIDE DEF start
<1>3. Typed(joined) /\ SameOwners(r, joined)
  <2>1. CASE m.member = <<>> \/ unknown
    BY <1>2, <2>1
  <2>2. CASE m.member # <<>> /\ ~unknown
    <3> DEFINE n == AttrName(m.member[1])
    <3>1. n \in Names
      BY <1>1, <2>2, AttrNameType
    <3>2. joined = JoinDD(start, d, n)
      BY <2>2
    <3> HIDE DEF n, joined
    <3>3. Typed(joined) /\ SameOwners(start, joined)
      BY <1>2, <3>1, <3>2, JoinDDTyped, JoinDDOwners
    <3> QED BY <1>2, <3>3, SameOwnersTransitive
  <2> QED BY <2>1, <2>2
<1> HIDE DEF joined
<1>4. SameOwners(r, undone) /\ SameOwners(r, renamed)
  BY <1>3 DEF SameOwners, Typed
<1>5. SameOwners(r, r)
  BY DEF SameOwners
<1>6. RegisterDD(r, m) \in {r, joined, undone, renamed}
  BY DEF RegisterDD, start, joined
<1> HIDE DEF undone, renamed
<1> QED BY <1>3, <1>4, <1>5, <1>6

LEMMA DeregisterDDOwners ==
  ASSUME NEW r, Typed(r), NEW d
  PROVE  SameOwners(r, DeregisterDD(r, d))
<1> DEFINE s == DeregisterDD(r, d)
<1>1. CASE d \in DOMAIN r.dd
  <2>1. \A n \in DOMAIN r.node :
          RemoveDDFromNode(r, d, n).node[n].entity = r.node[n].entity
    BY RemoveDDFromNodeOwners DEF SameOwners
  <2>2. /\ s.entity = r.entity
        /\ DOMAIN s.node = DOMAIN r.node
        /\ \A n \in DOMAIN r.node :
             s.node[n] \in {r.node[n], RemoveDDFromNode(r, d, n).node[n]}
    BY <1>1 DEF DeregisterDD, Typed
  <2> HIDE DEF s
  <2>3. SameOwners(r, s)
    BY <2>1, <2>2 DEF SameOwners
  <2> QED BY <2>3 DEF s
<1>2. CASE d \notin DOMAIN r.dd
  BY <1>2 DEF DeregisterDD, SameOwners
<1> QED BY <1>1, <1>2

(***************************************************************************)
(* Discovery Domain Sets.                                                  *)
(***************************************************************************)

LEMMA ChangeMemberFlagsOwners ==
  ASSUME NEW r, Typed(r), NEW ds
  PROVE  SameOwners(r, ChangeMemberFlags(r, ds))
<1> DEFINE s == ChangeMemberFlags(r, ds)
<1>1. /\ s.entity = r.entity
      /\ DOMAIN s.node = DOMAIN r.node
  BY DEF ChangeMemberFlags, Typed
<1>2. \A n \in DOMAIN r.node : s.node[n].entity = r.node[n].entity
  <2> DEFINE Reaching(n) == {i \in DOMAIN ds : n \in FlaggedMembers(r, ds[i])}
             Flag(n) == \/ r.dd[ds[Max(Reaching(n))]].active
                        \/ \E d \in r.node[n].dds : IsDDActive(r, d, {})
  <2>1. \A n \in DOMAIN r.node :
          s.node[n] = IF Reaching(n) = {} THEN r.node[n]
                      ELSE [r.node[n] EXCEPT !.active = Flag(n)]
    BY DEF ChangeMemberFlags, Typed
  <2> HIDE DEF Reaching, Flag, s
  <2>2. ASSUME NEW n \in DOMAIN r.node
        PROVE  s.node[n].entity = r.node[n].entity
    <3>1. r.node[n] \in Nodes
      BY TypedObjects
    <3>2. CASE Reaching(n) = {}
      BY <2>1, <3>2
    <3>3. CASE Reaching(n) # {}
      <4>1. s.node[n] = [r.node[n] EXCEPT !.active = Flag(n)]
        BY <2>1, <3>3
      <4> QED BY <3>1, <4>1 DEF Nodes
    <3> QED BY <3>2, <3>3
  <2> QED BY <2>2
<1> QED BY <1>1, <1>2 DEF SameOwners

LEMMA DeregisterDDSOwners ==
  ASSUME NEW r, Typed(r), NEW s
  PROVE  SameOwners(r, DeregisterDDS(r, s))
<1> DEFINE listed  == r.dds[s].dds
           left    == StoredPrefix(listed, r.dd)
           dark(d) == ~IsDDActive(r, d, {s})
           dd      == [d \in DOMAIN r.dd |->
                         IF d \notin left THEN r.dd[d]
                         ELSE [r.dd[d] EXCEPT !.dds = Without(@, s),
                                              !.active = @ /\ ~dark(d)]]
           unlinked == [r EXCEPT !.dd = dd]
           changed == SelectSeq(listed, LAMBDA d : r.dd[d].active /\ dark(d))
           flagged == ChangeMemberFlags(unlinked, changed)
           removed == [flagged EXCEPT !.dds = Drop(@, s)]
<1>1. IsTable(dd, DDs, DDObjects)
  <2>1. ASSUME NEW d \in DOMAIN r.dd
        PROVE  [r.dd[d] EXCEPT !.dds = Without(@, s),
                               !.active = @ /\ ~dark(d)] \in DDObjects
    <3>1. r.dd[d] \in DDObjects
      BY TypedObjects
    <3>2. Without(r.dd[d].dds, s) \in Seq(DDSs)
      BY <3>1, WithoutType DEF DDObjects
    <3>3. (r.dd[d].active /\ ~dark(d)) \in BOOLEAN
      OBVIOUS
    <3> HIDE DEF dark
    <3> QED BY <3>1, <3>2, <3>3 DEF DDObjects
  <2> HIDE DEF dark, left
  <2> QED BY <2>1, TypedObjects DEF IsTable
<1>2. DeregisterDDS(r, s) \in {r, unlinked, removed}
  BY DEF DeregisterDDS
<1> HIDE DEF dd, changed
<1>3. Typed(unlinked) /\ SameOwners(r, unlinked)
  BY <1>1, TypedUpdate, OtherTables
<1> HIDE DEF unlinked
<1>4. Typed(flagged) /\ SameOwners(r, flagged)
  BY <1>3, ChangeMemberFlagsTyped, ChangeMemberFlagsOwners, SameOwnersTransitive
<1> HIDE DEF flagged
<1>5. SameOwners(r, removed)
  BY <1>4, OtherTables, SameOwnersTransitive
<1>6. SameOwners(r, r)
  BY DEF SameOwners
<1> HIDE DEF removed
<1> QED BY <1>2, <1>3, <1>5, <1>6

LEMMA DeregisterDDSMemberOwners ==
  ASSUME NEW r, Typed(r), NEW s, NEW d
  PROVE  SameOwners(r, DeregisterDDSMember(r, s, d))
<1>1. /\ DeregisterDDSMember(r, s, d).entity = r.entity
      /\ DeregisterDDSMember(r, s, d).node = r.node
  BY DEF DeregisterDDSMember, Typed
<1> QED BY <1>1, SameTables

LEMMA SpreadStatusOwners ==
  ASSUME NEW r, Typed(r), NEW s, NEW w
  PROVE  SameOwners(r, SpreadStatus(r, s, w))
<1> DEFINE visited == SubSeq(r.dds[s].dds, 1, w.visited)
           changed == SelectSeq(visited, LAMBDA d :
                        r.dd[d].active # IsDDActive(r, d, {}))
           dd == [d \in DOMAIN r.dd |->
                    IF d \in Range(visited)
                    THEN [r.dd[d] EXCEPT !.active = IsDDActive(r, d, {})]
                    ELSE r.dd[d]]
           spread == [r EXCEPT !.dd = dd]
           flagged == ChangeMemberFlags(spread, changed)
<1>1. IsTable(dd, DDs, DDObjects)
  <2>1. ASSUME NEW d \in DOMAIN r.dd
        PROVE  [r.dd[d] EXCEPT !.active = IsDDActive(r, d, {})] \in DDObjects
    <3>1. IsDDActive(r, d, {}) \in BOOLEAN
      BY DEF IsDDActive
    <3> QED BY <3>1, TypedObjects DEF DDObjects
  <2> HIDE DEF visited
  <2> QED BY <2>1, TypedObjects DEF IsTable
<1>2. SpreadStatus(r, s, w) \in {spread, flagged}
  BY DEF SpreadStatus
<1> HIDE DEF dd, changed
<1>3. Typed(spread) /\ SameOwners(r, spread)
  BY <1>1, TypedUpdate, OtherTables
<1> HIDE DEF spread
<1>4. SameOwners(r, flagged)
  BY <1>3, ChangeMemberFlagsOwners, SameOwnersTransitive
<1> HIDE DEF flagged
<1> QED BY <1>2, <1>3, <1>4

LEMMA PlaceDDSOwners ==
  ASSUME NEW r, Typed(r), NEW m \in DDSRequests
  PROVE  SameOwners(r, PlaceDDS(r, m).db)
<1> DEFINE s        == m.dds
           new      == s \notin DOMAIN r.dds \/ m.replace
           before   == IF m.replace THEN DeregisterDDS(r, s) ELSE r
           old      == IF new THEN [sym |-> NoSym, status |-> FALSE, dds |-> <<>>]
                       ELSE r.dds[s]
           start    == [before EXCEPT !.dds = Put(@, s, old)]
           status   == IF m.status = <<>> THEN old.status ELSE m.status[1]
           given    == IF m.statusLast THEN old.status ELSE status
           unknown  == m.dd # <<>> /\ m.dd[1] \notin DOMAIN r.dd
           linked   == IF m.dd = <<>> \/ unknown THEN start
                       ELSE AddDDSToDD(start, s, m.dd[1], given)
           written  == [linked EXCEPT
                          !.dds[s].status = status,
                          !.dds[s].sym = IF m.sym = NoSym THEN @ ELSE m.sym]
           undone   == [linked EXCEPT !.dds = before.dds]
<1>1. Typed(before) /\ SameOwners(r, before)
  BY DeregisterDDSTyped, DeregisterDDSOwners DEF SameOwners
<1> HIDE DEF before, old, status, given
<1>2. /\ linked.entity = before.entity /\ linked.node = before.node
      /\ {"entity", "node", "dds"} \subseteq DOMAIN linked
  BY <1>1 DEF AddDDSToDD, Typed
<1> HIDE DEF linked
<1>3. \A x \in {before, undone, linked, written} :
        x.entity = before.entity /\ x.node = before.node
  BY <1>2
<1>4. PlaceDDS(r, m).db \in {before, undone, linked, written}
  BY DEF PlaceDDS, before, old, status, given, linked
<1> HIDE DEF undone, written
<1> QED BY <1>1, <1>3, <1>4, SameTables, SameOwnersTransitive

LEMMA RegisterDDSResultsOwners ==
  ASSUME NEW r, Typed(r), NEW m \in DDSRequests,
         NEW res \in RegisterDDSResults(r, m)
  PROVE  SameOwners(r, res.db)
<1> DEFINE p == PlaceDDS(r, m).db
<1>1. Typed(p) /\ SameOwners(r, p)
  BY PlaceDDSTyped, PlaceDDSOwners
<1>2. res.db = p \/ \E w : res.db = SpreadStatus(p, m.dds, w)
  BY DEF RegisterDDSResults
<1> HIDE DEF p
<1>3. \A w : SameOwners(p, SpreadStatus(p, m.dds, w))
  BY <1>1, SpreadStatusOwners
<1> QED BY <1>1, <1>2, <1>3, SameOwnersTransitive

(***************************************************************************)
(* Nodes and entities.                                                     *)
(***************************************************************************)

\* The node leaves the list of its entity, and no other entity lists it.
LEMMA RemoveNodeListed ==
  ASSUME NEW r, Typed(r), NodesOfEntities(r), NEW n
  PROVE  /\ NodesOfEntities(RemoveNode(r, n))
         /\ \A e \in DOMAIN RemoveNode(r, n).entity :
              n \notin RemoveNode(r, n).entity[e].nodes
<1> DEFINE e == r.node[n].entity
           s == RemoveNode(r, n)
<1>1. CASE n \in DOMAIN r.node /\ e \in DOMAIN r.entity
  <2>1. r.entity[e] \in EntityObjects
    BY <1>1, TypedObjects
  <2>2. /\ DOMAIN s.entity = DOMAIN r.entity
        /\ s.entity[e].nodes = r.entity[e].nodes \ {n}
        /\ \A x \in DOMAIN r.entity \ {e} : s.entity[x] = r.entity[x]
        /\ s.node = Drop(r.node, n)
    BY <1>1, <2>1 DEF RemoveNode, Typed, EntityObjects
  <2> HIDE DEF s
  <2>3. \A x \in DOMAIN s.entity : s.entity[x].nodes \subseteq r.entity[x].nodes
    BY <2>2
  <2>4. \A x \in DOMAIN s.entity : n \notin s.entity[x].nodes
    BY <2>2 DEF NodesOfEntities
  <2>5. NodesOfEntities(s)
    BY <2>2, <2>3, <2>4 DEF NodesOfEntities, Drop
  <2> QED BY <2>4, <2>5 DEF s
<1>2. CASE ~(n \in DOMAIN r.node /\ e \in DOMAIN r.entity)
  BY <1>2 DEF RemoveNode, NodesOfEntities
<1> QED BY <1>1, <1>2

LEMMA RemoveEntityListed ==
  ASSUME NEW r, Typed(r), NodesOfEntities(r), NEW e
  PROVE  NodesOfEntities(RemoveEntity(r, e))
<1> DEFINE nodes == IF r.entity[e].type = "iscsi" THEN r.entity[e].nodes ELSE {}
           s == RemoveEntity(r, e)
<1>1. CASE e \in DOMAIN r.entity
  <2>1. /\ s.entity = Drop(r.entity, e)
        /\ s.node = [n \in DOMAIN r.node \ nodes |-> r.node[n]]
    BY <1>1 DEF RemoveEntity, Typed
  <2>2. nodes \subseteq r.entity[e].nodes
    OBVIOUS
  <2> HIDE DEF s, nodes
  <2>3. NodesOfEntities(s)
    BY <1>1, <2>1, <2>2 DEF NodesOfEntities, Drop
  <2> QED BY <2>3 DEF s
<1>2. CASE e \notin DOMAIN r.entity
  BY <1>2 DEF RemoveEntity
<1> QED BY <1>1, <1>2

LEMMA RegisterEntityListed ==
  ASSUME NEW r, Typed(r), NodesOfEntities(r), NEW m \in EntityRequests
  PROVE  NodesOfEntities(RegisterEntity(r, m))
<1> DEFINE e      == m.entity
           before == IF m.replace /\ m.same THEN RemoveEntity(r, e) ELSE r
           old    == IF e \in DOMAIN before.entity THEN before.entity[e]
                     ELSE [type |-> "none", nodes |-> {}]
           type   == IF m.type = "none" THEN old.type ELSE m.type
           obj    == [old EXCEPT !.type = type]
           s      == [before EXCEPT !.entity = Put(@, e, obj)]
<1>1. Typed(before) /\ NodesOfEntities(before)
  BY RemoveEntityTyped, RemoveEntityListed
<1>2. RegisterEntity(r, m) \in {before, s}
  BY DEF RegisterEntity
<1> HIDE DEF before
<1>3. old \in EntityObjects
  BY <1>1, TypedObjects DEF EntityObjects, EntityTypes
<1>4. obj.nodes = old.nodes
  <2> HIDE DEF old
  <2> QED BY <1>3 DEF EntityObjects
<1>5. obj.nodes = IF e \in DOMAIN before.entity THEN before.entity[e].nodes ELSE {}
  <2> HIDE DEF obj
  <2> QED BY <1>4
<1> HIDE DEF obj
<1>6. NodesOfEntities(s)
  BY <1>1, <1>5 DEF NodesOfEntities, Put, Typed
<1> HIDE DEF s
<1> QED BY <1>1, <1>2, <1>6

LEMMA ActivateMembershipListed ==
  ASSUME NEW r, Typed(r), NodesOfEntities(r), NEW n \in DOMAIN r.node
  PROVE  NodesOfEntities(ActivateMembership(r, n))
<1> DEFINE default == {d \in DOMAIN r.dd : r.dd[d].sym = DefaultSym}
           d       == CHOOSE x \in default : TRUE
           joined  == AddDDMember(r, d, n, TRUE)
           s       == ActivateMembership(r, n)
<1>1. r.node[n] \in Nodes
  BY TypedObjects
<1>2. /\ joined.entity = r.entity /\ joined.node = r.node
      /\ "entity" \in DOMAIN joined /\ "node" \in DOMAIN joined
  <2> HIDE DEF d
  <2> QED BY DEF AddDDMember, Typed
<1>3. /\ s.entity = r.entity
      /\ DOMAIN s.node = DOMAIN r.node
      /\ s.node[n].entity = r.node[n].entity
      /\ \A x \in DOMAIN r.node \ {n} : s.node[x] = r.node[x]
  <2>1. CASE DDsListing(r, n) # {}
    BY <1>1, <2>1 DEF ActivateMembership, Typed, Nodes
  <2>2. CASE DDsListing(r, n) = {} /\ default = {}
    BY <1>1, <2>2 DEF ActivateMembership, Typed, Nodes
  <2>3. CASE DDsListing(r, n) = {} /\ default # {}
    <3>1. s = [joined EXCEPT !.node[n].dds = @ \cup {d}, !.node[n].active = TRUE]
      BY <2>3 DEF ActivateMembership
    <3> HIDE DEF joined, s
    <3> QED BY <1>1, <1>2, <3>1 DEF Nodes
  <2> QED BY <2>1, <2>2, <2>3
<1> HIDE DEF s
<1>4. SameOwners(r, s)
  BY <1>3 DEF SameOwners
<1> QED BY <1>4, SameOwnersListed DEF s

LEMMA RegisterNodeListed ==
  ASSUME NEW r, Typed(r), NodesOfEntities(r), NEW n \in Names,
         NEW e \in Entities, NEW replace \in BOOLEAN
  PROVE  NodesOfEntities(RegisterNode(r, n, e, replace))
<1> DEFINE before  == IF replace THEN RemoveNode(r, n) ELSE r
           indexed == IF n \in DOMAIN before.idx THEN before
                      ELSE [before EXCEPT !.idx = Put(@, n, 0)]
           fresh   == [entity |-> e, active |-> FALSE, dds |-> {}]
           obj     == [indexed.entity[e] EXCEPT !.nodes = @ \cup {n}]
           entity  == [indexed.entity EXCEPT ![e] = obj]
           s1      == [indexed EXCEPT !.entity = entity]
           node    == Put(indexed.node, n, fresh)
           s2      == [s1 EXCEPT !.node = node]
<1>1. CASE n \in DOMAIN r.node /\ ~replace
  BY <1>1, ActivateMembershipListed DEF RegisterNode
<1>2. CASE ~(n \in DOMAIN r.node /\ ~replace)
  <2>1. /\ Typed(before) /\ NodesOfEntities(before)
        /\ DOMAIN before.entity = DOMAIN r.entity
        /\ \A x \in DOMAIN before.entity : n \notin before.entity[x].nodes
    <3>1. CASE replace
      BY ZenonT(60), <3>1, RemoveNodeTyped, RemoveNodeListed
         DEF RemoveNode, Typed
    <3>2. CASE ~replace
      BY <1>2, <3>2 DEF NodesOfEntities
    <3> QED BY <3>1, <3>2
  <2> HIDE DEF before
  <2>2. Typed(indexed) /\ SameOwners(before, indexed)
    <3>1. IsTable(Put(before.idx, n, 0), Names, Nat)
      BY <2>1, TypedTables, PutTable
    <3>2. /\ Typed([before EXCEPT !.idx = Put(before.idx, n, 0)])
          /\ SameOwners(before, [before EXCEPT !.idx = Put(before.idx, n, 0)])
      BY <2>1, <3>1, TypedUpdate, OtherTables
    <3>3. SameOwners(before, before)
      BY DEF SameOwners
    <3> QED BY <2>1, <3>2, <3>3
  <2> HIDE DEF indexed
  <2>3. /\ NodesOfEntities(indexed)
        /\ DOMAIN indexed.entity = DOMAIN r.entity
        /\ \A x \in DOMAIN indexed.entity : n \notin indexed.entity[x].nodes
    BY <2>1, <2>2, SameOwnersListed DEF SameOwners
  <2>4. CASE e \notin DOMAIN r.entity \/ r.entity[e].type # "iscsi"
    <3>1. RegisterNode(r, n, e, replace) = indexed
      BY <1>2, <2>4 DEF RegisterNode, indexed, before
    <3> QED BY <2>3, <3>1
  <2>5. CASE e \in DOMAIN r.entity /\ r.entity[e].type = "iscsi"
    <3>1. indexed.entity[e] \in EntityObjects
      BY <2>2, <2>3, <2>5, TypedObjects
    <3>2. obj \in EntityObjects /\ obj.nodes = indexed.entity[e].nodes \cup {n}
      BY <3>1 DEF EntityObjects
    <3>3. fresh \in Nodes /\ fresh.entity = e
      BY DEF Nodes
    <3>4. s2 = [indexed EXCEPT !.entity[e].nodes = @ \cup {n},
                               !.node = Put(@, n, fresh)]
      BY <2>2, <3>1 DEF Typed, EntityObjects
    <3> HIDE DEF obj, fresh
    <3>5. Typed(s1)
      BY <2>2, <3>2, TypedTables, UpdateTable, TypedUpdate
    <3>6. Typed(s2)
      BY <2>2, <3>3, <3>5, TypedTables, PutTable, TypedUpdate
    <3>7. s2.entity = entity /\ s2.node = node
      BY <2>2 DEF Typed
    <3>8. RegisterNode(r, n, e, replace) = ActivateMembership(s2, n)
      <4> HIDE DEF s2
      <4> QED BY <1>2, <2>5, <3>4 DEF RegisterNode, indexed, before, fresh
    <3> HIDE DEF s2
    <3>9. n \in DOMAIN s2.node
      BY <3>7 DEF Put
    <3>10. NodesOfEntities(s2)
      <4> SUFFICES ASSUME NEW x \in DOMAIN s2.entity, NEW y \in s2.entity[x].nodes
                   PROVE  y \in DOMAIN s2.node /\ s2.node[y].entity = x
        BY DEF NodesOfEntities
      <4>1. CASE y = n
        BY <2>3, <3>2, <3>3, <3>7, <4>1 DEF Put
      <4>2. CASE y # n
        BY <2>3, <3>2, <3>7, <4>2 DEF Put, NodesOfEntities
      <4> QED BY <4>1, <4>2
    <3> QED BY <3>6, <3>8, <3>9, <3>10, ActivateMembershipListed
  <2> QED BY <2>4, <2>5
<1> QED BY <1>1, <1>2

(***************************************************************************)
(* The theorem.                                                            *)
(***************************************************************************)

LEMMA InitListed == Init => NodesOfEntities(db)
BY DEF Init, NodesOfEntities, Empty

LEMMA RequestListed ==
  ASSUME Typed(db), NodesOfEntities(db), Request \/ CrashInRegDDS
  PROVE  NodesOfEntities(db')
<1>1. CASE RegEntity
  BY <1>1, RegisterEntityListed, RequestAssumption DEF RegEntity
<1>2. CASE DeregEntity
  BY <1>2, RemoveEntityListed DEF DeregEntity
<1>3. CASE RegNode
  BY <1>3, RegisterNodeListed DEF RegNode
<1>4. CASE DeregNode
  BY <1>4, RemoveNodeListed DEF DeregNode
<1>5. CASE RegDD
  BY <1>5, RegisterDDOwners, SameOwnersListed, RequestAssumption DEF RegDD
<1>6. CASE DeregDDMember
  BY <1>6, DeregisterDDMemberOwners, SameOwnersListed DEF DeregDDMember
<1>7. CASE DeregDD
  BY <1>7, DeregisterDDOwners, SameOwnersListed DEF DeregDD
<1>8. CASE RegDDS
  BY <1>8, RegisterDDSResultsOwners, SameOwnersListed, RequestAssumption
     DEF RegDDS
<1>9. CASE DeregDDSMember
  BY <1>9, DeregisterDDSMemberOwners, SameOwnersListed DEF DeregDDSMember
<1>10. CASE DeregDDS
  BY <1>10, DeregisterDDSOwners, SameOwnersListed DEF DeregDDS
<1>11. CASE CrashInRegDDS
  BY <1>11, RegisterDDSResultsOwners, SameOwnersListed, RequestAssumption
     DEF CrashInRegDDS
<1> QED BY <1>1, <1>2, <1>3, <1>4, <1>5, <1>6, <1>7, <1>8, <1>9, <1>10, <1>11
        DEF Request

\* An entity lists only nodes that are stored and registered under it, whatever
\* the requests (ISNSdbAddAttrISCSINode, SNSRemoveISCSINodeEntry): the loop of
\* ISNSdbRemoveAttrEntityEntry finds every node it is to remove.
THEOREM ListedNodesAlways == Spec => []ListedNodes
<1>1. ASSUME TypeOK, ListedNodes, [Next]_vars
      PROVE  ListedNodes'
  <2>1. CASE Next
    BY <1>1, <2>1, RequestListed DEF Next, TypeOK, ListedNodes, NodesOfEntities
  <2>2. CASE UNCHANGED vars
    BY <1>1, <2>2 DEF vars, ListedNodes, NodesOfEntities
  <2> QED BY <1>1, <2>1, <2>2
<1>2. Init => ListedNodes
  BY InitListed DEF ListedNodes
<1> QED BY <1>1, <1>2, TypeCorrect, PTL DEF Spec

-----------------------------------------------------------------------------
(***************************************************************************)
(* The DDs that a node knows: a registered node knows every DD that lists  *)
(* it.  The invariant is inductive together with the uniqueness of         *)
(* members: a node that leaves a DD forgets it and one member of its name  *)
(* goes.                                                                   *)
(***************************************************************************)

\* No node of s has forgotten a DD that it knew in r.
Learned(r, s) ==
  /\ DOMAIN s.node \subseteq DOMAIN r.node
  /\ \A n \in DOMAIN s.node : r.node[n].dds \subseteq s.node[n].dds

LEMMA LearnedTransitive ==
  ASSUME NEW r, NEW s, NEW t, Learned(r, s), Learned(s, t)
  PROVE  Learned(r, t)
BY DEF Learned

LEMMA SameNodesLearned ==
  ASSUME NEW r, NEW s, s.node = r.node
  PROVE  Learned(r, s)
BY DEF Learned

LEMMA FewerListed ==
  ASSUME NEW r, NEW s, NodesKnowDDs(r), Learned(r, s),
         \A n \in DOMAIN s.node : DDsListing(s, n) \subseteq DDsListing(r, n)
  PROVE  NodesKnowDDs(s)
BY DEF NodesKnowDDs, Learned

LEMMA SameMembersKnown ==
  ASSUME NEW r, NEW s, NodesKnowDDs(r), Learned(r, s), SameMembers(r, s)
  PROVE  NodesKnowDDs(s)
<1>1. \A n : DDsListing(s, n) = DDsListing(r, n)
  BY DEF DDsListing, SameMembers
<1> QED BY <1>1, FewerListed

(***************************************************************************)
(* Members.                                                                *)
(***************************************************************************)

\* A registered node learns the DD before the DD lists it.
LEMMA AddDDToNodeKnown ==
  ASSUME NEW r, Typed(r), NEW d, NEW n
  PROVE  /\ Learned(r, AddDDToNode(r, d, n))
         /\ DOMAIN AddDDToNode(r, d, n).node = DOMAIN r.node
         /\ n \in DOMAIN r.node => d \in AddDDToNode(r, d, n).node[n].dds
<1> DEFINE node == [r.node[n] EXCEPT !.dds = @ \cup {d},
                                     !.active = @ \/ r.dd[d].active]
           t == [r.node EXCEPT ![n] = node]
<1>1. CASE n \in DOMAIN r.node
  <2>1. r.node[n] \in Nodes
    BY <1>1, TypedObjects
  <2>2. node.dds = r.node[n].dds \cup {d}
    BY <2>1 DEF Nodes
  <2>3. AddDDToNode(r, d, n) = [r EXCEPT !.node = t]
    BY <1>1, <2>1 DEF AddDDToNode, Nodes, Typed
  <2> HIDE DEF node
  <2>4. AddDDToNode(r, d, n).node = t
    BY <2>3 DEF Typed
  <2> QED BY <1>1, <2>2, <2>4 DEF Learned
<1>2. CASE n \notin DOMAIN r.node
  BY <1>2 DEF AddDDToNode, Learned
<1> QED BY <1>1, <1>2

LEMMA JoinDDKnown ==
  ASSUME NEW r, Sound(r), NodesKnowDDs(r), NEW d \in DOMAIN r.dd, NEW n \in Names
  PROVE  NodesKnowDDs(JoinDD(r, d, n)) /\ Learned(r, JoinDD(r, d, n))
<1> DEFINE s == AddDDToNode(r, d, n)
           e == n \in DOMAIN r.node
           t == AddDDMember(s, d, n, e)
<1>1. /\ Sound(s) /\ d \in DOMAIN s.dd
      /\ SameMembers(r, s) /\ Learned(r, s)
      /\ DOMAIN s.node = DOMAIN r.node
      /\ n \in DOMAIN s.node => d \in s.node[n].dds
  BY AddDDToNodeSame, AddDDToNodeKnown, AddDDToNodeTyped, SameMembersSound
     DEF Sound
<1>2. NodesKnowDDs(s)
  BY <1>1, SameMembersKnown
<1>3. e \in BOOLEAN /\ DOMAIN s.node \subseteq Names
  BY <1>1, TypedObjects DEF Sound
<1>4. JoinDD(r, d, n) = t
  BY DEF JoinDD
<1> HIDE DEF s, e
<1>5. /\ t.node = s.node
      /\ \A x \in Names \ {n} : DDsListing(t, x) = DDsListing(s, x)
      /\ DDsListing(t, n) \subseteq DDsListing(s, n) \cup {d}
  BY <1>1, <1>3, AddDDMemberListing DEF Sound
<1> HIDE DEF t
<1>6. NodesKnowDDs(t)
  BY <1>1, <1>2, <1>3, <1>5 DEF NodesKnowDDs
<1>7. Learned(r, t)
  BY <1>1, <1>5 DEF Learned
<1> QED BY <1>4, <1>6, <1>7

\* Only the node that leaves forgets the DD.
LEMMA RemoveDDFromNodeKnown ==
  ASSUME NEW r, Typed(r), NEW d, NEW n
  PROVE  /\ DOMAIN RemoveDDFromNode(r, d, n).node = DOMAIN r.node
         /\ \A x \in DOMAIN r.node \ {n} :
              RemoveDDFromNode(r, d, n).node[x] = r.node[x]
         /\ n \in DOMAIN r.node =>
              RemoveDDFromNode(r, d, n).node[n].dds = r.node[n].dds \ {d}
<1> DEFINE rest == r.node[n].dds \ {d}
           node == [r.node[n] EXCEPT
                      !.dds = rest,
                      !.active = @ /\ \E x \in rest \cap DOMAIN r.dd : r.dd[x].active]
           t    == [r.node EXCEPT ![n] = node]
<1>1. CASE n \in DOMAIN r.node /\ d \in r.node[n].dds
  <2>1. r.node[n] \in Nodes
    BY <1>1, TypedObjects
  <2>2. node.dds = r.node[n].dds \ {d}
    BY <2>1 DEF Nodes
  <2>3. RemoveDDFromNode(r, d, n) = [r EXCEPT !.node = t]
    BY <1>1, <2>1 DEF RemoveDDFromNode, Nodes, Typed
  <2> HIDE DEF node
  <2>4. RemoveDDFromNode(r, d, n).node = t
    BY <2>3 DEF Typed
  <2> QED BY <1>1, <2>2, <2>4
<1>2. CASE ~(n \in DOMAIN r.node /\ d \in r.node[n].dds)
  BY <1>2 DEF RemoveDDFromNode
<1> QED BY <1>1, <1>2

LEMMA DeregisterDDMemberKnown ==
  ASSUME NEW r, Sound(r), NodesKnowDDs(r), NEW d, NEW a \in MemberAttrs
  PROVE  NodesKnowDDs(DeregisterDDMember(r, d, a))
<1> DEFINE n == AttrName(a)
           s == RemoveDDFromNode(r, d, n)
           t == RemoveDDMember(s, d, n)
<1>1. n \in Names
  BY AttrNameType
<1> HIDE DEF n
<1>2. Sound(s) /\ s.dd = r.dd
  BY <1>1, RemoveDDFromNodeSame, RemoveDDFromNodeTyped, SameMembersSound
     DEF Sound
<1>3. /\ DOMAIN s.node = DOMAIN r.node
      /\ \A x \in DOMAIN r.node \ {n} : s.node[x] = r.node[x]
      /\ n \in DOMAIN r.node => s.node[n].dds = r.node[n].dds \ {d}
  BY RemoveDDFromNodeKnown DEF Sound
<1>4. DeregisterDDMember(r, d, a) \in {r, t}
  BY DEF DeregisterDDMember, n
<1> HIDE DEF s
<1>5. CASE d \in DOMAIN r.dd
  <2>1. /\ t.node = s.node
        /\ DDsListing(t, n) = DDsListing(s, n) \ {d}
        /\ \A x \in Names \ {n} : DDsListing(t, x) = DDsListing(s, x)
    BY <1>1, <1>2, <1>5, RemoveDDMemberListing DEF Sound
  <2>2. \A x : DDsListing(s, x) = DDsListing(r, x)
    BY <1>2 DEF DDsListing
  <2>3. DOMAIN r.node \subseteq Names
    BY TypedObjects DEF Sound
  <2> HIDE DEF t
  <2>4. NodesKnowDDs(t)
    BY <1>3, <2>1, <2>2, <2>3 DEF NodesKnowDDs
  <2> QED BY <1>4, <2>4
<1>6. CASE d \notin DOMAIN r.dd
  BY <1>6 DEF DeregisterDDMember
<1> QED BY <1>5, <1>6

(***************************************************************************)
(* Discovery Domains.                                                      *)
(***************************************************************************)

LEMMA RegisterDDKnown ==
  ASSUME NEW r, Sound(r), NodesKnowDDs(r), NEW m \in DDRequests
  PROVE  NodesKnowDDs(RegisterDD(r, m))
<1> DEFINE d        == m.dd
           exists   == d \in DOMAIN r.dd
           new      == [sym |-> IF m.sym = NoSym THEN m.auto ELSE NoSym,
                        active |-> FALSE, members |-> <<>>, dds |-> <<>>]
           start    == IF exists THEN r ELSE [r EXCEPT !.dd = Put(@, d, new)]
           unknown  == m.member # <<>> /\ ~AttrKnown(r, m.member[1])
           joined   == IF m.member = <<>> \/ unknown THEN start
                       ELSE JoinDD(start, d, AttrName(m.member[1]))
           undone   == [joined EXCEPT !.dd = r.dd]
           named    == [joined.dd[d] EXCEPT !.sym = NameRead(m)]
           renamed  == [joined EXCEPT !.dd = [@ EXCEPT ![d] = named]]
<1>1. /\ d \in DDs
      /\ m.auto \in Syms /\ NameRead(m) \in Syms \cup {NoSym}
      /\ m.member # <<>> => m.member[1] \in MemberAttrs
  BY RequestNames DEF DDRequests
<1>2. /\ Sound(start) /\ NodesKnowDDs(start)
      /\ start.node = r.node
      /\ d \in DOMAIN start.dd
  <2>1. CASE exists
    BY <2>1
  <2>2. CASE ~exists
    <3> DEFINE x == [r EXCEPT !.dd = Put(@, d, new)]
    <3>1. new \in DDObjects /\ new.members = <<>>
      BY <1>1, SymAssumption, EmptySeq DEF DDObjects
    <3> HIDE DEF new
    <3>2. d \in DDs \ DOMAIN r.dd
      BY <1>1, <2>2
    <3> HIDE DEF d
    <3>3. IsTable(Put(r.dd, d, new), DDs, DDObjects)
      BY <3>1, <3>2, TypedTables, PutTable DEF Sound
    <3>4. Typed(x)
      BY <3>3, TypedUpdate DEF Sound
    <3>5. x.idx = r.idx /\ x.node = r.node /\ x.dd = Put(r.dd, d, new)
      BY DEF Sound, Typed
    <3>6. start = x
      BY <2>2
    <3> HIDE DEF x, start
    <3>7. Sound(x)
      BY <3>1, <3>2, <3>4, <3>5, NewDDSound
    <3>8. \A n : DDsListing(x, n) = DDsListing(r, n)
      BY <3>1, <3>2, <3>4, <3>5, NewDDSound
    <3>9. d \in DOMAIN x.dd
      BY <3>5 DEF Put
    <3>10. NodesKnowDDs(x)
      BY <3>5, <3>8 DEF NodesKnowDDs
    <3> QED BY <3>5, <3>6, <3>7, <3>9, <3>10
  <2> QED BY <2>1, <2>2
<1> HIDE DEF start
<1>3. /\ NodesKnowDDs(joined) /\ Typed(joined) /\ Learned(r, joined)
      /\ d \in DOMAIN joined.dd
  <2>1. Learned(r, start) /\ Typed(start)
    BY <1>2, SameNodesLearned DEF Sound
  <2>2. CASE m.member = <<>> \/ unknown
    BY <1>2, <2>1, <2>2
  <2>3. CASE m.member # <<>> /\ ~unknown
    <3> DEFINE n == AttrName(m.member[1])
    <3>1. n \in Names
      BY <1>1, <2>3, AttrNameType
    <3>2. joined = JoinDD(start, d, n)
      BY <2>3
    <3> HIDE DEF n, joined
    <3> QED BY <1>2, <2>1, <3>1, <3>2, JoinDDKnown, JoinDDTyped, JoinDDKeepsDDs,
               LearnedTransitive
  <2> QED BY <2>2, <2>3
<1> HIDE DEF joined
<1>4. NodesKnowDDs(undone)
  <2>1. undone.node = joined.node /\ undone.dd = r.dd
    BY <1>3 DEF Typed
  <2> HIDE DEF undone
  <2>2. Learned(r, undone)
    BY <1>3, <2>1 DEF Learned
  <2>3. \A n : DDsListing(undone, n) = DDsListing(r, n)
    BY <2>1 DEF DDsListing
  <2> QED BY <2>2, <2>3, FewerListed
<1>5. NodesKnowDDs(renamed)
  <2>1. joined.dd[d] \in DDObjects
    BY <1>3, TypedObjects
  <2>2. named.members = joined.dd[d].members
    BY <2>1 DEF DDObjects
  <2> HIDE DEF named
  <2>3. SameMembers(joined, renamed) /\ renamed.node = joined.node
    BY <1>3, <2>2 DEF SameMembers, Typed
  <2> QED BY <1>3, <2>3, SameNodesLearned, SameMembersKnown
<1>6. RegisterDD(r, m) \in {r, joined, renamed, undone}
  <2> HIDE DEF new
  <2> QED BY DEF RegisterDD, start, joined, new
<1> QED BY <1>3, <1>4, <1>5, <1>6

\* The nodes of the members forget the DD, which lists nobody afterwards.
LEMMA DeregisterDDKnown ==
  ASSUME NEW r, Sound(r), NodesKnowDDs(r), NEW d
  PROVE  NodesKnowDDs(DeregisterDD(r, d))
<1> DEFINE s == DeregisterDD(r, d)
<1>1. CASE d \in DOMAIN r.dd
  <2>1. Typed(r) /\ r.dd[d] \in DDObjects
    BY <1>1, TypedObjects DEF Sound
  <2>2. /\ DOMAIN s.node = DOMAIN r.node
        /\ \A n \in DOMAIN r.node :
             s.node[n] \in {r.node[n], RemoveDDFromNode(r, d, n).node[n]}
    BY <1>1, <2>1 DEF DeregisterDD, Typed
  <2>3. \/ s.dd = Drop(r.dd, d)
        \/ s.dd = [r.dd EXCEPT ![d].members = <<>>]
    BY <1>1, <2>1 DEF DeregisterDD, Typed
  <2> HIDE DEF s
  <2>4. /\ \A x \in DOMAIN r.dd \ {d} : x \in DOMAIN s.dd /\ s.dd[x] = r.dd[x]
        /\ DOMAIN s.dd \subseteq DOMAIN r.dd
        /\ d \in DOMAIN s.dd => s.dd[d].members = <<>>
    <3>1. CASE s.dd = Drop(r.dd, d)
      BY <3>1 DEF Drop
    <3>2. CASE s.dd = [r.dd EXCEPT ![d].members = <<>>]
      BY <1>1, <2>1, <3>2 DEF DDObjects
    <3> QED BY <2>3, <3>1, <3>2
  <2>5. \A n : DDsListing(s, n) = DDsListing(r, n) \ {d}
    BY <2>4 DEF DDsListing, MemberNames
  <2>6. \A n \in DOMAIN r.node : r.node[n].dds \ {d} \subseteq s.node[n].dds
    BY <2>1, <2>2, RemoveDDFromNodeKnown
  <2>7. NodesKnowDDs(s)
    BY <2>2, <2>5, <2>6 DEF NodesKnowDDs
  <2> QED BY <2>7 DEF s
<1>2. CASE d \notin DOMAIN r.dd
  BY <1>2 DEF DeregisterDD
<1> QED BY <1>1, <1>2

(***************************************************************************)
(* Discovery Domain Sets.                                                  *)
(***************************************************************************)

LEMMA ChangeMemberFlagsLearned ==
  ASSUME NEW r, Typed(r), NEW ds
  PROVE  Learned(r, ChangeMemberFlags(r, ds))
<1> DEFINE s == ChangeMemberFlags(r, ds)
<1>1. DOMAIN s.node = DOMAIN r.node
  BY DEF ChangeMemberFlags, Typed
<1>2. \A n \in DOMAIN r.node : s.node[n].dds = r.node[n].dds
  <2> DEFINE Reaching(n) == {i \in DOMAIN ds : n \in FlaggedMembers(r, ds[i])}
             Flag(n) == \/ r.dd[ds[Max(Reaching(n))]].active
                        \/ \E d \in r.node[n].dds : IsDDActive(r, d, {})
  <2>1. \A n \in DOMAIN r.node :
          s.node[n] = IF Reaching(n) = {} THEN r.node[n]
                      ELSE [r.node[n] EXCEPT !.active = Flag(n)]
    BY DEF ChangeMemberFlags, Typed
  <2> HIDE DEF Reaching, Flag, s
  <2>2. ASSUME NEW n \in DOMAIN r.node
        PROVE  s.node[n].dds = r.node[n].dds
    <3>1. r.node[n] \in Nodes
      BY TypedObjects
    <3>2. CASE Reaching(n) = {}
      BY <2>1, <3>2
    <3>3. CASE Reaching(n) # {}
      <4>1. s.node[n] = [r.node[n] EXCEPT !.active = Flag(n)]
        BY <2>1, <3>3
      <4> QED BY <3>1, <4>1 DEF Nodes
    <3> QED BY <3>2, <3>3
  <2> QED BY <2>2
<1> QED BY <1>1, <1>2 DEF Learned

LEMMA DeregisterDDSLearned ==
  ASSUME NEW r, Typed(r), NEW s
  PROVE  Learned(r, DeregisterDDS(r, s))
<1> DEFINE listed  == r.dds[s].dds
           left    == StoredPrefix(listed, r.dd)
           dark(d) == ~IsDDActive(r, d, {s})
           dd      == [d \in DOMAIN r.dd |->
                         IF d \notin left THEN r.dd[d]
                         ELSE [r.dd[d] EXCEPT !.dds = Without(@, s),
                                              !.active = @ /\ ~dark(d)]]
           unlinked == [r EXCEPT !.dd = dd]
           changed == SelectSeq(listed, LAMBDA d : r.dd[d].active /\ dark(d))
           flagged == ChangeMemberFlags(unlinked, changed)
           removed == [flagged EXCEPT !.dds = Drop(@, s)]
<1>1. IsTable(dd, DDs, DDObjects)
  <2>1. ASSUME NEW d \in DOMAIN r.dd
        PROVE  [r.dd[d] EXCEPT !.dds = Without(@, s),
                               !.active = @ /\ ~dark(d)] \in DDObjects
    <3>1. r.dd[d] \in DDObjects
      BY TypedObjects
    <3>2. Without(r.dd[d].dds, s) \in Seq(DDSs)
      BY <3>1, WithoutType DEF DDObjects
    <3>3. (r.dd[d].active /\ ~dark(d)) \in BOOLEAN
      OBVIOUS
    <3> HIDE DEF dark
    <3> QED BY <3>1, <3>2, <3>3 DEF DDObjects
  <2> HIDE DEF dark, left
  <2> QED BY <2>1, TypedObjects DEF IsTable
<1>2. DeregisterDDS(r, s) \in {r, unlinked, removed}
  BY DEF DeregisterDDS
<1> HIDE DEF dd, changed
<1>3. Typed(unlinked) /\ unlinked.node = r.node
  BY <1>1, TypedUpdate DEF Typed
<1> HIDE DEF unlinked
<1>4. Typed(flagged) /\ Learned(r, flagged)
  BY <1>3, ChangeMemberFlagsTyped, ChangeMemberFlagsLearned DEF Learned
<1> HIDE DEF flagged
<1>5. removed.node = flagged.node
  BY <1>4 DEF Typed
<1> HIDE DEF removed
<1> QED BY <1>2, <1>3, <1>4, <1>5, SameNodesLearned, LearnedTransitive

LEMMA SpreadStatusLearned ==
  ASSUME NEW r, Typed(r), NEW s, NEW w
  PROVE  Learned(r, SpreadStatus(r, s, w))
<1> DEFINE visited == SubSeq(r.dds[s].dds, 1, w.visited)
           changed == SelectSeq(visited, LAMBDA d :
                        r.dd[d].active # IsDDActive(r, d, {}))
           dd == [d \in DOMAIN r.dd |->
                    IF d \in Range(visited)
                    THEN [r.dd[d] EXCEPT !.active = IsDDActive(r, d, {})]
                    ELSE r.dd[d]]
           spread == [r EXCEPT !.dd = dd]
           flagged == ChangeMemberFlags(spread, changed)
<1>1. IsTable(dd, DDs, DDObjects)
  <2>1. ASSUME NEW d \in DOMAIN r.dd
        PROVE  [r.dd[d] EXCEPT !.active = IsDDActive(r, d, {})] \in DDObjects
    <3>1. IsDDActive(r, d, {}) \in BOOLEAN
      BY DEF IsDDActive
    <3> QED BY <3>1, TypedObjects DEF DDObjects
  <2> HIDE DEF visited
  <2> QED BY <2>1, TypedObjects DEF IsTable
<1>2. SpreadStatus(r, s, w) \in {spread, flagged}
  BY DEF SpreadStatus
<1> HIDE DEF dd, changed
<1>3. Typed(spread) /\ spread.node = r.node
  BY <1>1, TypedUpdate DEF Typed
<1> HIDE DEF spread
<1>4. Learned(r, flagged)
  BY <1>3, ChangeMemberFlagsLearned DEF Learned
<1> HIDE DEF flagged
<1> QED BY <1>2, <1>3, <1>4, SameNodesLearned

LEMMA PlaceDDSLearned ==
  ASSUME NEW r, Typed(r), NEW m \in DDSRequests
  PROVE  Learned(r, PlaceDDS(r, m).db)
<1> DEFINE s        == m.dds
           new      == s \notin DOMAIN r.dds \/ m.replace
           before   == IF m.replace THEN DeregisterDDS(r, s) ELSE r
           old      == IF new THEN [sym |-> NoSym, status |-> FALSE, dds |-> <<>>]
                       ELSE r.dds[s]
           start    == [before EXCEPT !.dds = Put(@, s, old)]
           status   == IF m.status = <<>> THEN old.status ELSE m.status[1]
           given    == IF m.statusLast THEN old.status ELSE status
           unknown  == m.dd # <<>> /\ m.dd[1] \notin DOMAIN r.dd
           linked   == IF m.dd = <<>> \/ unknown THEN start
                       ELSE AddDDSToDD(start, s, m.dd[1], given)
           written  == [linked EXCEPT
                          !.dds[s].status = status,
                          !.dds[s].sym = IF m.sym = NoSym THEN @ ELSE m.sym]
           undone   == [linked EXCEPT !.dds = before.dds]
<1>1. Typed(before) /\ Learned(r, before)
  BY DeregisterDDSTyped, DeregisterDDSLearned DEF Learned
<1> HIDE DEF before, old, status, given
<1>2. linked.node = before.node /\ {"entity", "node", "dds"} \subseteq DOMAIN linked
  BY <1>1 DEF AddDDSToDD, Typed
<1> HIDE DEF linked
<1>3. \A x \in {before, undone, linked, written} : x.node = before.node
  BY <1>2
<1>4. PlaceDDS(r, m).db \in {before, undone, linked, written}
  BY DEF PlaceDDS, before, old, status, given, linked
<1> HIDE DEF undone, written
<1> QED BY <1>1, <1>3, <1>4, SameNodesLearned, LearnedTransitive

\* A registration of a set changes neither the members nor what nodes know.
LEMMA RegisterDDSResultsKnown ==
  ASSUME NEW r, Typed(r), NodesKnowDDs(r), NEW m \in DDSRequests,
         NEW res \in RegisterDDSResults(r, m)
  PROVE  NodesKnowDDs(res.db)
<1> DEFINE p == PlaceDDS(r, m).db
<1>1. Typed(p) /\ NodesKnowDDs(p)
  BY PlaceDDSTyped, PlaceDDSLearned, PlaceDDSSame, SameMembersKnown
<1>2. res.db = p \/ \E w : res.db = SpreadStatus(p, m.dds, w)
  BY DEF RegisterDDSResults
<1> HIDE DEF p
<1>3. \A w : NodesKnowDDs(SpreadStatus(p, m.dds, w))
  BY <1>1, SpreadStatusLearned, SpreadStatusSame, SameMembersKnown
<1> QED BY <1>1, <1>2, <1>3

LEMMA DeregisterDDSMemberKnown ==
  ASSUME NEW r, Typed(r), NodesKnowDDs(r), NEW s, NEW d
  PROVE  NodesKnowDDs(DeregisterDDSMember(r, s, d))
<1>1. DeregisterDDSMember(r, s, d).node = r.node
  BY DEF DeregisterDDSMember, Typed
<1> QED BY <1>1, SameNodesLearned, DeregisterDDSMemberSame, SameMembersKnown

(***************************************************************************)
(* Nodes and entities.                                                     *)
(***************************************************************************)

LEMMA RemoveNodeLearned ==
  ASSUME NEW r, Typed(r), NEW n
  PROVE  /\ Learned(r, RemoveNode(r, n))
         /\ RemoveNode(r, n).dd = r.dd
BY DEF RemoveNode, Typed, Learned, Drop

LEMMA RemoveNodeKnown ==
  ASSUME NEW r, Typed(r), NodesKnowDDs(r), NEW n
  PROVE  NodesKnowDDs(RemoveNode(r, n))
<1>1. \A x : DDsListing(RemoveNode(r, n), x) = DDsListing(r, x)
  BY RemoveNodeLearned DEF DDsListing
<1> QED BY <1>1, RemoveNodeLearned, FewerListed

LEMMA RemoveEntityKnown ==
  ASSUME NEW r, Typed(r), NodesKnowDDs(r), NEW e
  PROVE  NodesKnowDDs(RemoveEntity(r, e)) /\ Typed(RemoveEntity(r, e))
<1>1. Learned(r, RemoveEntity(r, e)) /\ RemoveEntity(r, e).dd = r.dd
  BY DEF RemoveEntity, Typed, Learned
<1>2. \A x : DDsListing(RemoveEntity(r, e), x) = DDsListing(r, x)
  BY <1>1 DEF DDsListing
<1> QED BY <1>1, <1>2, FewerListed, RemoveEntityTyped

LEMMA RegisterEntityKnown ==
  ASSUME NEW r, Typed(r), NodesKnowDDs(r), NEW m \in EntityRequests
  PROVE  NodesKnowDDs(RegisterEntity(r, m))
<1> DEFINE before == IF m.replace /\ m.same THEN RemoveEntity(r, m.entity) ELSE r
           s == RegisterEntity(r, m)
<1>1. Typed(before) /\ NodesKnowDDs(before)
  BY RemoveEntityKnown
<1> HIDE DEF before
<1>2. s.dd = before.dd /\ s.node = before.node
  BY <1>1 DEF RegisterEntity, Typed, before
<1> HIDE DEF s
<1>3. NodesKnowDDs(s)
  BY <1>1, <1>2 DEF NodesKnowDDs, DDsListing
<1> QED BY <1>3 DEF s

\* All that a registered node has to know for the others and for itself.
LEMMA ActivateMembershipKnown ==
  ASSUME NEW r, Sound(r), NEW n \in DOMAIN r.node,
         \A x \in DOMAIN r.node \ {n} : DDsListing(r, x) \subseteq r.node[x].dds
  PROVE  NodesKnowDDs(ActivateMembership(r, n))
<1> DEFINE listing == DDsListing(r, n)
           default == {d \in DOMAIN r.dd : r.dd[d].sym = DefaultSym}
           d       == CHOOSE x \in default : TRUE
           s       == ActivateMembership(r, n)
           added   == AddDDMember(r, d, n, TRUE)
<1>1. r.node[n] \in Nodes /\ Typed(r) /\ n \in Names /\ DOMAIN r.node \subseteq Names
  BY TypedObjects DEF Sound
<1>2. CASE listing # {}
  <2> DEFINE node == [r.node[n] EXCEPT
                        !.dds = @ \cup listing,
                        !.active = @ \/ \E x \in listing : r.dd[x].active]
  <2> HIDE DEF listing
  <2>1. s = [r EXCEPT !.node = [r.node EXCEPT ![n] = node]]
    BY <1>1, <1>2 DEF ActivateMembership, Typed, Nodes, listing
  <2>2. node.dds = r.node[n].dds \cup listing
    BY <1>1 DEF Nodes
  <2> HIDE DEF node, s
  <2>3. s.node = [r.node EXCEPT ![n] = node] /\ s.dd = r.dd
    BY <1>1, <2>1 DEF Typed
  <2>4. \A x : DDsListing(s, x) = DDsListing(r, x)
    BY <2>3 DEF DDsListing
  <2>5. NodesKnowDDs(s)
    BY <2>2, <2>3, <2>4 DEF NodesKnowDDs, listing
  <2> QED BY <2>5 DEF s
<1>3. CASE listing = {} /\ default = {}
  <2>1. s = [r EXCEPT !.node = [r.node EXCEPT ![n] = [r.node[n] EXCEPT !.active = TRUE]]]
    BY <1>1, <1>3 DEF ActivateMembership, Typed, Nodes
  <2> HIDE DEF s
  <2>2. /\ s.node = [r.node EXCEPT ![n] = [r.node[n] EXCEPT !.active = TRUE]]
        /\ s.dd = r.dd
    BY <1>1, <2>1 DEF Typed
  <2>3. \A x : DDsListing(s, x) = DDsListing(r, x)
    BY <2>2 DEF DDsListing
  <2>4. NodesKnowDDs(s)
    BY <1>3, <2>2, <2>3 DEF NodesKnowDDs
  <2> QED BY <2>4 DEF s
<1>4. CASE listing = {} /\ default # {}
  <2>1. d \in DOMAIN r.dd
    BY <1>4
  <2> HIDE DEF d
  <2>2. /\ added.node = r.node
        /\ \A x \in Names \ {n} : DDsListing(added, x) = DDsListing(r, x)
        /\ DDsListing(added, n) \subseteq {d}
    <3>1. UniqueMembers(r) /\ TRUE \in BOOLEAN
      BY DEF Sound
    <3>2. DDsListing(added, n) \subseteq listing \cup {d}
      BY <1>1, <2>1, <3>1, AddDDMemberListing
    <3>3. added.node = r.node
      BY <1>1, <2>1, <3>1, AddDDMemberListing
    <3>4. \A b \in BOOLEAN : \A x \in Names \ {n} :
            DDsListing(AddDDMember(r, d, n, b), x) = DDsListing(r, x)
      BY <1>1, <2>1, <3>1, AddDDMemberListing
    <3> QED BY <1>4, <3>2, <3>3, <3>4
  <2>3. Typed(added)
    BY <1>1, <2>1, AddDDMemberTyped
  <2> DEFINE node == [added.node[n] EXCEPT !.dds = @ \cup {d}, !.active = TRUE]
  <2>4. s = [added EXCEPT !.node[n].dds = @ \cup {d}, !.node[n].active = TRUE]
    BY <1>4 DEF ActivateMembership, d
  <2> HIDE DEF added, s
  <2>5. added.node[n] \in Nodes
    BY <1>1, <2>2
  <2>6. s = [added EXCEPT !.node = [added.node EXCEPT ![n] = node]]
    BY <2>2, <2>3, <2>4, <2>5 DEF Typed, Nodes
  <2>7. d \in node.dds
    BY <2>5 DEF Nodes
  <2> HIDE DEF node
  <2>8. s.node = [added.node EXCEPT ![n] = node] /\ s.dd = added.dd
    BY <2>3, <2>6 DEF Typed
  <2>9. \A x : DDsListing(s, x) = DDsListing(added, x)
    BY <2>8 DEF DDsListing
  <2>10. NodesKnowDDs(s)
    BY <1>1, <2>2, <2>7, <2>8, <2>9 DEF NodesKnowDDs
  <2> QED BY <2>10 DEF s
<1> QED BY <1>2, <1>3, <1>4

LEMMA RegisterNodeKnown ==
  ASSUME NEW r, Sound(r), NodesKnowDDs(r), NEW n \in Names, NEW e \in Entities,
         NEW replace \in BOOLEAN
  PROVE  NodesKnowDDs(RegisterNode(r, n, e, replace))
<1> DEFINE before == IF replace THEN RemoveNode(r, n) ELSE r
           fresh  == [entity |-> e, active |-> FALSE, dds |-> {}]
           done   == RegisterNode(r, n, e, replace)
<1>1. NodesKnowDDs(before)
  BY RemoveNodeKnown DEF Sound
<1>2. \/ n \in DOMAIN r.node /\ done = ActivateMembership(r, n)
      \/ done.dd = before.dd /\ done.node = before.node
      \/ \E s : /\ Sound(s) /\ s.dd = before.dd
                /\ s.node = Put(before.node, n, fresh)
                /\ done = ActivateMembership(s, n)
  BY RegisterNodeSteps
<1> HIDE DEF before, fresh, done
<1>3. CASE n \in DOMAIN r.node /\ done = ActivateMembership(r, n)
  <2>1. NodesKnowDDs(done)
    BY <1>3, ActivateMembershipKnown DEF NodesKnowDDs
  <2> QED BY <2>1 DEF done
<1>4. CASE done.dd = before.dd /\ done.node = before.node
  <2>1. NodesKnowDDs(done)
    BY <1>1, <1>4 DEF NodesKnowDDs, DDsListing
  <2> QED BY <2>1 DEF done
<1>5. ASSUME NEW s, Sound(s), s.dd = before.dd,
             s.node = Put(before.node, n, fresh), done = ActivateMembership(s, n)
      PROVE  NodesKnowDDs(done)
  <2>1. \A y : DDsListing(s, y) = DDsListing(before, y)
    BY <1>5 DEF DDsListing
  <2>2. /\ n \in DOMAIN s.node
        /\ \A x \in DOMAIN s.node \ {n} : DDsListing(s, x) \subseteq s.node[x].dds
    BY <1>1, <1>5, <2>1 DEF Put, NodesKnowDDs
  <2> QED BY <1>5, <2>2, ActivateMembershipKnown
<1> QED BY <1>2, <1>3, <1>4, <1>5 DEF done

(***************************************************************************)
(* The theorem.                                                            *)
(***************************************************************************)

LEMMA InitKnown == Init => NodesKnowDDs(db)
BY DEF Init, NodesKnowDDs, Empty

LEMMA RequestKnown ==
  ASSUME Sound(db), NodesKnowDDs(db), Request \/ CrashInRegDDS
  PROVE  NodesKnowDDs(db')
<1> Typed(db)
  BY DEF Sound
<1>1. CASE RegEntity
  BY <1>1, RegisterEntityKnown, RequestAssumption DEF RegEntity
<1>2. CASE DeregEntity
  BY <1>2, RemoveEntityKnown DEF DeregEntity
<1>3. CASE RegNode
  BY <1>3, RegisterNodeKnown DEF RegNode
<1>4. CASE DeregNode
  BY <1>4, RemoveNodeKnown DEF DeregNode
<1>5. CASE RegDD
  BY <1>5, RegisterDDKnown, RequestAssumption DEF RegDD
<1>6. CASE DeregDDMember
  BY <1>6, DeregisterDDMemberKnown DEF DeregDDMember
<1>7. CASE DeregDD
  BY <1>7, DeregisterDDKnown DEF DeregDD
<1>8. CASE RegDDS
  BY <1>8, RegisterDDSResultsKnown, RequestAssumption DEF RegDDS
<1>9. CASE DeregDDSMember
  BY <1>9, DeregisterDDSMemberKnown DEF DeregDDSMember
<1>10. CASE DeregDDS
  BY <1>10, DeregisterDDSLearned, DeregisterDDSSame, SameMembersKnown
     DEF DeregDDS
<1>11. CASE CrashInRegDDS
  BY <1>11, RegisterDDSResultsKnown, RequestAssumption DEF CrashInRegDDS
<1> QED BY <1>1, <1>2, <1>3, <1>4, <1>5, <1>6, <1>7, <1>8, <1>9, <1>10, <1>11
        DEF Request

THEOREM KnownAlways == Spec => []NodesKnowDDs(db)
<1>1. Sound(db) /\ NodesKnowDDs(db) /\ [Next]_vars => NodesKnowDDs(db)'
  <2> SUFFICES ASSUME Sound(db), NodesKnowDDs(db), [Next]_vars
               PROVE  NodesKnowDDs(db')
    BY DEF NodesKnowDDs, DDsListing
  <2>1. CASE Next
    BY <2>1, RequestKnown DEF Next
  <2>2. CASE UNCHANGED vars
    BY <2>2 DEF vars
  <2> QED BY <2>1, <2>2
<1> QED BY InitKnown, SoundAlways, <1>1, PTL DEF Spec

\* Every DD that lists a registered node is in the list of that node, in
\* whichever order the node and the membership were registered
\* (Add_DD_to_ISCSI_Node, Activate_DD_Membership, Remove_DD_from_ISCSI_Node).
THEOREM MembersKnownAlways == Spec => []MembersKnowTheirDDs
<1>1. NodesKnowDDs(db) => MembersKnowTheirDDs
  BY DEF MembersKnowTheirDDs
<1> QED BY KnownAlways, <1>1, PTL

-----------------------------------------------------------------------------
(***************************************************************************)
(* The symbolic names of DDs.                                              *)
(***************************************************************************)

\* No two DDs of r have one name.
NamesApart(r) ==
  \A d, x \in DOMAIN r.dd :
    d # x /\ r.dd[d].sym = r.dd[x].sym => r.dd[d].sym = NoSym

\* The DDs of s are in r, under the same names.
SameSyms(r, s) ==
  /\ DOMAIN s.dd \subseteq DOMAIN r.dd
  /\ \A d \in DOMAIN s.dd : s.dd[d].sym = r.dd[d].sym

LEMMA SameSymsApart ==
  ASSUME NEW r, NEW s, NamesApart(r), SameSyms(r, s)
  PROVE  NamesApart(s)
BY DEF NamesApart, SameSyms

LEMMA SameSymsTransitive ==
  ASSUME NEW r, NEW s, NEW t, SameSyms(r, s), SameSyms(s, t)
  PROVE  SameSyms(r, t)
BY DEF SameSyms

LEMMA SameDDsSyms ==
  ASSUME NEW r, NEW s, s.dd = r.dd
  PROVE  SameSyms(r, s)
BY DEF SameSyms

\* One DD is written, and keeps its name.
LEMMA UpdatedDDSyms ==
  ASSUME NEW r, NEW s, NEW d, NEW x, s.dd = [r.dd EXCEPT ![d] = x],
         d \in DOMAIN r.dd => x.sym = r.dd[d].sym
  PROVE  SameSyms(r, s)
BY DEF SameSyms

(***************************************************************************)
(* Members and nodes.                                                      *)
(***************************************************************************)

LEMMA AddDDMemberSyms ==
  ASSUME NEW r, Typed(r), NEW d \in DOMAIN r.dd, NEW n, NEW enabled
  PROVE  SameSyms(r, AddDDMember(r, d, n, enabled))
<1> DEFINE new == [r.dd[d] EXCEPT !.members =
                     Append(@, [name |-> n, enabled |-> enabled])]
           s   == AddDDMember(r, d, n, enabled)
<1>1. r.dd[d] \in DDObjects
  BY TypedObjects
<1>2. new.sym = r.dd[d].sym
  BY <1>1 DEF DDObjects
<1>3. s.dd = r.dd \/ s.dd = [r.dd EXCEPT ![d] = new]
  BY <1>1 DEF AddDDMember, Typed, DDObjects
<1> HIDE DEF new
<1> QED BY <1>2, <1>3, SameDDsSyms, UpdatedDDSyms

LEMMA JoinDDSyms ==
  ASSUME NEW r, Typed(r), NEW d \in DOMAIN r.dd, NEW n \in Names
  PROVE  SameSyms(r, JoinDD(r, d, n))
<1> DEFINE s == AddDDToNode(r, d, n)
<1>1. Typed(s) /\ s.dd = r.dd
  BY AddDDToNodeTyped, AddDDToNodeDomains
<1> HIDE DEF s
<1>2. SameSyms(s, AddDDMember(s, d, n, n \in DOMAIN r.node))
  BY <1>1, AddDDMemberSyms
<1>3. SameSyms(r, AddDDMember(s, d, n, n \in DOMAIN r.node))
  BY <1>1, <1>2, SameDDsSyms, SameSymsTransitive
<1> QED BY <1>3 DEF JoinDD, s

LEMMA DeregisterDDMemberSyms ==
  ASSUME NEW r, Typed(r), NEW d, NEW a \in MemberAttrs
  PROVE  SameSyms(r, DeregisterDDMember(r, d, a))
<1> DEFINE n == AttrName(a)
           s == RemoveDDFromNode(r, d, n)
           t == RemoveDDMember(s, d, n)
<1>1. Typed(s) /\ s.dd = r.dd
  BY AttrNameType, RemoveDDFromNodeTyped, RemoveDDFromNodeSame
<1>2. DeregisterDDMember(r, d, a) \in {r, t}
  BY DEF DeregisterDDMember
<1> HIDE DEF s, n
<1>3. CASE d \in DOMAIN r.dd
  <2> DEFINE new == [s.dd[d] EXCEPT !.members =
                       RemoveAt(@, CHOOSE i \in DOMAIN @ : @[i].name = n)]
  <2>1. s.dd[d] \in DDObjects
    BY <1>1, <1>3, TypedObjects
  <2>2. new.sym = s.dd[d].sym
    BY <2>1 DEF DDObjects
  <2>3. t.dd = s.dd \/ t.dd = [s.dd EXCEPT ![d] = new]
    BY <1>1, <1>3, <2>1 DEF RemoveDDMember, Typed, DDObjects
  <2> HIDE DEF new, t
  <2>4. SameSyms(s, t)
    BY <2>2, <2>3, SameDDsSyms, UpdatedDDSyms
  <2>5. SameSyms(r, t)
    BY <1>1, <2>4 DEF SameSyms
  <2> QED BY <1>2, <2>5, SameDDsSyms
<1>4. CASE d \notin DOMAIN r.dd
  BY <1>4, SameDDsSyms DEF DeregisterDDMember
<1> QED BY <1>3, <1>4

LEMMA ActivateMembershipSyms ==
  ASSUME NEW r, Typed(r), NEW n \in DOMAIN r.node
  PROVE  SameSyms(r, ActivateMembership(r, n))
<1> DEFINE default == {x \in DOMAIN r.dd : r.dd[x].sym = DefaultSym}
           d       == CHOOSE x \in default : TRUE
           added   == AddDDMember(r, d, n, TRUE)
<1>1. ActivateMembership(r, n).dd \in {r.dd, added.dd}
      /\ (default = {} => ActivateMembership(r, n).dd = r.dd)
  <2>1. CASE default = {}
    BY <2>1 DEF ActivateMembership, Typed
  <2>2. CASE default # {}
    <3>1. Typed(added)
      BY <2>2, AddDDMemberTyped, TypedObjects
    <3> HIDE DEF added
    <3> QED BY <2>2, <3>1 DEF ActivateMembership, Typed, added
  <2> QED BY <2>1, <2>2
<1>2. default # {} => SameSyms(r, added)
  BY AddDDMemberSyms
<1> HIDE DEF default, added
<1> QED BY <1>1, <1>2 DEF SameSyms

LEMMA RegisterNodeSyms ==
  ASSUME NEW r, Sound(r), NEW n \in Names, NEW e \in Entities,
         NEW replace \in BOOLEAN
  PROVE  SameSyms(r, RegisterNode(r, n, e, replace))
<1> DEFINE before == IF replace THEN RemoveNode(r, n) ELSE r
           fresh  == [entity |-> e, active |-> FALSE, dds |-> {}]
           done   == RegisterNode(r, n, e, replace)
<1>1. Typed(r) /\ before.dd = r.dd
  BY RemoveNodeLinks DEF Sound
<1>2. \A t, x : n \in DOMAIN Put(t, n, x)
  BY DEF Put
<1>3. \/ n \in DOMAIN r.node /\ done = ActivateMembership(r, n)
      \/ done.dd = before.dd
      \/ \E s : /\ Sound(s) /\ s.dd = before.dd
                /\ s.node = Put(before.node, n, fresh)
                /\ done = ActivateMembership(s, n)
  BY RegisterNodeSteps
<1> HIDE DEF before, fresh, done
<1>4. ASSUME NEW s, Sound(s), s.dd = before.dd,
             s.node = Put(before.node, n, fresh), done = ActivateMembership(s, n)
      PROVE  SameSyms(r, done)
  BY <1>1, <1>2, <1>4, ActivateMembershipSyms, SameDDsSyms, SameSymsTransitive
     DEF Sound
<1> QED BY <1>1, <1>3, <1>4, ActivateMembershipSyms, SameDDsSyms DEF done

(***************************************************************************)
(* Discovery Domains and sets.                                             *)
(***************************************************************************)

LEMMA DeregisterDDSyms ==
  ASSUME NEW r, Typed(r), NEW d
  PROVE  SameSyms(r, DeregisterDD(r, d))
<1>1. CASE d \in DOMAIN r.dd
  <2> DEFINE s == DeregisterDD(r, d)
             new == [r.dd[d] EXCEPT !.members = <<>>]
  <2>1. r.dd[d] \in DDObjects
    BY <1>1, TypedObjects
  <2>2. s.dd = Drop(r.dd, d) \/ s.dd = [r.dd EXCEPT ![d] = new]
    BY <1>1, <2>1 DEF DeregisterDD, Typed
  <2>3. new.sym = r.dd[d].sym
    BY <2>1 DEF DDObjects
  <2> HIDE DEF s, new
  <2>4. CASE s.dd = Drop(r.dd, d)
    BY <2>4 DEF SameSyms, Drop, s
  <2>5. CASE s.dd = [r.dd EXCEPT ![d] = new]
    BY <2>3, <2>5, UpdatedDDSyms DEF s
  <2> QED BY <2>2, <2>4, <2>5
<1>2. CASE d \notin DOMAIN r.dd
  BY <1>2, SameDDsSyms DEF DeregisterDD
<1> QED BY <1>1, <1>2

LEMMA DeregisterDDSSyms ==
  ASSUME NEW r, Typed(r), NEW s
  PROVE  SameSyms(r, DeregisterDDS(r, s))
<1> DEFINE listed  == r.dds[s].dds
           left    == StoredPrefix(listed, r.dd)
           dark(d) == ~IsDDActive(r, d, {s})
           dd      == [d \in DOMAIN r.dd |->
                         IF d \notin left THEN r.dd[d]
                         ELSE [r.dd[d] EXCEPT !.dds = Without(@, s),
                                              !.active = @ /\ ~dark(d)]]
           unlinked == [r EXCEPT !.dd = dd]
           changed == SelectSeq(listed, LAMBDA d : r.dd[d].active /\ dark(d))
           flagged == ChangeMemberFlags(unlinked, changed)
           removed == [flagged EXCEPT !.dds = Drop(@, s)]
<1>1. \A d \in DOMAIN r.dd : dd[d].sym = r.dd[d].sym
  <2>1. \A d \in DOMAIN r.dd : r.dd[d] \in DDObjects
    BY TypedObjects
  <2> HIDE DEF dark, left
  <2> QED BY <2>1 DEF DDObjects
<1>2. DeregisterDDS(r, s) \in {r, unlinked, removed}
  BY DEF DeregisterDDS
<1>3. DOMAIN dd = DOMAIN r.dd
  OBVIOUS
<1> HIDE DEF dd, changed
<1>4. unlinked.dd = dd
  BY DEF Typed
<1>5. flagged.dd = unlinked.dd /\ removed.dd = flagged.dd
  BY DEF ChangeMemberFlags, Typed
<1> HIDE DEF unlinked, flagged, removed
<1> QED BY <1>1, <1>2, <1>3, <1>4, <1>5 DEF SameSyms

LEMMA SpreadStatusSyms ==
  ASSUME NEW r, Typed(r), NEW s, NEW w
  PROVE  SameSyms(r, SpreadStatus(r, s, w))
<1> DEFINE visited == SubSeq(r.dds[s].dds, 1, w.visited)
           changed == SelectSeq(visited, LAMBDA d :
                        r.dd[d].active # IsDDActive(r, d, {}))
           dd == [d \in DOMAIN r.dd |->
                    IF d \in Range(visited)
                    THEN [r.dd[d] EXCEPT !.active = IsDDActive(r, d, {})]
                    ELSE r.dd[d]]
           spread == [r EXCEPT !.dd = dd]
           flagged == ChangeMemberFlags(spread, changed)
<1>1. \A d \in DOMAIN r.dd : dd[d].sym = r.dd[d].sym
  <2>1. \A d \in DOMAIN r.dd : r.dd[d] \in DDObjects
    BY TypedObjects
  <2> HIDE DEF visited
  <2> QED BY <2>1 DEF DDObjects
<1>2. SpreadStatus(r, s, w) \in {spread, flagged}
  BY DEF SpreadStatus
<1>3. DOMAIN dd = DOMAIN r.dd
  OBVIOUS
<1> HIDE DEF dd, changed
<1>4. spread.dd = dd
  BY DEF Typed
<1>5. flagged.dd = spread.dd
  BY DEF ChangeMemberFlags, Typed
<1> HIDE DEF spread, flagged
<1> QED BY <1>1, <1>2, <1>3, <1>4, <1>5 DEF SameSyms

LEMMA DeregisterDDSMemberSyms ==
  ASSUME NEW r, Typed(r), NEW s, NEW d
  PROVE  SameSyms(r, DeregisterDDSMember(r, s, d))
<1> DEFINE new == [r.dd[d] EXCEPT !.dds = Without(@, s),
                                  !.active = @ /\ IsDDActive(r, d, {s})]
           t == DeregisterDDSMember(r, s, d)
<1>1. CASE d \in DOMAIN r.dd
  <2>1. r.dd[d] \in DDObjects
    BY <1>1, TypedObjects
  <2>2. new.sym = r.dd[d].sym
    BY <2>1 DEF DDObjects
  <2>3. t.dd = r.dd \/ t.dd = [r.dd EXCEPT ![d] = new]
    BY <1>1, <2>1 DEF DeregisterDDSMember, Typed, DDObjects
  <2> HIDE DEF new, t
  <2>4. SameSyms(r, t)
    BY <1>1, <2>2, <2>3 DEF SameSyms
  <2> QED BY <2>4 DEF t
<1>2. CASE d \notin DOMAIN r.dd
  <2>1. t.dd = r.dd
    BY <1>2 DEF DeregisterDDSMember, Typed
  <2> QED BY <2>1, SameDDsSyms
<1> QED BY <1>1, <1>2

LEMMA AddDDSToDDSyms ==
  ASSUME NEW r, Typed(r), NEW s, NEW d \in DOMAIN r.dd, NEW status
  PROVE  SameSyms(r, AddDDSToDD(r, s, d, status))
<1> DEFINE new == [r.dd[d] EXCEPT !.dds = AppendNew(@, s),
                                  !.active = @ \/ status]
           t == AddDDSToDD(r, s, d, status)
<1>1. r.dd[d] \in DDObjects
  BY TypedObjects
<1>2. new.sym = r.dd[d].sym
  BY <1>1 DEF DDObjects
<1>3. t.dd = [r.dd EXCEPT ![d] = new]
  BY <1>1 DEF AddDDSToDD, Typed, DDObjects
<1> HIDE DEF new
<1> QED BY <1>2, <1>3, UpdatedDDSyms

LEMMA PlaceDDSSyms ==
  ASSUME NEW r, Typed(r), NEW m \in DDSRequests
  PROVE  SameSyms(r, PlaceDDS(r, m).db)
<1> DEFINE s        == m.dds
           new      == s \notin DOMAIN r.dds \/ m.replace
           before   == IF m.replace THEN DeregisterDDS(r, s) ELSE r
           old      == IF new THEN [sym |-> NoSym, status |-> FALSE, dds |-> <<>>]
                       ELSE r.dds[s]
           start    == [before EXCEPT !.dds = Put(@, s, old)]
           status   == IF m.status = <<>> THEN old.status ELSE m.status[1]
           given    == IF m.statusLast THEN old.status ELSE status
           unknown  == m.dd # <<>> /\ m.dd[1] \notin DOMAIN r.dd
           linked   == IF m.dd = <<>> \/ unknown THEN start
                       ELSE AddDDSToDD(start, s, m.dd[1], given)
           written  == [linked EXCEPT
                          !.dds[s].status = status,
                          !.dds[s].sym = IF m.sym = NoSym THEN @ ELSE m.sym]
           undone   == [linked EXCEPT !.dds = before.dds]
<1>1. Typed(before) /\ SameSyms(r, before) /\ DOMAIN before.dd = DOMAIN r.dd
  BY DeregisterDDSTyped, DeregisterDDSSyms, DeregisterDDSKeepsDDs DEF SameSyms
<1>2. start.dd = before.dd /\ Typed(start)
  <2>1. old \in DDSObjects /\ s \in DDSs
    BY SymAssumption, EmptySeq, TypedObjects DEF DDSObjects, DDSRequests
  <2> HIDE DEF before, old
  <2>2. IsTable(Put(before.dds, s, old), DDSs, DDSObjects)
    BY <1>1, <2>1, TypedTables, PutTable
  <2> QED BY <1>1, <2>2, TypedUpdate DEF Typed
<1> HIDE DEF before, old, status, given, start
<1>3. SameSyms(r, start)
  BY <1>1, <1>2 DEF SameSyms
<1>4. SameSyms(r, linked)
  <2>1. CASE m.dd = <<>> \/ unknown
    BY <1>3, <2>1
  <2>2. CASE m.dd # <<>> /\ ~unknown
    <3>1. m.dd[1] \in DOMAIN start.dd
      BY <1>1, <1>2, <2>2
    <3> DEFINE d == m.dd[1]
    <3> HIDE DEF d
    <3>2. SameSyms(start, AddDDSToDD(start, s, d, given))
      BY <1>2, <3>1, AddDDSToDDSyms DEF d
    <3>3. linked = AddDDSToDD(start, s, d, given)
      BY <2>2 DEF d
    <3> HIDE DEF linked
    <3> QED BY <1>3, <3>2, <3>3, SameSymsTransitive
  <2> QED BY <2>1, <2>2
<1>5. {"dd", "dds"} \subseteq DOMAIN linked
  BY <1>2 DEF AddDDSToDD, Typed
<1> HIDE DEF linked
<1>6. undone.dd = linked.dd /\ written.dd = linked.dd
  BY <1>5
<1>7. PlaceDDS(r, m).db \in {before, undone, linked, written}
  BY DEF PlaceDDS, before, old, status, given, start, linked
<1> HIDE DEF undone, written
<1> QED BY <1>1, <1>4, <1>6, <1>7 DEF SameSyms

LEMMA RegisterDDSResultsSyms ==
  ASSUME NEW r, Typed(r), NEW m \in DDSRequests,
         NEW res \in RegisterDDSResults(r, m)
  PROVE  SameSyms(r, res.db)
<1> DEFINE p == PlaceDDS(r, m).db
<1>1. Typed(p) /\ SameSyms(r, p)
  BY PlaceDDSTyped, PlaceDDSSyms
<1>2. res.db = p \/ \E w : res.db = SpreadStatus(p, m.dds, w)
  BY DEF RegisterDDSResults
<1> HIDE DEF p
<1>3. \A w : SameSyms(p, SpreadStatus(p, m.dds, w))
  BY <1>1, SpreadStatusSyms
<1> QED BY <1>1, <1>2, <1>3, SameSymsTransitive

\* The one handler that gives names: no other DD has the name that it makes up
\* or that it takes from the client.
LEMMA RegisterDDApart ==
  ASSUME NEW r, Typed(r), NamesApart(r), NEW m \in DDRequests, MadeUp(r, m)
  PROVE  NamesApart(RegisterDD(r, m))
<1> DEFINE d        == m.dd
           exists   == d \in DOMAIN r.dd
           new      == [sym |-> IF m.sym = NoSym THEN m.auto ELSE NoSym,
                        active |-> FALSE, members |-> <<>>, dds |-> <<>>]
           start    == IF exists THEN r ELSE [r EXCEPT !.dd = Put(@, d, new)]
           unknown  == m.member # <<>> /\ ~AttrKnown(r, m.member[1])
           joined   == IF m.member = <<>> \/ unknown THEN start
                       ELSE JoinDD(start, d, AttrName(m.member[1]))
           conflict == /\ NameRead(m) \notin {NoSym, start.dd[d].sym}
                       /\ DDSymTaken(r, d, NameRead(m))
           undone   == [joined EXCEPT !.dd = r.dd]
           named    == [joined.dd[d] EXCEPT !.sym = NameRead(m)]
           renamed  == [joined EXCEPT !.dd = [@ EXCEPT ![d] = named]]
<1>1. /\ d \in DDs
      /\ m.auto \in Syms /\ NameRead(m) \in Syms \cup {NoSym}
      /\ m.member # <<>> => m.member[1] \in MemberAttrs
  BY RequestNames DEF DDRequests
<1>2. NoSym \notin Syms
  BY SymAssumption
<1>3. \A x \in DOMAIN r.dd : x # d /\ ~exists /\ m.sym = NoSym => r.dd[x].sym # m.auto
  BY DEF MadeUp, DDSymTaken
<1>4. Typed(start) /\ d \in DOMAIN start.dd /\ NamesApart(start)
      /\ DOMAIN start.dd = DOMAIN r.dd \cup {d}
      /\ \A x \in DOMAIN r.dd \ {d} : start.dd[x] = r.dd[x]
  <2>1. CASE exists
    BY <2>1
  <2>2. CASE ~exists
    <3> DEFINE x == [r EXCEPT !.dd = Put(@, d, new)]
    <3>1. /\ new \in DDObjects
          /\ new.sym = NoSym \/ (m.sym = NoSym /\ new.sym = m.auto)
      BY <1>1, EmptySeq DEF DDObjects
    <3> HIDE DEF new
    <3>2. IsTable(Put(r.dd, d, new), DDs, DDObjects)
      BY <1>1, <3>1, TypedTables, PutTable
    <3>3. Typed(x) /\ x.dd = Put(r.dd, d, new)
      BY <3>2, TypedUpdate DEF Typed
    <3>4. start = x
      BY <2>2
    <3> HIDE DEF x, start, d
    <3>5. /\ DOMAIN x.dd = DOMAIN r.dd \cup {d}
          /\ x.dd[d] = new
          /\ \A y \in DOMAIN r.dd \ {d} : x.dd[y] = r.dd[y]
      BY <3>3 DEF Put
    <3>6. NamesApart(x)
      <4>1. \A y \in DOMAIN r.dd \ {d} :
              x.dd[y].sym = x.dd[d].sym => x.dd[d].sym = NoSym
        BY <1>3, <2>2, <3>1, <3>5
      <4> QED BY <3>5, <4>1 DEF NamesApart
    <3> QED BY <3>3, <3>4, <3>5, <3>6
  <2> QED BY <2>1, <2>2
<1> HIDE DEF start
<1>5. Typed(joined) /\ DOMAIN joined.dd = DOMAIN start.dd /\ SameSyms(start, joined)
  <2>1. CASE m.member = <<>> \/ unknown
    BY <1>4, <2>1, SameDDsSyms
  <2>2. CASE m.member # <<>> /\ ~unknown
    <3> DEFINE n == AttrName(m.member[1])
    <3>1. n \in Names
      BY <1>1, <2>2, AttrNameType
    <3>2. joined = JoinDD(start, d, n)
      BY <2>2
    <3> HIDE DEF n, joined, d
    <3> QED BY <1>4, <3>1, <3>2, JoinDDTyped, JoinDDKeepsDDs, JoinDDSyms
  <2> QED BY <2>1, <2>2
<1> HIDE DEF joined
<1>6. NamesApart(joined)
  BY <1>4, <1>5, SameSymsApart
<1>7. NamesApart(undone)
  <2>1. undone.dd = r.dd
    BY <1>5 DEF Typed
  <2> HIDE DEF undone
  <2> QED BY <2>1, SameDDsSyms, SameSymsApart
<1>8. ASSUME ~conflict, NameRead(m) # NoSym PROVE NamesApart(renamed)
  <2>1. joined.dd[d] \in DDObjects
    BY <1>4, <1>5, TypedObjects
  <2>2. named.sym = NameRead(m)
    BY <2>1 DEF DDObjects
  <2> HIDE DEF named
  <2>3. renamed.dd = [joined.dd EXCEPT ![d] = named]
    BY <1>5 DEF Typed
  <2>4. /\ DOMAIN renamed.dd = DOMAIN joined.dd
        /\ renamed.dd[d].sym = NameRead(m)
        /\ \A x \in DOMAIN joined.dd \ {d} : renamed.dd[x] = joined.dd[x]
    BY <1>4, <1>5, <2>2, <2>3
  <2>5. CASE NameRead(m) = start.dd[d].sym
    <3>1. SameSyms(joined, renamed)
      BY <1>4, <1>5, <2>4, <2>5 DEF SameSyms
    <3> QED BY <1>6, <3>1, SameSymsApart
  <2>6. CASE NameRead(m) # start.dd[d].sym
    <3>1. \A x \in DOMAIN r.dd \ {d} : r.dd[x].sym # NameRead(m)
      BY <1>8, <2>6 DEF DDSymTaken
    <3>2. \A x \in DOMAIN joined.dd \ {d} : joined.dd[x].sym # NameRead(m)
      BY <1>4, <1>5, <3>1 DEF SameSyms
    <3> HIDE DEF renamed, d
    <3> QED BY <1>1, <1>6, <2>4, <3>2 DEF NamesApart
  <2> QED BY <2>5, <2>6
<1>9. \/ RegisterDD(r, m) \in {r, joined, undone}
      \/ ~conflict /\ NameRead(m) # NoSym /\ RegisterDD(r, m) = renamed
  <2> HIDE DEF new
  <2> QED BY DEF RegisterDD, start, joined, new
<1> QED BY <1>6, <1>7, <1>8, <1>9

(***************************************************************************)
(* The theorem.                                                            *)
(***************************************************************************)

LEMMA InitApart == Init => NamesApart(db)
<1> SUFFICES ASSUME Init PROVE NamesApart(db)
  OBVIOUS
<1>1. PICK d \in DDs, s \in DDSs :
        db = [entity |-> Empty, node |-> Empty, idx |-> Empty,
              dd  |-> Put(Empty, d, [sym |-> DefaultSym, active |-> TRUE,
                                     members |-> <<>>, dds |-> <<s>>]),
              dds |-> Put(Empty, s, [sym |-> DefaultDDSSym, status |-> TRUE,
                                     dds |-> <<d>>])]
  BY DEF Init
<1>2. DOMAIN db.dd = {d} /\ db.dd[d].sym = DefaultSym
  BY <1>1 DEF Put, Empty
<1> QED BY <1>2, SymAssumption DEF NamesApart

LEMMA RequestApart ==
  ASSUME Sound(db), NamesApart(db), Request \/ CrashInRegDDS
  PROVE  NamesApart(db')
<1> Typed(db)
  BY DEF Sound
<1>1. CASE RegEntity
  <2>1. PICK m \in EntityReqs : db' = RegisterEntity(db, m)
    BY <1>1 DEF RegEntity
  <2>2. RegisterEntity(db, m).dd = db.dd
    BY RemoveEntityTyped, RemoveEntityLinks DEF RegisterEntity, Typed
  <2> QED BY <2>1, <2>2, SameDDsSyms, SameSymsApart
<1>2. CASE DeregEntity
  BY <1>2, RemoveEntityLinks, SameDDsSyms, SameSymsApart DEF DeregEntity
<1>3. CASE RegNode
  BY <1>3, RegisterNodeSyms, SameSymsApart DEF RegNode
<1>4. CASE DeregNode
  BY <1>4, RemoveNodeLinks, SameDDsSyms, SameSymsApart DEF DeregNode
<1>5. CASE RegDD
  BY <1>5, RegisterDDApart, RequestAssumption DEF RegDD
<1>6. CASE DeregDDMember
  BY <1>6, DeregisterDDMemberSyms, SameSymsApart DEF DeregDDMember
<1>7. CASE DeregDD
  BY <1>7, DeregisterDDSyms, SameSymsApart DEF DeregDD
<1>8. CASE RegDDS
  BY <1>8, RegisterDDSResultsSyms, RequestAssumption, SameSymsApart DEF RegDDS
<1>9. CASE DeregDDSMember
  BY <1>9, DeregisterDDSMemberSyms, SameSymsApart DEF DeregDDSMember
<1>10. CASE DeregDDS
  BY <1>10, DeregisterDDSSyms, SameSymsApart DEF DeregDDS
<1>11. CASE CrashInRegDDS
  BY <1>11, RegisterDDSResultsSyms, RequestAssumption, SameSymsApart
     DEF CrashInRegDDS
<1> QED BY <1>1, <1>2, <1>3, <1>4, <1>5, <1>6, <1>7, <1>8, <1>9, <1>10, <1>11
        DEF Request

\* The same of the tables, as it is kept by every request.
THEOREM NamesApartAlways == Spec => []NamesApart(db)
<1>1. Sound(db) /\ NamesApart(db) /\ [Next]_vars => NamesApart(db)'
  <2> SUFFICES ASSUME Sound(db), NamesApart(db), [Next]_vars
               PROVE  NamesApart(db')
    BY DEF NamesApart
  <2>1. CASE Next
    BY <2>1, RequestApart DEF Next
  <2>2. CASE UNCHANGED vars
    BY <2>2 DEF vars
  <2> QED BY <2>1, <2>2
<1> QED BY InitApart, SoundAlways, <1>1, PTL DEF Spec

\* Two DDs never have the same symbolic name (Check_Unique_DD_Sym), whatever
\* names clients ask for and whichever registrations fail; a DD left without a
\* name by a failed registration does not count.
THEOREM DDNamesUniqueAlways == Spec => []DDNamesUnique
<1>1. NamesApart(db) => DDNamesUnique
  BY DEF NamesApart, DDNamesUnique
<1> QED BY NamesApartAlways, <1>1, PTL

(***************************************************************************)
(* Queries and walks: theorems about IsnsQuery.  The server with queries   *)
(* is a behaviour of the registry, so every invariant above holds of it.   *)
(***************************************************************************)

(***************************************************************************)
(* The order of a table.  A finite set of keys has a lowest and a highest: *)
(* the sets of the elements on one side of one of them are subsets of a    *)
(* finite set, and the order of those is well founded.                     *)
(***************************************************************************)

\* What a key of a table may be.
Places == Names \cup Entities \cup DDs \cup {Start}

LEMMA KeyTypes ==
  /\ \A x \in Places : Key(x) \in Nat
  /\ \A x \in Names \cup Entities : Key(x) > 0
  /\ \A x \in DDs : Key(x) = x /\ x > 0
  /\ Key(Start) = 0
<1>1. DDs \subseteq Nat
  BY IdAssumption
<1>2. /\ 0 \notin DDs /\ (Names \cup Entities) \cap (DDs \cup {0}) = {}
      /\ Rank \in [Names \cup Entities -> Nat \ {0}]
  BY QueryAssumption
<1>3. \A x \in Names \cup Entities : Key(x) = Rank[x]
  BY <1>2 DEF Key, Start
<1>4. \A x \in Names \cup Entities : Rank[x] \in Nat /\ Rank[x] > 0
  BY <1>2
<1>5. \A x \in DDs \cup {0} : Key(x) = x
  BY DEF Key, Start
<1>6. \A x \in Names \cup Entities : Key(x) \in Nat /\ Key(x) > 0
  BY <1>3, <1>4
<1>7. \A x \in DDs : Key(x) = x /\ x \in Nat /\ x # 0
  BY <1>1, <1>2, <1>5
<1>8. Key(Start) = 0
  BY <1>5 DEF Start
<1> HIDE DEF Key
<1>9. \A x \in Places : Key(x) \in Nat
  BY <1>6, <1>7, <1>8 DEF Places
<1>10. \A x \in DDs : x > 0
  BY <1>7
<1> QED BY <1>6, <1>7, <1>8, <1>9, <1>10

LEMMA KeysApart ==
  ASSUME NEW x, NEW y,
         \/ x \in Names \cup Entities /\ y \in Names \cup Entities
         \/ x \in DDs /\ y \in DDs,
         Key(x) = Key(y)
  PROVE  x = y
<1>1. CASE x \in DDs /\ y \in DDs
  BY <1>1, KeyTypes
<1>2. CASE x \in Names \cup Entities /\ y \in Names \cup Entities
  <2>1. IsInjective(Rank) /\ DOMAIN Rank = Names \cup Entities
    BY QueryAssumption
  <2>2. Key(x) = Rank[x] /\ Key(y) = Rank[y]
    BY <1>2, QueryAssumption DEF Key, Start
  <2> QED BY <1>2, <2>1, <2>2 DEF IsInjective
<1> QED BY <1>1, <1>2

\* In a finite nonempty set of places, for one side of the order.
LEMMA Extreme ==
  ASSUME NEW S, IsFiniteSet(S), S # {}, NEW f, \A x \in S : f[x] \in Int
  PROVE  \E x \in S : \A y \in S : f[x] <= f[y]
<1> DEFINE Below(x) == {y \in S : f[y] <= f[x]}
           U == {Below(x) : x \in S}
<1>1. IsWellFoundedOn(StrictSubsetOrdering(S), SUBSET S)
  BY FS_StrictSubsetOrderingWellFounded, FS_FiniteSubsetsOfFinite
<1>2. U \subseteq SUBSET S /\ U # {}
  OBVIOUS
<1> HIDE DEF U
<1>3. \E u \in U : \A v \in U : ~(<<v, u>> \in StrictSubsetOrdering(S))
  BY <1>1, <1>2, WFMin
<1>4. PICK x \in S : \A v \in U : ~(<<v, Below(x)>> \in StrictSubsetOrdering(S))
  BY <1>3 DEF U
<1>5. ASSUME NEW y \in S, ~(f[x] <= f[y])
      PROVE  FALSE
  <2>1. f[x] \in Int /\ f[y] \in Int /\ f[y] < f[x]
    BY <1>5
  <2>2. Below(y) \in U
    BY DEF U
  <2>3. Below(y) \subseteq Below(x)
    BY <2>1
  <2>4. x \in Below(x) /\ x \notin Below(y)
    BY <2>1
  <2>5. Below(x) \subseteq S /\ Below(y) \subseteq S
    OBVIOUS
  <2> HIDE DEF Below
  <2>6. <<Below(y), Below(x)>> \in StrictSubsetOrdering(S)
    BY <2>3, <2>4, <2>5 DEF StrictSubsetOrdering
  <2> QED BY <1>4, <2>2, <2>6
<1> QED BY <1>5

LEMMA LowestOf ==
  ASSUME NEW S, S \subseteq Places, IsFiniteSet(S), S # {}
  PROVE  Lowest(S) \in S /\ \A y \in S : Key(Lowest(S)) <= Key(y)
<1> DEFINE f == [x \in S |-> Key(x)]
<1>1. \A x \in S : f[x] = Key(x) /\ f[x] \in Int
  BY KeyTypes
<1> HIDE DEF f
<1>2. \E x \in S : \A y \in S : f[x] <= f[y]
  BY <1>1, Extreme
<1>3. \E x \in S : \A y \in S : Key(x) <= Key(y)
  BY <1>1, <1>2
<1> QED BY <1>3 DEF Lowest

LEMMA HighestOf ==
  ASSUME NEW S, S \subseteq Places, IsFiniteSet(S), S # {}
  PROVE  \E x \in S : \A y \in S : Key(y) <= Key(x)
<1> DEFINE f == [x \in S |-> 0 - Key(x)]
<1>1. \A x \in S : Key(x) \in Nat
  BY KeyTypes
<1>2. \A x \in S : f[x] = 0 - Key(x) /\ f[x] \in Int
  BY <1>1
<1> HIDE DEF f
<1>3. PICK x \in S : \A y \in S : f[x] <= f[y]
  BY <1>2, Extreme
<1>4. \A y \in S : Key(y) <= Key(x)
  BY <1>1, <1>2, <1>3
<1> QED BY <1>4

(***************************************************************************)
(* Types.                                                                  *)
(***************************************************************************)

\* What a walk goes over.
Elements(w) ==
  IF w.of \in {"nodes", "members"} THEN Names
  ELSE IF w.of = "entities" THEN Entities ELSE DDs

LEMMA TableWalkTypes ==
  ASSUME NEW w \in TableWalks, NEW x \in {Start} \cup Elements(w),
         NEW S, S \subseteq Elements(w)
  PROVE  /\ w.of \in TableKinds
         /\ w.at \in {Start} \cup Elements(w)
         /\ w.owed \subseteq Elements(w)
         /\ [w EXCEPT !.owed = S] \in TableWalks
         /\ [w EXCEPT !.at = x, !.owed = S] \in TableWalks
<1>1. CASE w \in [of : {"nodes"}, src : Walkers, at : {Start} \cup Names,
                  owed : SUBSET Names]
  BY <1>1 DEF TableWalks, TableKinds, Elements
<1>2. CASE w \in [of : {"entities"}, src : Walkers, at : {Start} \cup Entities,
                  owed : SUBSET Entities]
  BY <1>2 DEF TableWalks, TableKinds, Elements
<1>3. CASE w \in [of : {"domains"}, src : {NoSource}, at : {Start} \cup DDs,
                  owed : SUBSET DDs]
  BY <1>3 DEF TableWalks, TableKinds, Elements
<1> QED BY <1>1, <1>2, <1>3 DEF TableWalks

LEMMA ListWalkTypes ==
  ASSUME NEW w \in ListWalks, NEW x \in {Start} \cup Elements(w),
         NEW S, S \subseteq Elements(w), NEW b \in BOOLEAN
  PROVE  /\ w.of \in ListKinds
         /\ w.of = "members" => w.key \in DDs
         /\ w.of = "sets" => w.key \in DDSs
         /\ w.at \in {Start} \cup Elements(w)
         /\ w.moved \in BOOLEAN
         /\ w.owed \subseteq Elements(w)
         /\ [w EXCEPT !.owed = S, !.moved = b] \in ListWalks
         /\ [w EXCEPT !.at = x, !.owed = S] \in ListWalks
<1>1. CASE w \in [of : {"members"}, key : DDs, at : {Start} \cup Names,
                  moved : BOOLEAN, owed : SUBSET Names]
  BY <1>1 DEF ListWalks, ListKinds, Elements
<1>2. CASE w \in [of : {"sets"}, key : DDSs, at : {Start} \cup DDs,
                  moved : BOOLEAN, owed : SUBSET DDs]
  BY <1>2 DEF ListWalks, ListKinds, Elements
<1> QED BY <1>1, <1>2 DEF ListWalks

\* The three forms of a walk.
Walks3(w) == w \in {Idle} \cup TableWalks \cup ListWalks

LEMMA WalkForms ==
  ASSUME NEW w, Walks3(w)
  PROVE  /\ w.of = "idle" \/ w.of \in TableKinds \/ w.of \in ListKinds
         /\ w.of = "idle" => w = Idle
         /\ w.of \in TableKinds => w \in TableWalks
         /\ w.of \in ListKinds => w \in ListWalks
<1>1. CASE w = Idle
  BY <1>1 DEF Idle, TableKinds, ListKinds
<1>2. CASE w \in TableWalks
  BY <1>2 DEF TableWalks, TableKinds, ListKinds
<1>3. CASE w \in ListWalks
  BY <1>3 DEF ListWalks, TableKinds, ListKinds
<1> QED BY <1>1, <1>2, <1>3 DEF Walks3

LEMMA DisturbedTyped ==
  ASSUME NEW w, Walks3(w), NEW r
  PROVE  Walks3(Disturbed(r, w))
<1>1. CASE w.of = "idle"
  BY <1>1 DEF Disturbed, ListKinds
<1>2. CASE w.of \in TableKinds
  <2>1. w \in TableWalks
    BY <1>2, WalkForms
  <2>2. w.owed \cap SurelyShown(r, w) \subseteq Elements(w)
    BY <2>1, TableWalkTypes
  <2>3. Disturbed(r, w) = [w EXCEPT !.owed = w.owed \cap SurelyShown(r, w)]
    BY <1>2, <2>1 DEF Disturbed, TableKinds, ListKinds
  <2>4. [w EXCEPT !.owed = w.owed \cap SurelyShown(r, w)] \in TableWalks
    BY <2>1, <2>2, TableWalkTypes
  <2> QED BY <2>3, <2>4 DEF Walks3
<1>3. CASE w.of \in ListKinds
  <2>1. w \in ListWalks
    BY <1>3, WalkForms
  <2> DEFINE here == Range(Walked(r, w))
             b    == w.moved \/ (w.at # Start /\ w.at \notin here)
  <2>2. b \in BOOLEAN
    BY <2>1, ListWalkTypes
  <2>3. w.owed \cap here \subseteq Elements(w)
    BY <2>1, ListWalkTypes
  <2>4. Disturbed(r, w) = [w EXCEPT !.owed = w.owed \cap here, !.moved = b]
    BY <1>3, <2>1 DEF Disturbed, ListKinds
  <2> HIDE DEF here, b
  <2>5. [w EXCEPT !.owed = w.owed \cap here, !.moved = b] \in ListWalks
    BY <2>1, <2>2, <2>3, ListWalkTypes
  <2> QED BY <2>4, <2>5 DEF Walks3
<1> QED BY <1>1, <1>2, <1>3, WalkForms

LEMMA ReadingTypes ==
  ASSUME NEW r, Typed(r), NEW c \in Readings(r)
  PROVE  /\ DOMAIN c = DOMAIN r.node
         /\ \A n \in DOMAIN r.node : c[n] \subseteq DDs
         /\ \A e : EntityDDs(r, c, e) \subseteq DDs
<1>1. DOMAIN c = DOMAIN r.node /\ \A n \in DOMAIN r.node : c[n] \subseteq DDs
  BY DEF Readings
<1>2. ASSUME NEW e
      PROVE  EntityDDs(r, c, e) \subseteq DDs
  BY <1>1 DEF EntityDDs
<1> QED BY <1>1, <1>2

LEMMA KeysOf ==
  ASSUME NEW r, Typed(r), NEW w \in TableWalks
  PROVE  /\ Elements(w) \subseteq Places
         /\ Keys(r, w) \subseteq Elements(w)
         /\ IsFiniteSet(Keys(r, w))
         /\ SurelyShown(r, w) \subseteq Keys(r, w)
         /\ w.of = "nodes" => Keys(r, w) = DOMAIN r.node
         /\ w.of = "entities" => Keys(r, w) = DOMAIN r.entity
         /\ w.of = "domains" => Keys(r, w) = DOMAIN r.dd
<1>1. w.of \in {"nodes", "entities", "domains"}
  BY TableWalkTypes DEF TableWalks
<1>2. /\ w.of = "nodes" => Keys(r, w) = DOMAIN r.node /\ Elements(w) = Names
      /\ w.of = "entities" => Keys(r, w) = DOMAIN r.entity /\ Elements(w) = Entities
      /\ w.of = "domains" => Keys(r, w) = DOMAIN r.dd /\ Elements(w) = DDs
  BY DEF Keys, Elements
<1>3. /\ DOMAIN r.node \subseteq Names /\ DOMAIN r.entity \subseteq Entities
      /\ DOMAIN r.dd \subseteq DDs
  BY TypedObjects
<1>4. IsFiniteSet(Names) /\ IsFiniteSet(Entities) /\ IsFiniteSet(DDs)
  BY QueryAssumption, IdAssumption
<1>5. Keys(r, w) \subseteq Elements(w) /\ IsFiniteSet(Elements(w))
  BY <1>1, <1>2, <1>3, <1>4
<1>6. IsFiniteSet(Keys(r, w))
  BY <1>5, FS_Subset
<1>7. Elements(w) \subseteq Places
  BY DEF Elements, Places
<1> QED BY <1>2, <1>5, <1>6, <1>7 DEF SurelyShown

LEMMA AboveIs ==
  ASSUME NEW r, Typed(r), NEW w \in TableWalks
  PROVE  /\ Above(r, w) \subseteq Keys(r, w)
         /\ Above(r, w) \subseteq Places
         /\ IsFiniteSet(Above(r, w))
<1>1. Above(r, w) \subseteq Keys(r, w)
  BY DEF Above
<1> QED BY <1>1, KeysOf, FS_Subset

\* The next object shown is the lowest of them.
LEMMA NextShownIs ==
  ASSUME NEW r, Typed(r), NEW w \in TableWalks, NEW c
  PROVE  \/ NextShown(r, c, w) = {} /\ \A x \in Above(r, w) : ~Shown(r, c, w, x)
         \/ \E x \in Above(r, w) :
              /\ NextShown(r, c, w) = {x} /\ Lowest(NextShown(r, c, w)) = x
              /\ Shown(r, c, w, x)
              /\ \A y \in Above(r, w) : Shown(r, c, w, y) => Key(x) <= Key(y)
<1> DEFINE shown == {x \in Above(r, w) : Shown(r, c, w, x)}
<1>1. CASE shown = {}
  BY <1>1 DEF NextShown
<1>2. CASE shown # {}
  <2>1. shown \subseteq Places /\ IsFiniteSet(shown)
    BY AboveIs, FS_Subset
  <2>2. /\ Lowest(shown) \in shown
        /\ \A y \in shown : Key(Lowest(shown)) <= Key(y)
    BY <1>2, <2>1, LowestOf
  <2>3. NextShown(r, c, w) = {Lowest(shown)}
    BY <1>2 DEF NextShown
  <2>4. Lowest({Lowest(shown)}) \in {Lowest(shown)}
    BY <2>1, <2>2, LowestOf, FS_Singleton
  <2> QED BY <2>2, <2>3, <2>4
<1> QED BY <1>1, <1>2

\* The last object that the search looks at.
LEMMA SearchedType ==
  ASSUME NEW r, Typed(r), NEW w \in TableWalks, NEW c \in Readings(r),
         dlist_node \subseteq DDs
  PROVE  Searched(r, c, w) \subseteq DDs
<1> DEFINE next   == NextShown(r, c, w)
           looked == {x \in Above(r, w) : \A y \in next : Key(x) <= Key(y)}
           last   == CHOOSE x \in looked : \A y \in looked : Key(y) <= Key(x)
<1>1. CASE w.of = "domains" \/ looked = {}
  BY <1>1 DEF Searched
<1>2. CASE w.of # "domains" /\ looked # {}
  <2>1. looked \subseteq Places /\ IsFiniteSet(looked)
    BY AboveIs, FS_Subset
  <2>2. \E x \in looked : \A y \in looked : Key(y) <= Key(x)
    BY <1>2, <2>1, HighestOf
  <2>3. last \in looked
    BY <2>2
  <2>4. last \in Keys(r, w)
    BY <2>3, AboveIs
  <2>5. Searched(r, c, w) = Leaves(r, w.src, DDsOf(r, c, w, last))
    BY <1>2 DEF Searched
  <2> HIDE DEF last, looked, next
  <2>6. DDsOf(r, c, w, last) \subseteq DDs
    <3>1. CASE w.of = "nodes"
      BY <2>4, <3>1, ReadingTypes, KeysOf DEF DDsOf
    <3>2. CASE w.of # "nodes"
      BY <3>2, ReadingTypes DEF DDsOf
    <3> QED BY <3>1, <3>2
  <2> QED BY <2>5, <2>6 DEF Leaves
<1> QED BY <1>1, <1>2

\* The list that a walk goes over.
LEMMA WalkedIs ==
  ASSUME NEW r, Typed(r), NEW w \in ListWalks
  PROVE  Walked(r, w) \in Seq(Elements(w))
<1>1. CASE w.of = "members"
  <2>1. CASE w.key \in DOMAIN r.dd
    <3>1. /\ r.dd[w.key].members \in Seq(Members)
          /\ DOMAIN r.dd[w.key].members = 1 .. Len(r.dd[w.key].members)
          /\ Len(r.dd[w.key].members) \in Nat
      BY <2>1, MembersOf
    <3>2. \A i \in 1 .. Len(r.dd[w.key].members) :
            r.dd[w.key].members[i].name \in Names
      <4> DEFINE l == r.dd[w.key].members
      <4>1. l \in Seq(Members)
        BY <3>1
      <4> HIDE DEF l
      <4>2. \A i \in 1 .. Len(l) : l[i] \in Members
        BY <4>1, ElementOfSeq
      <4>3. \A i \in 1 .. Len(l) : l[i].name \in Names
        BY <4>2 DEF Members
      <4> QED BY <4>3 DEF l
    <3>3. Walked(r, w) = [i \in 1 .. Len(r.dd[w.key].members) |->
                            r.dd[w.key].members[i].name]
      BY <1>1, <2>1, <3>1 DEF Walked
    <3> QED BY <1>1, <3>1, <3>2, <3>3, SeqDef DEF Elements
  <2>2. CASE w.key \notin DOMAIN r.dd
    BY <1>1, <2>2 DEF Walked
  <2> QED BY <2>1, <2>2
<1>2. CASE w.of = "sets"
  <2>1. Walked(r, w) = IF w.key \notin DOMAIN r.dds THEN <<>> ELSE r.dds[w.key].dds
    BY <1>2 DEF Walked
  <2>2. w.key \in DOMAIN r.dds => r.dds[w.key].dds \in Seq(DDs)
    BY LinkLists
  <2> QED BY <1>2, <2>1, <2>2 DEF Elements
<1> QED BY <1>1, <1>2, ListWalkTypes DEF ListWalks

LEMMA WalkedRange ==
  ASSUME NEW r, Typed(r), NEW w \in ListWalks
  PROVE  /\ Range(Walked(r, w)) \subseteq Elements(w)
         /\ DOMAIN Walked(r, w) = 1 .. Len(Walked(r, w))
         /\ Len(Walked(r, w)) \in Nat
         /\ \A i \in DOMAIN Walked(r, w) : Walked(r, w)[i] \in Elements(w)
<1>1. Walked(r, w) \in Seq(Elements(w))
  BY WalkedIs
<1>2. \A i \in 1 .. Len(Walked(r, w)) : Walked(r, w)[i] \in Elements(w)
  BY <1>1, ElementOfSeq
<1>3. /\ DOMAIN Walked(r, w) = 1 .. Len(Walked(r, w))
      /\ Len(Walked(r, w)) \in Nat
  BY <1>1, LenProperties
<1> QED BY <1>2, <1>3 DEF Range

(***************************************************************************)
(* Queries do not change the tables: the server with queries behaves as    *)
(* the registry does.                                                      *)
(***************************************************************************)

\* A step of the server with queries: a request, or a query.
LEMMA QuerySteps ==
  QueryNext =>
    \/ /\ Request
       /\ walk' = Disturbed(db', walk)
       /\ \/ UNCHANGED dlist_node
          \/ dlist_node' = Flipped
          \/ dlist_node' \in SUBSET Flipped
    \/ Query /\ UNCHANGED db /\ up /\ up' = TRUE
<1>1. Change => /\ Request
                /\ walk' = Disturbed(db', walk)
                /\ UNCHANGED dlist_node
  BY DEF Change, Request
<1>2. ChangeSet => /\ Request
                   /\ walk' = Disturbed(db', walk)
                   /\ \/ UNCHANGED dlist_node
                      \/ dlist_node' = Flipped
                      \/ dlist_node' \in SUBSET Flipped
  BY DEF ChangeSet, Request
<1>3. Query => UNCHANGED db /\ up /\ up' = TRUE
  <2>1. Query => Serving
    <3>1. QueryNode \/ QueryEntity \/ QueryPortal => Serving
      BY DEF QueryNode, QueryEntity, QueryPortal
    <3>2. StartTableWalk \/ StartListWalk => Serving
      BY DEF StartTableWalk, StartListWalk
    <3>3. NextObject \/ NextElement => Serving
      BY DEF NextObject, NextElement
    <3> QED BY <3>1, <3>2, <3>3 DEF Query
  <2>2. Query => UNCHANGED db
    <3>1. QueryNode \/ QueryEntity \/ QueryPortal => UNCHANGED db
      BY DEF QueryNode, QueryEntity, QueryPortal
    <3>2. StartTableWalk \/ StartListWalk => UNCHANGED db
      BY DEF StartTableWalk, StartListWalk
    <3>3. NextObject \/ NextElement => UNCHANGED db
      BY DEF NextObject, NextElement
    <3> QED BY <3>1, <3>2, <3>3 DEF Query
  <2> QED BY <2>1, <2>2 DEF Serving
<1> QED BY <1>1, <1>2, <1>3 DEF QueryNext

LEMMA QueryStepNext ==
  ASSUME TypeOK, [QueryNext]_queryVars
  PROVE  [Next]_vars
<1>1. CASE Request
  BY <1>1 DEF Next
<1>2. CASE UNCHANGED db /\ up /\ up' = TRUE
  <2>1. up \in BOOLEAN
    BY DEF TypeOK
  <2> QED BY <1>2, <2>1 DEF vars
<1>3. CASE UNCHANGED queryVars
  BY <1>3 DEF queryVars
<1> QED BY <1>1, <1>2, <1>3, QuerySteps

LEMMA QueryStepTyped ==
  ASSUME TypeOK, [QueryNext]_queryVars
  PROVE  TypeOK'
<1>1. CASE Next
  <2>1. Typed(db')
    BY <1>1, RequestTyped DEF Next, TypeOK
  <2>2. up' \in BOOLEAN
    BY <1>1 DEF Next, Request, CrashInRegDDS, Serving, RegEntity, DeregEntity,
                RegNode, DeregNode, RegDD, DeregDDMember, DeregDD, RegDDS,
                DeregDDSMember, DeregDDS
  <2> QED BY <2>1, <2>2 DEF TypeOK
<1>2. CASE UNCHANGED vars
  BY <1>2 DEF vars, TypeOK
<1> QED BY <1>1, <1>2, QueryStepNext

\* The actions of the server with queries are those of the registry and queries
\* that leave its variables alone; so the invariants of the registry can be
\* used for the server with queries.
LEMMA QueriesChangeNothing == QuerySpec => Spec
<1>1. QueryInit => Init /\ TypeOK
  BY InitTyped DEF QueryInit
<1>2. TypeOK /\ [QueryNext]_queryVars => TypeOK'
  BY QueryStepTyped
<1>3. TypeOK /\ [QueryNext]_queryVars => [Next]_vars
  BY QueryStepNext
<1> QED BY <1>1, <1>2, <1>3, PTL DEF QuerySpec, Spec

(***************************************************************************)
(* The walk and the list are well typed.                                   *)
(***************************************************************************)
QueryTypes == Typed(db) /\ dlist_node \subseteq DDs /\ Walks3(walk)

LEMMA QueryListTyped ==
  ASSUME QueryTypes, QueryNode \/ QueryEntity \/ QueryPortal
  PROVE  dlist_node' \subseteq DDs
<1>1. Typed(db) /\ dlist_node \subseteq DDs
  BY DEF QueryTypes
<1>2. \A s : \A D : D \subseteq DDs => Leaves(db, s, D) \subseteq DDs
  BY <1>1 DEF Leaves
<1>3. CASE QueryNode
  <2>1. PICK s \in Sources, c \in Readings(db), n \in DOMAIN db.node :
          dlist_node' = Leaves(db, s, c[n])
    BY <1>3 DEF QueryNode
  <2> QED BY <1>1, <1>2, <2>1, ReadingTypes
<1>4. CASE QueryEntity
  <2>1. PICK s \in Sources, c \in Readings(db), e \in DOMAIN db.entity :
          dlist_node' = Leaves(db, s, EntityDDs(db, c, e))
    BY <1>4 DEF QueryEntity
  <2>2. EntityDDs(db, c, e) \subseteq DDs
    BY <1>1, ReadingTypes
  <2> QED BY <1>2, <2>1, <2>2
<1>5. CASE QueryPortal
  <2>1. PICK s \in Sources, c \in Readings(db), e \in DOMAIN db.entity :
          dlist_node' = Leaves(db, s, dlist_node \cup EntityDDs(db, c, e))
    BY <1>5 DEF QueryPortal
  <2>2. EntityDDs(db, c, e) \subseteq DDs
    BY <1>1, ReadingTypes
  <2> QED BY <1>1, <1>2, <2>1, <2>2
<1> QED BY <1>3, <1>4, <1>5

LEMMA SurelyShownSame ==
  ASSUME NEW r, NEW v, NEW w, v.of = w.of, v.src = w.src
  PROVE  SurelyShown(r, v) = SurelyShown(r, w)
<1>1. Keys(r, v) = Keys(r, w)
  BY DEF Keys
<1>2. \A c, x : DDsOf(r, c, v, x) = DDsOf(r, c, w, x)
  BY DEF DDsOf
<1>3. \A c, x : Shown(r, c, v, x) <=> Shown(r, c, w, x)
  BY <1>2 DEF Shown
<1> QED BY <1>1, <1>3 DEF SurelyShown

LEMMA StartTableTyped ==
  ASSUME QueryTypes, StartTableWalk
  PROVE  /\ walk' \in TableWalks
         /\ walk'.at = Start
         /\ walk'.owed \subseteq SurelyShown(db, walk')
<1>1. PICK w \in [of : {"nodes", "entities"}, src : Walkers]
                 \cup [of : {"domains"}, src : {NoSource}] :
        walk' = [of |-> w.of, src |-> w.src, at |-> Start,
                 owed |-> SurelyShown(db, w)]
  BY DEF StartTableWalk
<1>2. SurelyShown(db, w) = SurelyShown(db, walk')
  BY <1>1, SurelyShownSame
<1>3. SurelyShown(db, w) \subseteq Keys(db, w)
  BY DEF SurelyShown
<1>4. /\ DOMAIN db.node \subseteq Names /\ DOMAIN db.entity \subseteq Entities
      /\ DOMAIN db.dd \subseteq DDs
  BY TypedObjects DEF QueryTypes
<1>5. /\ w.of = "nodes" => Keys(db, w) \subseteq Names
      /\ w.of = "entities" => Keys(db, w) \subseteq Entities
      /\ w.of = "domains" => Keys(db, w) \subseteq DDs
  BY <1>4 DEF Keys
<1> DEFINE S == SurelyShown(db, w)
<1>6. /\ w.of = "nodes" => S \subseteq Names
      /\ w.of = "entities" => S \subseteq Entities
      /\ w.of = "domains" => S \subseteq DDs
  BY <1>3, <1>5
<1>7. walk' = [of |-> w.of, src |-> w.src, at |-> Start, owed |-> S]
  BY <1>1
<1>8. walk'.owed = S
  BY <1>7
<1> HIDE DEF S
<1>9. walk' \in TableWalks /\ walk'.at = Start
  <2>1. CASE w.of = "nodes" /\ w.src \in Walkers
    BY <1>6, <1>7, <2>1 DEF TableWalks
  <2>2. CASE w.of = "entities" /\ w.src \in Walkers
    BY <1>6, <1>7, <2>2 DEF TableWalks
  <2>3. CASE w.of = "domains" /\ w.src = NoSource
    BY <1>6, <1>7, <2>3 DEF TableWalks
  <2> QED BY <2>1, <2>2, <2>3
<1> QED BY <1>2, <1>8, <1>9 DEF S

LEMMA StartListTyped ==
  ASSUME QueryTypes, StartListWalk
  PROVE  /\ walk' \in ListWalks
         /\ walk'.at = Start
         /\ walk'.owed = Range(Walked(db, walk'))
<1>1. PICK w \in [of : {"members"}, key : DOMAIN db.dd]
                 \cup [of : {"sets"}, key : DOMAIN db.dds] :
        walk' = [of |-> w.of, key |-> w.key, at |-> Start, moved |-> FALSE,
                 owed |-> Range(Walked(db, w))]
  BY DEF StartListWalk
<1> DEFINE S == Range(Walked(db, w))
<1>2. walk' = [of |-> w.of, key |-> w.key, at |-> Start, moved |-> FALSE,
               owed |-> S]
  BY <1>1
<1>3. Walked(db, walk') = Walked(db, w)
  BY <1>1 DEF Walked
<1>4. Typed(db)
  BY DEF QueryTypes
<1>5. DOMAIN db.dd \subseteq DDs /\ DOMAIN db.dds \subseteq DDSs
  BY <1>4, TypedObjects
<1>6. w.of = "members" => S \subseteq Names
  <2> DEFINE x == [of |-> "members", key |-> w.key, at |-> Start,
                   moved |-> FALSE, owed |-> {}]
  <2>1. SUFFICES ASSUME w.of = "members"
                 PROVE  S \subseteq Names
    OBVIOUS
  <2>2. x \in ListWalks
    BY <1>1, <1>5, <2>1 DEF ListWalks
  <2>3. Walked(db, x) = Walked(db, w)
    BY <2>1 DEF Walked
  <2>4. Elements(x) = Names
    BY DEF Elements
  <2> HIDE DEF x
  <2> QED BY <1>4, <2>2, <2>3, <2>4, WalkedRange
<1>7. w.of = "sets" => S \subseteq DDs
  <2> DEFINE x == [of |-> "sets", key |-> w.key, at |-> Start,
                   moved |-> FALSE, owed |-> {}]
  <2>1. SUFFICES ASSUME w.of = "sets"
                 PROVE  S \subseteq DDs
    OBVIOUS
  <2>2. x \in ListWalks
    BY <1>1, <1>5, <2>1 DEF ListWalks
  <2>3. Walked(db, x) = Walked(db, w)
    BY <2>1 DEF Walked
  <2>4. Elements(x) = DDs
    BY DEF Elements
  <2> HIDE DEF x
  <2> QED BY <1>4, <2>2, <2>3, <2>4, WalkedRange
<1>8. walk'.owed = S /\ walk'.at = Start
  BY <1>2
<1> HIDE DEF S
<1>9. walk' \in ListWalks
  <2>1. CASE w.of = "members" /\ w.key \in DOMAIN db.dd
    BY <1>2, <1>5, <1>6, <2>1 DEF ListWalks
  <2>2. CASE w.of = "sets" /\ w.key \in DOMAIN db.dds
    BY <1>2, <1>5, <1>7, <2>2 DEF ListWalks
  <2> QED BY <2>1, <2>2
<1> QED BY <1>3, <1>8, <1>9 DEF S

\* A step of a walk over a table.
LEMMA NextObjectSteps ==
  ASSUME QueryTypes, NextObject
  PROVE  /\ walk \in TableWalks
         /\ dlist_node' \subseteq DDs
         /\ \E c \in Readings(db) :
              \/ /\ walk' = Idle
                 /\ \A x \in Above(db, walk) : ~Shown(db, c, walk, x)
              \/ \E x \in Above(db, walk) :
                   /\ walk' = [walk EXCEPT !.at = x, !.owed = @ \ {x}]
                   /\ walk' \in TableWalks
                   /\ \A y \in Above(db, walk) :
                        Shown(db, c, walk, y) => Key(x) <= Key(y)
<1>1. Typed(db) /\ dlist_node \subseteq DDs /\ walk \in TableWalks
  BY WalkForms DEF QueryTypes, NextObject
<1>2. PICK c \in Readings(db) :
        /\ walk' = IF NextShown(db, c, walk) = {} THEN Idle
                   ELSE [walk EXCEPT !.at = Lowest(NextShown(db, c, walk)),
                                     !.owed = @ \ NextShown(db, c, walk)]
        /\ dlist_node' = Searched(db, c, walk)
  BY DEF NextObject
<1>3. dlist_node' \subseteq DDs
  BY <1>1, <1>2, SearchedType
<1>4. CASE NextShown(db, c, walk) = {} /\ \A x \in Above(db, walk) : ~Shown(db, c, walk, x)
  BY <1>1, <1>2, <1>3, <1>4
<1>5. ASSUME NEW x \in Above(db, walk),
             NextShown(db, c, walk) = {x}, Lowest(NextShown(db, c, walk)) = x,
             \A y \in Above(db, walk) : Shown(db, c, walk, y) => Key(x) <= Key(y)
      PROVE  walk' \in TableWalks /\ walk' = [walk EXCEPT !.at = x, !.owed = @ \ {x}]
  <2>1. x \in Elements(walk)
    BY <1>1, AboveIs, KeysOf
  <2>2. walk.owed \ {x} \subseteq Elements(walk)
    BY <1>1, TableWalkTypes
  <2>3. walk' = [walk EXCEPT !.at = x, !.owed = walk.owed \ {x}]
    BY <1>2, <1>5
  <2>4. [walk EXCEPT !.at = x, !.owed = walk.owed \ {x}] \in TableWalks
    BY <1>1, <2>1, <2>2, TableWalkTypes
  <2> QED BY <2>3, <2>4
<1> QED BY <1>1, <1>2, <1>3, <1>4, <1>5, NextShownIs

\* A step of a walk over a list.
LEMMA NextElementSteps ==
  ASSUME QueryTypes, NextElement
  PROVE  /\ walk \in ListWalks
         /\ \/ \E i \in NextAfter(Walked(db, walk), walk.at) :
                 /\ walk' = [walk EXCEPT !.at = Walked(db, walk)[i],
                                         !.owed = @ \ {Walked(db, walk)[i]}]
                 /\ walk' \in ListWalks
            \/ /\ walk' = Idle
               /\ \/ NextAfter(Walked(db, walk), walk.at) = {}
                  \/ walk.moved
<1>1. Typed(db) /\ walk \in ListWalks
  BY WalkForms DEF QueryTypes, NextElement
<1> DEFINE s == Walked(db, walk)
<1>2. \/ \E i \in NextAfter(s, walk.at) :
           walk' = [walk EXCEPT !.at = s[i], !.owed = @ \ {s[i]}]
      \/ /\ NextAfter(s, walk.at) = {} \/ (walk.of = "members" /\ walk.moved)
         /\ walk' = Idle
  BY DEF NextElement
<1>3. ASSUME NEW i \in NextAfter(s, walk.at),
             walk' = [walk EXCEPT !.at = s[i], !.owed = @ \ {s[i]}]
      PROVE  walk' \in ListWalks
  <2>1. s[i] \in Elements(walk)
    BY <1>1, WalkedRange DEF NextAfter
  <2>2. walk.owed \ {s[i]} \subseteq Elements(walk)
    BY <1>1, ListWalkTypes
  <2>3. walk' = [walk EXCEPT !.at = s[i], !.owed = walk.owed \ {s[i]}]
    BY <1>3
  <2> HIDE DEF s
  <2>4. [walk EXCEPT !.at = s[i], !.owed = walk.owed \ {s[i]}] \in ListWalks
    BY <1>1, <2>1, <2>2, ListWalkTypes
  <2> QED BY <2>3, <2>4
<1> QED BY <1>1, <1>2, <1>3

LEMMA QueryStepTypes ==
  ASSUME QueryTypes, TypeOK, [QueryNext]_queryVars
  PROVE  QueryTypes'
<1>1. Typed(db')
  BY QueryStepTyped DEF TypeOK
<1>2. CASE UNCHANGED queryVars
  BY <1>2 DEF queryVars, vars, QueryTypes
<1>3. CASE /\ Request
           /\ walk' = Disturbed(db', walk)
           /\ UNCHANGED dlist_node \/ dlist_node' = Flipped
              \/ dlist_node' \in SUBSET Flipped
  <2>1. Walks3(walk')
    BY <1>3, DisturbedTyped DEF QueryTypes
  <2>2. Flipped \subseteq DDs
    BY TypedObjects DEF QueryTypes, Flipped
  <2>3. dlist_node' \subseteq DDs
    BY <1>3, <2>2 DEF QueryTypes
  <2> QED BY <1>1, <2>1, <2>3 DEF QueryTypes
<1>4. CASE QueryNode \/ QueryEntity \/ QueryPortal
  <2>1. walk' = walk
    BY <1>4 DEF QueryNode, QueryEntity, QueryPortal
  <2> QED BY <1>1, <1>4, <2>1, QueryListTyped DEF QueryTypes
<1>5. CASE StartTableWalk
  <2>1. UNCHANGED dlist_node
    BY <1>5 DEF StartTableWalk
  <2> QED BY <1>1, <1>5, <2>1, StartTableTyped DEF QueryTypes, Walks3
<1>6. CASE StartListWalk
  <2>1. UNCHANGED dlist_node
    BY <1>6 DEF StartListWalk
  <2> QED BY <1>1, <1>6, <2>1, StartListTyped DEF QueryTypes, Walks3
<1>7. CASE NextObject
  <2>1. walk' = Idle \/ walk' \in TableWalks
    BY <1>7, NextObjectSteps
  <2>2. dlist_node' \subseteq DDs
    BY <1>7, NextObjectSteps
  <2> QED BY <1>1, <2>1, <2>2 DEF QueryTypes, Walks3
<1>8. CASE NextElement
  <2>1. UNCHANGED dlist_node
    BY <1>8 DEF NextElement
  <2>2. walk' = Idle \/ walk' \in ListWalks
    BY <1>8, NextElementSteps
  <2> QED BY <1>1, <2>1, <2>2 DEF QueryTypes, Walks3
<1> QED BY <1>2, <1>3, <1>4, <1>5, <1>6, <1>7, <1>8, QuerySteps DEF Query

LEMMA InitQueryTypes == QueryInit => QueryTypes /\ TypeOK
<1>1. QueryInit => TypeOK
  BY InitTyped DEF QueryInit
<1> QED BY <1>1 DEF QueryInit, QueryTypes, Walks3, TypeOK

\* The global list of DDs and the walk are well typed: the search behind
\* ISNSGetNextAttr always ends at an object of its table.
LEMMA QueryTypeCorrect == QuerySpec => []QueryTypeOK
<1>1. QueryInit => QueryTypes /\ TypeOK
  BY InitQueryTypes
<1>2. QueryTypes /\ TypeOK /\ [QueryNext]_queryVars => QueryTypes' /\ TypeOK'
  BY QueryStepTypes, QueryStepTyped
<1>3. QueryTypes /\ TypeOK => QueryTypeOK
  BY DEF QueryTypes, QueryTypeOK, Walks3
<1> QED BY <1>1, <1>2, <1>3, PTL DEF QuerySpec

(***************************************************************************)
(* Who is shown what.                                                      *)
(***************************************************************************)
LEMMA KnownFellowsShown ==
  Typed(db) /\ NodesKnowDDs(db) => FellowsShown
<1>1. SUFFICES ASSUME Typed(db), NodesKnowDDs(db),
                      NEW n \in DOMAIN db.node, NEW m \in DOMAIN db.node,
                      NEW d \in DDsListing(db, n) \cap DDsListing(db, m),
                      db.dd[d].active,
                      db.node[n].dds \cup db.node[m].dds \subseteq DOMAIN db.dd
               PROVE  /\ \A c \in Readings(db) : NodeShown(db, c, n, m)
                      /\ d \in DDsShown(db, ControlNode, n)
  BY DEF FellowsShown
<1>2. d \in db.node[n].dds /\ d \in db.node[m].dds
  BY <1>1 DEF NodesKnowDDs
<1>3. d \in DOMAIN db.dd
  BY <1>1 DEF DDsListing
<1>4. ASSUME NEW c \in Readings(db), NEW x \in {n, m}
      PROVE  d \in c[x]
  <2>1. c[x] \in ActiveDDs(db, x)
    BY <1>1, <1>4 DEF Readings
  <2>2. db.node[x].dds = db.node[x].dds \cap DOMAIN db.dd /\ d \in db.node[x].dds
    BY <1>1, <1>2, <1>4
  <2>3. c[x] = {y \in db.node[x].dds \cap DOMAIN db.dd : db.dd[y].active}
    BY <2>1, <2>2 DEF ActiveDDs
  <2> QED BY <1>1, <1>3, <2>2, <2>3
<1>5. \A c \in Readings(db) : NodeShown(db, c, n, m)
  BY <1>4 DEF NodeShown, Permits
<1>6. d \in DDsShown(db, ControlNode, n)
  BY <1>1, <1>2 DEF DDsShown, Authorized
<1> QED BY <1>5, <1>6

\* Two registered members of an active DD are shown to one another
\* (ISNSdbGetAttrISCSI), and the DD to the control node that asks for the DDs of
\* one of them (SNSdbGetAttrDD), whatever the order of the registrations was:
\* each of them knows the DDs that list it.
THEOREM FellowsShownAlways == QuerySpec => []FellowsShown
<1>1. TypeOK /\ NodesKnowDDs(db) => FellowsShown
  BY KnownFellowsShown DEF TypeOK
<1> QED BY <1>1, QueriesChangeNothing, TypeCorrect, KnownAlways, PTL

(***************************************************************************)
(* Every node is at home: its entity is stored, is an iSCSI entity and     *)
(* lists it.  An entity that becomes an iFCP entity would keep its nodes   *)
(* without listing them to anybody, so the requests do not make one.       *)
(***************************************************************************)
NodesHomed(r) ==
  \A n \in DOMAIN r.node :
    /\ r.node[n].entity \in DOMAIN r.entity
    /\ r.entity[r.node[n].entity].type = "iscsi"
    /\ n \in r.entity[r.node[n].entity].nodes

LEMMA SameOwnersHomed ==
  ASSUME NEW r, NEW s, NodesHomed(r), SameOwners(r, s)
  PROVE  NodesHomed(s)
BY DEF NodesHomed, SameOwners

LEMMA RemoveNodeHomed ==
  ASSUME NEW r, Typed(r), NodesHomed(r), NEW n
  PROVE  /\ NodesHomed(RemoveNode(r, n))
         /\ n \notin DOMAIN RemoveNode(r, n).node
         /\ DOMAIN RemoveNode(r, n).entity = DOMAIN r.entity
         /\ \A e \in DOMAIN r.entity :
              RemoveNode(r, n).entity[e].type = r.entity[e].type
<1> DEFINE s == RemoveNode(r, n)
           e == r.node[n].entity
<1>1. CASE n \notin DOMAIN r.node
  BY <1>1 DEF RemoveNode
<1>2. CASE n \in DOMAIN r.node
  <2>1. e \in DOMAIN r.entity
    BY <1>2 DEF NodesHomed
  <2>2. r.entity[e] \in EntityObjects
    BY <2>1, TypedObjects
  <2>3. /\ s.entity = [r.entity EXCEPT ![e].nodes = @ \ {n}]
        /\ s.node = Drop(r.node, n)
    BY <1>2, <2>1 DEF RemoveNode, Typed
  <2>5. /\ DOMAIN s.node = DOMAIN r.node \ {n}
        /\ \A x \in DOMAIN s.node : s.node[x] = r.node[x]
    BY <2>3 DEF Drop
  <2> HIDE DEF s, e
  <2>4. /\ DOMAIN s.entity = DOMAIN r.entity
        /\ \A x \in DOMAIN r.entity :
             /\ s.entity[x].type = r.entity[x].type
             /\ r.entity[x].nodes \ {n} \subseteq s.entity[x].nodes
    <3>1. /\ DOMAIN s.entity = DOMAIN r.entity
          /\ \A x \in DOMAIN r.entity \ {e} : s.entity[x] = r.entity[x]
          /\ s.entity[e] = [r.entity[e] EXCEPT !.nodes = @ \ {n}]
      BY <2>1, <2>3
    <3>2. /\ s.entity[e].type = r.entity[e].type
          /\ s.entity[e].nodes = r.entity[e].nodes \ {n}
      BY <2>2, <3>1 DEF EntityObjects
    <3> QED BY <3>1, <3>2
  <2>6. NodesHomed(s)
    BY <2>4, <2>5 DEF NodesHomed
  <2> QED BY <2>4, <2>5, <2>6 DEF s
<1> QED BY <1>1, <1>2

LEMMA RemoveEntityHomed ==
  ASSUME NEW r, Typed(r), NodesHomed(r), NEW e
  PROVE  NodesHomed(RemoveEntity(r, e))
<1> DEFINE s     == RemoveEntity(r, e)
           nodes == IF r.entity[e].type = "iscsi" THEN r.entity[e].nodes ELSE {}
<1>1. CASE e \notin DOMAIN r.entity
  BY <1>1 DEF RemoveEntity
<1>2. CASE e \in DOMAIN r.entity
  <2>1. /\ s.entity = Drop(r.entity, e)
        /\ s.node = [n \in DOMAIN r.node \ nodes |-> r.node[n]]
    BY <1>2 DEF RemoveEntity, Typed
  <2>2. /\ DOMAIN s.entity = DOMAIN r.entity \ {e}
        /\ \A x \in DOMAIN s.entity : s.entity[x] = r.entity[x]
    BY <2>1 DEF Drop
  <2>3. /\ DOMAIN s.node = DOMAIN r.node \ nodes
        /\ \A n \in DOMAIN s.node : s.node[n] = r.node[n]
    BY <2>1
  <2>4. \A n \in DOMAIN r.node \ nodes : r.node[n].entity # e
    BY DEF NodesHomed
  <2> HIDE DEF s, nodes
  <2>5. NodesHomed(s)
    BY <2>2, <2>3, <2>4 DEF NodesHomed
  <2> QED BY <2>5 DEF s
<1> QED BY <1>1, <1>2

LEMMA RegisterEntityHomed ==
  ASSUME NEW r, Typed(r), NodesHomed(r), NEW m \in EntityRequests,
         m.type # "ifcp"
  PROVE  NodesHomed(RegisterEntity(r, m))
<1> DEFINE e      == m.entity
           before == IF m.replace /\ m.same THEN RemoveEntity(r, e) ELSE r
           old    == IF e \in DOMAIN before.entity THEN before.entity[e]
                     ELSE [type |-> "none", nodes |-> {}]
           type   == IF m.type = "none" THEN old.type ELSE m.type
           s      == [before EXCEPT !.entity = Put(@, e, [old EXCEPT !.type = type])]
<1>1. Typed(before) /\ NodesHomed(before)
  BY RemoveEntityHomed, RemoveEntityTyped
<1>2. e \in Entities /\ m.type \in {"none", "iscsi"}
  BY DEF EntityRequests, EntityTypes
<1>3. old \in EntityObjects
  BY <1>1, TypedObjects DEF EntityObjects, EntityTypes
<1>4. RegisterEntity(r, m) = IF m.bad THEN before ELSE s
  BY DEF RegisterEntity
<1>5. e \in DOMAIN before.entity => old = before.entity[e]
  OBVIOUS
<1>6. type = IF m.type = "none" THEN old.type ELSE m.type
  OBVIOUS
<1> HIDE DEF before, old, type
<1>7. /\ s.entity = Put(before.entity, e, [old EXCEPT !.type = type])
      /\ s.node = before.node
  BY <1>1 DEF Typed
<1> HIDE DEF s
<1>8. /\ DOMAIN s.entity = DOMAIN before.entity \cup {e}
      /\ s.entity[e] = [old EXCEPT !.type = type]
      /\ \A x \in DOMAIN before.entity \ {e} : s.entity[x] = before.entity[x]
  BY <1>7 DEF Put
<1>9. s.entity[e].nodes = old.nodes /\ s.entity[e].type = type
  BY <1>3, <1>8 DEF EntityObjects
<1>10. old.type = "iscsi" => type = "iscsi"
  BY <1>2, <1>6
<1> HIDE DEF e
<1>11. NodesHomed(s)
  BY <1>1, <1>5, <1>7, <1>8, <1>9, <1>10 DEF NodesHomed
<1> QED BY <1>1, <1>4, <1>11

LEMMA ActivateMembershipOwners ==
  ASSUME NEW r, Typed(r), NEW n \in DOMAIN r.node
  PROVE  SameOwners(r, ActivateMembership(r, n))
<1> DEFINE listing == DDsListing(r, n)
           default == {d \in DOMAIN r.dd : r.dd[d].sym = DefaultSym}
           d       == CHOOSE x \in default : TRUE
<1>1. \A x \in DOMAIN r.node : r.node[x] \in Nodes
  BY TypedObjects
<1>2. CASE listing # {}
  <2>1. ActivateMembership(r, n) =
          [r EXCEPT !.node[n].dds = @ \cup listing,
                    !.node[n].active = @ \/ \E x \in listing : r.dd[x].active]
    BY <1>2 DEF ActivateMembership
  <2> HIDE DEF listing
  <2> QED BY <1>1, <2>1 DEF SameOwners, Typed, Nodes
<1>3. CASE listing = {} /\ default = {}
  <2>1. ActivateMembership(r, n) = [r EXCEPT !.node[n].active = TRUE]
    BY <1>3 DEF ActivateMembership
  <2> QED BY <1>1, <2>1 DEF SameOwners, Typed, Nodes
<1>4. CASE listing = {} /\ default # {}
  <2> DEFINE s == AddDDMember(r, d, n, TRUE)
  <2>1. d \in DOMAIN r.dd
    BY <1>4
  <2>2. n \in Names
    BY TypedObjects
  <2> HIDE DEF d
  <2>3. \A b \in BOOLEAN : Typed(AddDDMember(r, d, n, b))
    BY <2>1, <2>2, AddDDMemberTyped
  <2>4. Typed(s) /\ s.entity = r.entity /\ s.node = r.node
    <3>1. Typed(s)
      BY <2>3
    <3>2. \A b \in BOOLEAN : /\ AddDDMember(r, d, n, b).entity = r.entity
                            /\ AddDDMember(r, d, n, b).node = r.node
      BY AddDDMemberOwners
    <3> QED BY <3>1, <3>2
  <2>5. ActivateMembership(r, n) =
          [s EXCEPT !.node[n].dds = @ \cup {d}, !.node[n].active = TRUE]
    BY <1>4 DEF ActivateMembership, d
  <2> HIDE DEF s
  <2> QED BY <1>1, <2>4, <2>5 DEF SameOwners, Typed, Nodes
<1> QED BY <1>2, <1>3, <1>4

LEMMA RegisterNodeHomed ==
  ASSUME NEW r, Typed(r), NodesHomed(r), NEW n \in Names, NEW e \in Entities,
         NEW replace \in BOOLEAN
  PROVE  NodesHomed(RegisterNode(r, n, e, replace))
<1> DEFINE before  == IF replace THEN RemoveNode(r, n) ELSE r
           indexed == IF n \in DOMAIN before.idx THEN before
                      ELSE [before EXCEPT !.idx = Put(@, n, 0)]
           fresh   == [entity |-> e, active |-> FALSE, dds |-> {}]
           s       == [indexed EXCEPT !.entity[e].nodes = @ \cup {n},
                                      !.node = Put(@, n, fresh)]
<1>1. CASE n \in DOMAIN r.node /\ ~replace
  BY <1>1, ActivateMembershipOwners, SameOwnersHomed DEF RegisterNode
<1>2. CASE ~(n \in DOMAIN r.node /\ ~replace)
  <2>1. /\ Typed(before) /\ NodesHomed(before) /\ n \notin DOMAIN before.node
        /\ DOMAIN before.entity = DOMAIN r.entity
        /\ \A x \in DOMAIN r.entity : before.entity[x].type = r.entity[x].type
    BY <1>2, RemoveNodeHomed, RemoveNodeTyped
  <2>2. RegisterNode(r, n, e, replace) =
          IF e \notin DOMAIN r.entity \/ r.entity[e].type # "iscsi" THEN indexed
          ELSE ActivateMembership(s, n)
    BY <1>2 DEF RegisterNode
  <2> HIDE DEF before
  <2>3. IsTable(Put(before.idx, n, 0), Names, Nat)
    <3>1. IsTable(before.idx, Names, Nat) /\ 0 \in Nat
      BY <2>1, TypedTables
    <3> QED BY <3>1, PutTable
  <2>4. Typed([before EXCEPT !.idx = Put(before.idx, n, 0)])
    BY <2>1, <2>3, TypedUpdate
  <2>5. Typed(indexed) /\ indexed.entity = before.entity /\ indexed.node = before.node
    BY <2>1, <2>4 DEF Typed
  <2> HIDE DEF indexed
  <2>6. NodesHomed(indexed)
    BY <2>1, <2>5 DEF NodesHomed
  <2>7. CASE e \in DOMAIN r.entity /\ r.entity[e].type = "iscsi"
    <3>1. indexed.entity[e] \in EntityObjects /\ e \in DOMAIN indexed.entity
      BY <2>1, <2>5, <2>7, TypedObjects
    <3> DEFINE E == [indexed.entity EXCEPT ![e].nodes = @ \cup {n}]
               N == Put(indexed.node, n, fresh)
    <3>2. IsTable(E, Entities, EntityObjects)
      <4> DEFINE v == [indexed.entity[e] EXCEPT !.nodes = @ \cup {n}]
      <4>1. v \in EntityObjects
        BY <3>1 DEF EntityObjects
      <4>2. E = [indexed.entity EXCEPT ![e] = v]
        OBVIOUS
      <4>3. IsTable(indexed.entity, Entities, EntityObjects)
        BY <2>5, TypedTables
      <4> HIDE DEF v, E
      <4> QED BY <4>1, <4>2, <4>3, UpdateTable
    <3>3. IsTable(N, Names, Nodes)
      <4>1. fresh \in Nodes
        BY DEF Nodes
      <4>2. IsTable(indexed.node, Names, Nodes)
        BY <2>5, TypedTables
      <4> HIDE DEF fresh
      <4> QED BY <4>1, <4>2, PutTable
    <3>4. s = [[indexed EXCEPT !.entity = E] EXCEPT !.node = N]
      BY <2>5 DEF Typed
    <3>5. Typed(s) /\ s.entity = E /\ s.node = N
      <4>1. Typed([indexed EXCEPT !.entity = E])
        BY <2>5, <3>2, TypedUpdate
      <4> HIDE DEF E, N
      <4>2. Typed([[indexed EXCEPT !.entity = E] EXCEPT !.node = N])
        BY <3>3, <4>1, TypedUpdate
      <4>3. Typed(s)
        BY <3>4, <4>2
      <4> HIDE DEF s
      <4> QED BY <2>5, <3>4, <4>3 DEF Typed
    <3>6. /\ DOMAIN E = DOMAIN indexed.entity
          /\ E[e].type = "iscsi" /\ n \in E[e].nodes
          /\ \A x \in DOMAIN indexed.entity :
               /\ E[x].type = indexed.entity[x].type
               /\ indexed.entity[x].nodes \subseteq E[x].nodes
      BY <2>1, <2>5, <2>7, <3>1 DEF EntityObjects
    <3>7. /\ DOMAIN N = DOMAIN indexed.node \cup {n} /\ N[n].entity = e
          /\ \A x \in DOMAIN indexed.node \ {n} : N[x] = indexed.node[x]
      BY DEF Put
    <3> HIDE DEF E, N, s
    <3>8. NodesHomed(s) /\ n \in DOMAIN s.node
      BY <2>6, <3>1, <3>5, <3>6, <3>7 DEF NodesHomed
    <3>9. NodesHomed(ActivateMembership(s, n))
      BY <3>5, <3>8, ActivateMembershipOwners, SameOwnersHomed
    <3> QED BY <2>2, <2>7, <3>9
  <2> HIDE DEF s
  <2> QED BY <2>2, <2>6, <2>7
<1> QED BY <1>1, <1>2

LEMMA RequestHomed ==
  ASSUME \A m \in EntityReqs : m.type # "ifcp",
         Typed(db), NodesHomed(db), Request \/ CrashInRegDDS
  PROVE  NodesHomed(db')
<1>1. CASE RegEntity
  BY <1>1, RegisterEntityHomed, RequestAssumption DEF RegEntity
<1>2. CASE DeregEntity
  BY <1>2, RemoveEntityHomed DEF DeregEntity
<1>3. CASE RegNode
  BY <1>3, RegisterNodeHomed DEF RegNode
<1>4. CASE DeregNode
  BY <1>4, RemoveNodeHomed DEF DeregNode
<1>5. CASE RegDD
  BY <1>5, RegisterDDOwners, SameOwnersHomed, RequestAssumption DEF RegDD
<1>6. CASE DeregDDMember
  BY <1>6, DeregisterDDMemberOwners, SameOwnersHomed DEF DeregDDMember
<1>7. CASE DeregDD
  BY <1>7, DeregisterDDOwners, SameOwnersHomed DEF DeregDD
<1>8. CASE RegDDS \/ CrashInRegDDS
  <2>1. PICK m \in DDSReqs : \E res \in RegisterDDSResults(db, m) : db' = res.db
    BY <1>8 DEF RegDDS, CrashInRegDDS
  <2> QED BY <2>1, RegisterDDSResultsOwners, SameOwnersHomed, RequestAssumption
<1>9. CASE DeregDDSMember
  BY <1>9, DeregisterDDSMemberOwners, SameOwnersHomed DEF DeregDDSMember
<1>10. CASE DeregDDS
  BY <1>10, DeregisterDDSOwners, SameOwnersHomed DEF DeregDDS
<1> QED BY <1>1, <1>2, <1>3, <1>4, <1>5, <1>6, <1>7, <1>8, <1>9, <1>10 DEF Request

\* As long as no request makes an entity an iFCP entity, every registered node
\* has a stored iSCSI entity, which lists it (ISNSdbAddAttrISCSINode,
\* SNSRemoveISCSINodeEntry, ISNSdbRemoveAttrEntityEntry).
THEOREM HomedAlways ==
  ASSUME \A m \in EntityReqs : m.type # "ifcp"
  PROVE  Spec => []NodesHomed(db)
<1>1. Init => NodesHomed(db)
  BY DEF Init, NodesHomed, Empty
<1>2. TypeOK /\ NodesHomed(db) /\ [Next]_vars => NodesHomed(db')
  <2>1. UNCHANGED vars => UNCHANGED db
    BY DEF vars
  <2> QED BY <2>1, RequestHomed DEF Next, TypeOK
<1>3. NodesHomed(db') <=> NodesHomed(db)'
  BY DEF NodesHomed
<1> QED BY <1>1, <1>2, <1>3, TypeCorrect, PTL DEF Spec

LEMMA HomedShown ==
  NodesHomed(db) => ShownWithEntity
<1>1. SUFFICES ASSUME NodesHomed(db),
                      NEW c \in Readings(db), NEW s \in Sources,
                      NEW n \in DOMAIN db.node, NodeShown(db, c, s, n)
               PROVE  /\ EntityShown(db, c, s, db.node[n].entity)
                      /\ PortalShown(db, c, s, db.node[n].entity)
  BY DEF ShownWithEntity
<1>2. c[n] \subseteq EntityDDs(db, c, db.node[n].entity)
  BY <1>1 DEF EntityDDs, NodesHomed
<1> QED BY <1>1, <1>2 DEF NodeShown, EntityShown, PortalShown, Permits

\* A source that is shown a node is shown the entity of the node and its
\* portals too (ISNSdbGetAttrISCSI, SNSdbGetAttrEntity, SNSdbGetAttrPortal), in
\* any number of DDs and after any requests that make no iFCP entity: the DDs
\* of an entity are those of all its nodes.
THEOREM ShownWithEntityAlways ==
  ASSUME \A m \in EntityReqs : m.type # "ifcp"
  PROVE  QuerySpec => []ShownWithEntity
<1>1. Spec => []NodesHomed(db)
  BY HomedAlways
<1> QED BY <1>1, HomedShown, QueriesChangeNothing, PTL

(***************************************************************************)
(* Walks over a table.  What is owed is shown to the source, and stands    *)
(* after the last answer: so the next answer is not after it.              *)
(***************************************************************************)
TableOwed(r, w) ==
  w.of \in TableKinds =>
    /\ w.owed \subseteq SurelyShown(r, w)
    /\ \A x \in w.owed : Key(x) > Key(w.at)

\* How a request changes a walk over a table.
LEMMA DisturbedTable ==
  ASSUME NEW w \in TableWalks, NEW r
  PROVE  /\ Disturbed(r, w).of = w.of
         /\ Disturbed(r, w).src = w.src
         /\ Disturbed(r, w).at = w.at
         /\ Disturbed(r, w).owed = w.owed \cap SurelyShown(r, w)
<1>1. w.of \in TableKinds
  BY TableWalkTypes
<1>2. Disturbed(r, w) = [w EXCEPT !.owed = w.owed \cap SurelyShown(r, w)]
  BY <1>1 DEF Disturbed, TableKinds, ListKinds
<1>3. w = [of |-> w.of, src |-> w.src, at |-> w.at, owed |-> w.owed]
  BY DEF TableWalks
<1> QED BY <1>2, <1>3

LEMMA OwedAbove ==
  ASSUME QueryTypes, TableOwed(db, walk), walk \in TableWalks,
         NEW c \in Readings(db), NEW x \in walk.owed
  PROVE  /\ x \in Above(db, walk)
         /\ Shown(db, c, walk, x)
         /\ x \in Elements(walk)
<1>1. Typed(db)
  BY DEF QueryTypes
<1>2. x \in SurelyShown(db, walk) /\ Key(x) > Key(walk.at)
  BY TableWalkTypes DEF TableOwed
<1>3. x \in Keys(db, walk) /\ Shown(db, c, walk, x)
  BY <1>2 DEF SurelyShown
<1> QED BY <1>1, <1>2, <1>3, KeysOf DEF Above

LEMMA InitTableOwed == QueryInit => TableOwed(db, walk)
BY DEF QueryInit, TableOwed, Idle, TableKinds

LEMMA NextObjectOwed ==
  ASSUME QueryTypes, TableOwed(db, walk), NextObject
  PROVE  TableOwed(db, walk') /\ (walk' = Idle => walk.owed = {})
<1>1. walk \in TableWalks /\ Typed(db)
  BY NextObjectSteps DEF QueryTypes
<1>2. PICK c \in Readings(db) :
        \/ /\ walk' = Idle
           /\ \A x \in Above(db, walk) : ~Shown(db, c, walk, x)
        \/ \E x \in Above(db, walk) :
             /\ walk' = [walk EXCEPT !.at = x, !.owed = @ \ {x}]
             /\ walk' \in TableWalks
             /\ \A y \in Above(db, walk) :
                  Shown(db, c, walk, y) => Key(x) <= Key(y)
  BY NextObjectSteps
<1>3. \A y \in walk.owed : /\ y \in Above(db, walk)
                           /\ Shown(db, c, walk, y)
                           /\ y \in Elements(walk)
  BY <1>1, OwedAbove
<1>4. CASE /\ walk' = Idle
           /\ \A x \in Above(db, walk) : ~Shown(db, c, walk, x)
  <2>1. walk.owed = {}
    BY <1>3, <1>4
  <2> QED BY <1>4, <2>1 DEF TableOwed, Idle, TableKinds
<1>5. ASSUME NEW x \in Above(db, walk),
             walk' = [walk EXCEPT !.at = x, !.owed = @ \ {x}],
             walk' \in TableWalks,
             \A y \in Above(db, walk) : Shown(db, c, walk, y) => Key(x) <= Key(y)
      PROVE  TableOwed(db, walk') /\ walk' # Idle
  <2>1. walk = [of |-> walk.of, src |-> walk.src, at |-> walk.at, owed |-> walk.owed]
    BY <1>1 DEF TableWalks
  <2>2. /\ walk'.of = walk.of /\ walk'.src = walk.src
        /\ walk'.at = x /\ walk'.owed = walk.owed \ {x}
    BY <1>5, <2>1
  <2>3. walk'.owed \subseteq SurelyShown(db, walk')
    <3>1. walk.owed \subseteq SurelyShown(db, walk)
      BY <1>1, TableWalkTypes DEF TableOwed
    <3>2. SurelyShown(db, walk') = SurelyShown(db, walk)
      BY <2>2, SurelyShownSame
    <3> QED BY <2>2, <3>1, <3>2
  <2>4. ASSUME NEW y \in walk.owed \ {x}
        PROVE  Key(y) > Key(x)
    <3>1. Key(x) <= Key(y) /\ x \in Elements(walk) /\ y \in Elements(walk)
      BY <1>1, <1>3, <1>5, AboveIs, KeysOf
    <3>2. \/ x \in Names \cup Entities /\ y \in Names \cup Entities
          \/ x \in DDs /\ y \in DDs
      BY <3>1 DEF Elements
    <3>3. Key(x) # Key(y)
      BY <2>4, <3>2, KeysApart
    <3>4. Key(x) \in Nat /\ Key(y) \in Nat
      BY <3>2, KeyTypes DEF Places
    <3> QED BY <3>1, <3>3, <3>4
  <2>5. walk' # Idle
    <3>1. walk'.of \in TableKinds
      BY <1>1, <2>2, TableWalkTypes
    <3> QED BY <3>1 DEF Idle, TableKinds
  <2> QED BY <2>2, <2>3, <2>4, <2>5 DEF TableOwed
<1> QED BY <1>2, <1>4, <1>5

LEMMA TableOwedStep ==
  ASSUME QueryTypes, TypeOK, TableOwed(db, walk), [QueryNext]_queryVars
  PROVE  /\ TableOwed(db', walk')
         /\ QueryNext /\ walk.of \in TableKinds /\ walk' = Idle => walk.owed = {}
<1>1. Typed(db) /\ Typed(db')
  BY QueryStepTyped DEF TypeOK
<1>2. CASE UNCHANGED queryVars
  BY <1>2 DEF queryVars, vars, Idle, TableKinds
<1>3. CASE Request /\ walk' = Disturbed(db', walk)
  <2>1. CASE walk.of \in TableKinds
    <3>1. walk \in TableWalks
      BY <2>1, WalkForms DEF QueryTypes
    <3>2. /\ walk'.of = walk.of /\ walk'.src = walk.src /\ walk'.at = walk.at
          /\ walk'.owed = walk.owed \cap SurelyShown(db', walk)
      BY <1>3, <3>1, DisturbedTable
    <3>3. SurelyShown(db', walk') = SurelyShown(db', walk)
      BY <3>2, SurelyShownSame
    <3>4. walk' # Idle
      BY <2>1, <3>2 DEF Idle, TableKinds
    <3> QED BY <2>1, <3>2, <3>3, <3>4 DEF TableOwed
  <2>2. CASE walk.of \in ListKinds
    <3>1. walk'.of = walk.of
      <4>1. walk \in ListWalks
        BY <2>2, WalkForms DEF QueryTypes
      <4> QED BY <1>3, <2>2, <4>1 DEF Disturbed, ListKinds, ListWalks
    <3> QED BY <2>2, <3>1 DEF TableOwed, TableKinds, ListKinds
  <2>3. CASE walk.of = "idle"
    BY <1>3, <2>3 DEF Disturbed, TableOwed, TableKinds, ListKinds
  <2> QED BY <2>1, <2>2, <2>3, WalkForms DEF QueryTypes
<1>4. CASE QueryNode \/ QueryEntity \/ QueryPortal
  <2>1. UNCHANGED <<db, walk>>
    BY <1>4 DEF QueryNode, QueryEntity, QueryPortal
  <2> QED BY <2>1 DEF Idle, TableKinds
<1>5. CASE StartTableWalk
  <2>1. walk = Idle /\ UNCHANGED db
    BY <1>5 DEF StartTableWalk
  <2>2. /\ walk' \in TableWalks /\ walk'.at = Start
        /\ walk'.owed \subseteq SurelyShown(db, walk')
    BY <1>5, StartTableTyped
  <2>3. ASSUME NEW x \in walk'.owed
        PROVE  Key(x) > Key(walk'.at)
    <3>1. x \in Elements(walk')
      BY <1>1, <2>2, <2>3, KeysOf
    <3>2. x \in Names \cup Entities \/ x \in DDs
      BY <3>1 DEF Elements
    <3> QED BY <2>2, <3>2, KeyTypes
  <2> QED BY <2>1, <2>2, <2>3 DEF TableOwed, Idle, TableKinds
<1>6. CASE StartListWalk
  <2>1. walk = Idle /\ walk' \in ListWalks
    BY <1>6, StartListTyped DEF StartListWalk
  <2>2. walk'.of \in ListKinds
    BY <2>1 DEF ListWalks, ListKinds
  <2> QED BY <2>1, <2>2 DEF TableOwed, Idle, TableKinds, ListKinds
<1>7. CASE NextObject
  <2>1. UNCHANGED db
    BY <1>7 DEF NextObject
  <2> QED BY <1>7, <2>1, NextObjectOwed
<1>8. CASE NextElement
  <2>1. walk' = Idle \/ walk' \in ListWalks
    BY <1>8, NextElementSteps
  <2>2. walk'.of \notin TableKinds
    BY <2>1 DEF Idle, ListWalks, TableKinds
  <2>3. walk.of \notin TableKinds
    BY <1>8 DEF NextElement, TableKinds, ListKinds
  <2> QED BY <2>2, <2>3 DEF TableOwed
<1> QED BY <1>2, <1>3, <1>4, <1>5, <1>6, <1>7, <1>8, QuerySteps DEF Query

\* A walk over a table that ends owes nothing: it has answered every object
\* that was shown to its source from the first request to the last, in a table
\* of any size, whatever the other clients did meanwhile (ISNSGetNextAttr).
THEOREM TableWalkAlways == QuerySpec => TableWalkComplete
<1> DEFINE I == QueryTypes /\ TypeOK /\ TableOwed(db, walk)
<1>1. QueryInit => I
  BY InitQueryTypes, InitTableOwed
<1>2. I /\ [QueryNext]_queryVars => I'
  <2>1. I /\ [QueryNext]_queryVars => QueryTypes' /\ TypeOK'
    BY QueryStepTypes, QueryStepTyped
  <2>2. I /\ [QueryNext]_queryVars => TableOwed(db', walk')
    BY TableOwedStep
  <2>3. TableOwed(db, walk)' <=> TableOwed(db', walk')
    OBVIOUS
  <2> QED BY <2>1, <2>2, <2>3
<1>3. I /\ [QueryNext]_queryVars =>
        [walk.of \in TableKinds /\ walk' = Idle => walk.owed = {}]_queryVars
  BY TableOwedStep
<1> QED BY <1>1, <1>2, <1>3, PTL DEF QuerySpec, TableWalkComplete

(***************************************************************************)
(* The order of the lists.  A request appends one element to a list, takes *)
(* one out or starts the list anew: the elements that stay in the list     *)
(* stand in the order in which they stood.                                 *)
(***************************************************************************)
OrderKept(s, t) ==
  \A i, j \in DOMAIN s : \A k, l \in DOMAIN t :
    i < j /\ s[i] = t[k] /\ s[j] = t[l] => k < l

\* No two places of the list hold one element.
Unrepeated(s) == \A i, j \in DOMAIN s : s[i] = s[j] => i = j

LEMMA OrderSame ==
  ASSUME NEW s, Unrepeated(s)
  PROVE  OrderKept(s, s)
BY DEF OrderKept, Unrepeated

LEMMA OrderShort ==
  ASSUME NEW s, Unrepeated(s), DOMAIN s \subseteq Nat,
         NEW t, \A k, l \in DOMAIN t : k = l
  PROVE  OrderKept(s, t)
<1> SUFFICES ASSUME NEW i \in DOMAIN s, NEW j \in DOMAIN s,
                    NEW k \in DOMAIN t, NEW l \in DOMAIN t,
                    i < j, s[i] = t[k], s[j] = t[l]
             PROVE  FALSE
  BY DEF OrderKept
<1>1. k = l
  OBVIOUS
<1>2. i = j
  BY <1>1 DEF Unrepeated
<1> QED BY <1>2

LEMMA OrderAppended ==
  ASSUME NEW n \in Nat, NEW s, DOMAIN s = 1 .. n, Unrepeated(s),
         NEW t, DOMAIN t = 1 .. (n + 1), \A k \in 1 .. n : t[k] = s[k],
         \A k \in 1 .. n : s[k] # t[n + 1]
  PROVE  OrderKept(s, t)
<1> SUFFICES ASSUME NEW i \in 1 .. n, NEW j \in 1 .. n,
                    NEW k \in 1 .. (n + 1), NEW l \in 1 .. (n + 1),
                    i < j, s[i] = t[k], s[j] = t[l]
             PROVE  k < l
  BY DEF OrderKept
<1>1. k # n + 1 /\ l # n + 1
  OBVIOUS
<1>2. k \in 1 .. n /\ l \in 1 .. n
  BY <1>1
<1>3. s[i] = s[k] /\ s[j] = s[l]
  BY <1>2
<1>4. i = k /\ j = l
  BY <1>2, <1>3 DEF Unrepeated
<1> QED BY <1>4

LEMMA OrderRemoved ==
  ASSUME NEW n \in Nat, NEW s, DOMAIN s = 1 .. n, Unrepeated(s),
         NEW x \in 1 .. n, NEW t, DOMAIN t = 1 .. (n - 1),
         \A k \in 1 .. (n - 1) : t[k] = IF k < x THEN s[k] ELSE s[k + 1]
  PROVE  OrderKept(s, t)
<1> SUFFICES ASSUME NEW i \in 1 .. n, NEW j \in 1 .. n,
                    NEW k \in 1 .. (n - 1), NEW l \in 1 .. (n - 1),
                    i < j, s[i] = t[k], s[j] = t[l]
             PROVE  k < l
  BY DEF OrderKept
<1> DEFINE from(y) == IF y < x THEN y ELSE y + 1
<1>1. \A y \in 1 .. (n - 1) : from(y) \in 1 .. n /\ t[y] = s[from(y)]
  OBVIOUS
<1>2. s[i] = s[from(k)] /\ s[j] = s[from(l)] /\ from(k) \in 1 .. n /\ from(l) \in 1 .. n
  BY <1>1
<1>3. i = from(k) /\ j = from(l)
  <2> HIDE DEF from
  <2> QED BY <1>2 DEF Unrepeated
<1>4. from(k) < from(l)
  BY <1>3
<1> QED BY <1>4

LEMMA InjectiveUnrepeated ==
  ASSUME NEW s
  PROVE  IsInjective(s) <=> Unrepeated(s)
BY DEF IsInjective, Unrepeated

\* What a request makes of a list of ids.
LEMMA OrderOfChange ==
  ASSUME NEW S, NEW s \in Seq(S), IsInjective(s), NEW x \in S
  PROVE  /\ OrderKept(s, AppendNew(s, x)) /\ OrderKept(s, AppendNew(<<>>, x))
         /\ OrderKept(s, Without(s, x))
<1>1. Len(s) \in Nat /\ DOMAIN s = 1 .. Len(s) /\ Unrepeated(s)
  BY LenProperties, InjectiveUnrepeated
<1>2. OrderKept(s, s)
  BY <1>1, OrderSame
<1>4. OrderKept(s, AppendNew(s, x))
  <2>1. CASE x \in Range(s)
    BY <1>2, <2>1 DEF AppendNew
  <2>2. CASE x \notin Range(s)
    <3> DEFINE t == Append(s, x)
    <3>1. /\ DOMAIN t = 1 .. (Len(s) + 1)
          /\ \A k \in 1 .. Len(s) : t[k] = s[k]
          /\ t[Len(s) + 1] = x
      BY <1>1, AppendProperties
    <3>2. \A k \in 1 .. Len(s) : s[k] # x
      BY <1>1, <2>2 DEF Range
    <3>3. AppendNew(s, x) = t
      BY <2>2 DEF AppendNew
    <3> HIDE DEF t
    <3> QED BY <1>1, <3>1, <3>2, <3>3, OrderAppended
  <2> QED BY <2>1, <2>2
<1>5. OrderKept(s, AppendNew(<<>>, x))
  <2>1. AppendNew(<<>>, x) = <<x>>
    BY EmptyLinks DEF AppendNew
  <2>2. \A k, l \in DOMAIN <<x>> : k = l
    OBVIOUS
  <2> QED BY <1>1, <2>1, <2>2, OrderShort
<1>6. OrderKept(s, Without(s, x))
  <2>1. CASE x \notin Range(s)
    BY <1>2, <2>1 DEF Without
  <2>2. CASE x \in Range(s)
    <3> DEFINE i == CHOOSE k \in DOMAIN s : s[k] = x
               t == RemoveAt(s, i)
    <3>1. i \in 1 .. Len(s)
      BY <1>1, <2>2 DEF Range
    <3>2. Without(s, x) = t
      BY <2>2 DEF Without
    <3> HIDE DEF i
    <3>3. /\ t \in Seq(S)
          /\ Len(t) = Len(s) - 1
          /\ \A k \in 1 .. (Len(s) - 1) : t[k] = IF k < i THEN s[k] ELSE s[k + 1]
      BY <3>1, RemoveAtElements
    <3>4. DOMAIN t = 1 .. (Len(s) - 1)
      BY <3>3, LenProperties
    <3> HIDE DEF t
    <3>5. OrderKept(s, t)
      BY ONLY ZenonT(60), <1>1, <3>1, <3>3, <3>4, OrderRemoved
    <3> QED BY <3>2, <3>5
  <2> QED BY <2>1, <2>2
<1> QED BY <1>4, <1>5, <1>6

(***************************************************************************)
(* The order of the members.                                               *)
(***************************************************************************)

\* The names in a list of members, in order.
NameList(members) == [i \in DOMAIN members |-> members[i].name]

MembersKept(r, s) ==
  \A d \in DOMAIN r.dd \cap DOMAIN s.dd :
    OrderKept(NameList(r.dd[d].members), NameList(s.dd[d].members))

LEMMA NamesUnrepeated ==
  ASSUME NEW r, UniqueMembers(r), NEW d \in DOMAIN r.dd
  PROVE  Unrepeated(NameList(r.dd[d].members))
BY DEF UniqueMembers, NameList, Unrepeated

\* The members of every DD that stays are the same, or none.
LEMMA SameMembersKept ==
  ASSUME NEW r, UniqueMembers(r), NEW s,
         \A d \in DOMAIN r.dd \cap DOMAIN s.dd :
           s.dd[d].members \in {r.dd[d].members, <<>>}
  PROVE  MembersKept(r, s)
<1> SUFFICES ASSUME NEW d \in DOMAIN r.dd \cap DOMAIN s.dd
             PROVE  OrderKept(NameList(r.dd[d].members), NameList(s.dd[d].members))
  BY DEF MembersKept
<1>1. OrderKept(NameList(r.dd[d].members), NameList(r.dd[d].members))
  BY NamesUnrepeated, OrderSame
<1>2. OrderKept(NameList(r.dd[d].members), NameList(<<>>))
  BY DEF OrderKept, NameList
<1> QED BY <1>1, <1>2

LEMMA AddDDMemberKept ==
  ASSUME NEW r, Typed(r), UniqueMembers(r), NEW d \in DOMAIN r.dd,
         NEW n \in Names, NEW enabled \in BOOLEAN
  PROVE  /\ MembersKept(r, AddDDMember(r, d, n, enabled))
         /\ DOMAIN AddDDMember(r, d, n, enabled).dd = DOMAIN r.dd
<1> DEFINE new == [name |-> n, enabled |-> enabled]
           old == r.dd[d].members
           s   == AddDDMember(r, d, n, enabled)
<1>1. CASE \E m \in MemberNames(old) : <<n, m>> \in Prefix
  BY <1>1, SameMembersKept DEF AddDDMember
<1>2. CASE ~ \E m \in MemberNames(old) : <<n, m>> \in Prefix
  <2>1. n \notin MemberNames(old) /\ r.dd[d] \in DDObjects
    BY <1>2, NameAssumption, TypedObjects
  <2>2. /\ DOMAIN s.dd = DOMAIN r.dd
        /\ s.dd[d].members = Append(old, new)
        /\ \A x \in DOMAIN r.dd \ {d} : s.dd[x] = r.dd[x]
    BY <1>2, <2>1 DEF AddDDMember, Typed, DDObjects
  <2> DEFINE a == NameList(old)
             b == NameList(Append(old, new))
             k == Len(old)
  <2>3. /\ k \in Nat /\ DOMAIN old = 1 .. k /\ old \in Seq(Members)
        /\ new \in Members /\ new.name = n
    BY MembersOf DEF Members
  <2>4. /\ DOMAIN Append(old, new) = 1 .. (k + 1)
        /\ \A i \in 1 .. k : Append(old, new)[i] = old[i]
        /\ Append(old, new)[k + 1] = new
    BY <2>3, AppendProperties
  <2>5. DOMAIN a = 1 .. k /\ \A i \in 1 .. k : a[i] = old[i].name
    BY <2>3 DEF NameList
  <2>6. /\ DOMAIN b = 1 .. (k + 1)
        /\ \A i \in 1 .. k : b[i] = old[i].name
        /\ b[k + 1] = n
    <3> DEFINE ms == Append(old, new)
    <3>1. b = [i \in DOMAIN ms |-> ms[i].name]
      BY DEF NameList
    <3>2. /\ DOMAIN ms = 1 .. (k + 1) /\ ms[k + 1] = new
          /\ \A i \in 1 .. k : ms[i] = old[i]
      BY <2>4
    <3>3. k + 1 \in 1 .. (k + 1) /\ 1 .. k \subseteq 1 .. (k + 1)
      BY <2>3
    <3> HIDE DEF b, ms
    <3> QED BY <2>3, <3>1, <3>2, <3>3
  <2>7. \A i \in 1 .. k : old[i].name # n
    BY <2>1, <2>3 DEF MemberNames
  <2>8. Unrepeated(a)
    BY NamesUnrepeated
  <2> HIDE DEF a, b, k, s
  <2>9. /\ \A i \in 1 .. k : b[i] = a[i]
        /\ \A i \in 1 .. k : a[i] # b[k + 1]
    BY <2>5, <2>6, <2>7
  <2>10. k \in Nat
    BY <2>3
  <2>11. OrderKept(a, b)
    BY <2>5, <2>6, <2>8, <2>9, <2>10, OrderAppended
  <2>12. \A x \in DOMAIN r.dd \ {d} :
           OrderKept(NameList(r.dd[x].members), NameList(s.dd[x].members))
    BY <2>2, NamesUnrepeated, OrderSame
  <2>13. MembersKept(r, s)
    BY <2>2, <2>11, <2>12 DEF MembersKept, a, b
  <2> QED BY <2>2, <2>13 DEF s
<1> QED BY <1>1, <1>2

LEMMA JoinDDKept ==
  ASSUME NEW r, Sound(r), NEW d \in DOMAIN r.dd, NEW n \in Names
  PROVE  MembersKept(r, JoinDD(r, d, n))
<1> DEFINE s == AddDDToNode(r, d, n)
           b == n \in DOMAIN r.node
<1>1. Typed(r) /\ Typed(s) /\ s.dd = r.dd /\ DOMAIN s.node = DOMAIN r.node
  BY AddDDToNodeTyped, AddDDToNodeSame DEF Sound, SameMembers
<1>2. UniqueMembers(s)
  BY <1>1 DEF Sound, UniqueMembers
<1>3. JoinDD(r, d, n) = AddDDMember(s, d, n, b)
  BY <1>1 DEF JoinDD
<1>4. b \in BOOLEAN
  OBVIOUS
<1> HIDE DEF s, b
<1>5. /\ MembersKept(s, AddDDMember(s, d, n, b))
      /\ DOMAIN AddDDMember(s, d, n, b).dd = DOMAIN s.dd
  BY <1>1, <1>2, <1>4, AddDDMemberKept
<1> QED BY <1>1, <1>3, <1>5 DEF MembersKept

LEMMA RemoveDDMemberKept ==
  ASSUME NEW r, Typed(r), UniqueMembers(r), NEW d \in DOMAIN r.dd,
         NEW n \in Names
  PROVE  MembersKept(r, RemoveDDMember(r, d, n))
<1> DEFINE old == r.dd[d].members
           i   == CHOOSE k \in DOMAIN old : old[k].name = n
           s   == RemoveDDMember(r, d, n)
<1>1. CASE n \notin MemberNames(old)
  BY <1>1, SameMembersKept DEF RemoveDDMember
<1>2. CASE n \in MemberNames(old)
  <2>1. r.dd[d] \in DDObjects
    BY TypedObjects
  <2>2. /\ old \in Seq(Members) /\ i \in 1 .. Len(old)
        /\ Len(old) \in Nat /\ DOMAIN old = 1 .. Len(old)
    BY <1>2, MembersOf DEF MemberNames
  <2>3. /\ DOMAIN s.dd = DOMAIN r.dd
        /\ s.dd[d].members = RemoveAt(old, i)
        /\ \A x \in DOMAIN r.dd \ {d} : s.dd[x] = r.dd[x]
    BY <1>2, <2>1 DEF RemoveDDMember, Typed, DDObjects
  <2> DEFINE a == NameList(old)
             b == NameList(RemoveAt(old, i))
             m == Len(old)
  <2> HIDE DEF i, s
  <2>4. /\ RemoveAt(old, i) \in Seq(Members)
        /\ Len(RemoveAt(old, i)) = m - 1
        /\ \A k \in 1 .. (m - 1) :
             RemoveAt(old, i)[k] = IF k < i THEN old[k] ELSE old[k + 1]
    BY <2>2, RemoveAtElements
  <2>5. DOMAIN RemoveAt(old, i) = 1 .. (m - 1)
    BY <2>4, LenProperties
  <2>6. DOMAIN a = 1 .. m /\ \A k \in 1 .. m : a[k] = old[k].name
    BY <2>2 DEF NameList
  <2>7. DOMAIN b = 1 .. (m - 1) /\ \A k \in 1 .. (m - 1) :
          b[k] = RemoveAt(old, i)[k].name
    BY <2>5 DEF NameList
  <2>8. Unrepeated(a)
    BY NamesUnrepeated
  <2>9. m \in Nat /\ i \in 1 .. m
    BY <2>2
  <2> HIDE DEF a, b, m
  <2>10. ASSUME NEW k \in 1 .. (m - 1)
         PROVE  b[k] = IF k < i THEN a[k] ELSE a[k + 1]
    <3>1. k \in 1 .. m /\ k + 1 \in 1 .. m
      BY <2>9
    <3>2. b[k] = RemoveAt(old, i)[k].name
      BY <2>7
    <3>3. CASE k < i
      <4>1. RemoveAt(old, i)[k] = old[k]
        BY <2>4, <3>3
      <4> QED BY <2>6, <3>1, <3>2, <3>3, <4>1
    <3>4. CASE ~(k < i)
      <4>1. RemoveAt(old, i)[k] = old[k + 1]
        BY <2>4, <3>4
      <4> QED BY <2>6, <3>1, <3>2, <3>4, <4>1
    <3> QED BY <3>3, <3>4
  <2>11. OrderKept(a, b)
    <3>1. \A k \in 1 .. (m - 1) : b[k] = IF k < i THEN a[k] ELSE a[k + 1]
      BY <2>10
    <3>2. DOMAIN a = 1 .. m /\ DOMAIN b = 1 .. (m - 1)
      BY <2>6, <2>7
    <3> QED BY ONLY ZenonT(60), <2>8, <2>9, <3>1, <3>2, OrderRemoved
  <2>12. \A x \in DOMAIN r.dd \ {d} :
           OrderKept(NameList(r.dd[x].members), NameList(s.dd[x].members))
    BY <2>3, NamesUnrepeated, OrderSame
  <2>13. MembersKept(r, s)
    BY <2>3, <2>11, <2>12 DEF MembersKept, a, b
  <2> QED BY <2>13 DEF s
<1> QED BY <1>1, <1>2

LEMMA DeregisterDDMemberKept ==
  ASSUME NEW r, Sound(r), NEW d, NEW a \in MemberAttrs
  PROVE  MembersKept(r, DeregisterDDMember(r, d, a))
<1> DEFINE n == AttrName(a)
           s == RemoveDDFromNode(r, d, n)
<1>1. CASE d \notin DOMAIN r.dd \/ ~AttrKnown(r, a)
  BY <1>1, SameMembersKept DEF DeregisterDDMember, Sound
<1>2. CASE d \in DOMAIN r.dd /\ AttrKnown(r, a)
  <2>1. n \in Names /\ Typed(r)
    BY AttrNameType DEF Sound
  <2>2. DeregisterDDMember(r, d, a) = RemoveDDMember(s, d, n)
    BY <1>2 DEF DeregisterDDMember
  <2> HIDE DEF n
  <2>3. Typed(s) /\ s.dd = r.dd
    BY <2>1, RemoveDDFromNodeTyped, RemoveDDFromNodeSame
  <2> HIDE DEF s
  <2>4. UniqueMembers(s)
    BY <2>3 DEF Sound, UniqueMembers
  <2>5. MembersKept(s, RemoveDDMember(s, d, n))
    BY <1>2, <2>1, <2>3, <2>4, RemoveDDMemberKept
  <2> QED BY <2>2, <2>3, <2>5 DEF MembersKept
<1> QED BY <1>1, <1>2

SetsKept(r, s) ==
  \A x \in DOMAIN r.dds \cap DOMAIN s.dds : OrderKept(r.dds[x].dds, s.dds[x].dds)

\* Every list of a set is the old one, changed in one element or begun anew.
LEMMA SetsKeptBy ==
  ASSUME NEW r, Typed(r), UniqueLinks(r), NEW s,
         \A x \in DOMAIN r.dds \cap DOMAIN s.dds :
           \/ s.dds[x].dds \in {r.dds[x].dds, <<>>}
           \/ \E d \in DDs :
                s.dds[x].dds \in {AppendNew(r.dds[x].dds, d),
                                 AppendNew(<<>>, d), Without(r.dds[x].dds, d)}
  PROVE  SetsKept(r, s)
<1> SUFFICES ASSUME NEW x \in DOMAIN r.dds \cap DOMAIN s.dds
             PROVE  OrderKept(r.dds[x].dds, s.dds[x].dds)
  BY DEF SetsKept
<1>1. r.dds[x].dds \in Seq(DDs) /\ IsInjective(r.dds[x].dds)
  BY LinkLists DEF UniqueLinks
<1>2. \A d \in DDs :
        /\ OrderKept(r.dds[x].dds, AppendNew(r.dds[x].dds, d))
        /\ OrderKept(r.dds[x].dds, AppendNew(<<>>, d))
        /\ OrderKept(r.dds[x].dds, Without(r.dds[x].dds, d))
  BY <1>1, OrderOfChange
<1>3. OrderKept(r.dds[x].dds, r.dds[x].dds) /\ OrderKept(r.dds[x].dds, <<>>)
  BY <1>1, InjectiveUnrepeated, OrderSame DEF OrderKept
<1> QED BY <1>2, <1>3

LEMMA SameSetsKept ==
  ASSUME NEW r, UniqueLinks(r), NEW s,
         \A x \in DOMAIN r.dds \cap DOMAIN s.dds : s.dds[x].dds = r.dds[x].dds
  PROVE  SetsKept(r, s)
<1>1. \A x \in DOMAIN r.dds : Unrepeated(r.dds[x].dds)
  BY InjectiveUnrepeated DEF UniqueLinks
<1> QED BY <1>1, OrderSame DEF SetsKept

\* In every list that stays, what stays is in its old order.
ListsKept(r, s) == MembersKept(r, s) /\ SetsKept(r, s)

LEMMA SameDomainsKept ==
  ASSUME NEW r, UniqueMembers(r), UniqueLinks(r), NEW s,
         s.dd = r.dd, s.dds = r.dds
  PROVE  ListsKept(r, s)
BY SameMembersKept, SameSetsKept DEF ListsKept

(***************************************************************************)
(* One lemma for each request.                                             *)
(***************************************************************************)
LEMMA RegisterDDKept ==
  ASSUME NEW r, Sound(r), UniqueLinks(r), NEW m \in DDRequests
  PROVE  ListsKept(r, RegisterDD(r, m))
<1> DEFINE d        == m.dd
           exists   == d \in DOMAIN r.dd
           new      == [sym |-> IF m.sym = NoSym THEN m.auto ELSE NoSym,
                        active |-> FALSE, members |-> <<>>, dds |-> <<>>]
           start    == IF exists THEN r ELSE [r EXCEPT !.dd = Put(@, d, new)]
           unknown  == m.member # <<>> /\ ~AttrKnown(r, m.member[1])
           joined   == IF m.member = <<>> \/ unknown THEN start
                       ELSE JoinDD(start, d, AttrName(m.member[1]))
           undone   == [joined EXCEPT !.dd = r.dd]
           named    == [joined.dd[d] EXCEPT !.sym = NameRead(m)]
           renamed  == [joined EXCEPT !.dd = [@ EXCEPT ![d] = named]]
<1>1. /\ d \in DDs
      /\ m.member # <<>> => m.member[1] \in MemberAttrs
  BY DEF DDRequests
<1>2. /\ Sound(start)
      /\ start.dds = r.dds
      /\ DOMAIN start.dd = DOMAIN r.dd \cup {d}
      /\ \A x \in DOMAIN r.dd : start.dd[x] = r.dd[x]
  <2>1. CASE exists
    BY <2>1
  <2>2. CASE ~exists
    <3> DEFINE x == [r EXCEPT !.dd = Put(@, d, new)]
    <3>1. new \in DDObjects /\ new.members = <<>>
      BY <1>1, RequestNames, EmptySeq DEF DDObjects
    <3> HIDE DEF new
    <3>2. d \in DDs \ DOMAIN r.dd
      BY <1>1, <2>2
    <3> HIDE DEF d
    <3>3. IsTable(Put(r.dd, d, new), DDs, DDObjects)
      BY <3>1, <3>2, TypedTables, PutTable DEF Sound
    <3>4. Typed(x)
      BY <3>3, TypedUpdate DEF Sound
    <3>5. x.idx = r.idx /\ x.node = r.node /\ x.dd = Put(r.dd, d, new)
          /\ x.dds = r.dds
      BY DEF Sound, Typed
    <3>6. start = x
      BY <2>2
    <3> HIDE DEF x, start
    <3>7. Sound(x)
      BY <3>1, <3>2, <3>4, <3>5, NewDDSound
    <3>8. /\ DOMAIN x.dd = DOMAIN r.dd \cup {d}
          /\ \A y \in DOMAIN r.dd : x.dd[y] = r.dd[y]
      BY <3>2, <3>5 DEF Put
    <3> QED BY <3>5, <3>6, <3>7, <3>8
  <2> QED BY <2>1, <2>2
<1> HIDE DEF start
<1>3. /\ Typed(joined)
      /\ MembersKept(start, joined)
      /\ DOMAIN joined.dd = DOMAIN r.dd \cup {d}
      /\ DOMAIN joined.dds = DOMAIN r.dds
      /\ \A x \in DOMAIN r.dds : joined.dds[x].dds = r.dds[x].dds
  <2>1. CASE m.member = <<>> \/ unknown
    BY <1>2, <2>1, SameMembersKept DEF Sound
  <2>2. CASE m.member # <<>> /\ ~unknown
    <3> DEFINE n == AttrName(m.member[1])
    <3>1. n \in Names
      BY <1>1, <2>2, AttrNameType
    <3>2. joined = JoinDD(start, d, n)
      BY <2>2
    <3> HIDE DEF n, joined, d
    <3>3. Typed(start) /\ d \in DOMAIN start.dd
      BY <1>2 DEF Sound
    <3>4. Typed(joined) /\ SameLinks(start, joined)
      BY <3>1, <3>2, <3>3, JoinDDTyped, JoinDDLinks
    <3>5. MembersKept(start, joined)
      BY <1>2, <3>1, <3>2, <3>3, JoinDDKept
    <3> QED BY <1>2, <3>4, <3>5 DEF SameLinks
  <2> QED BY <2>1, <2>2
<1> HIDE DEF joined, d
<1>4. MembersKept(r, joined) /\ SetsKept(r, joined)
  <2>1. SetsKept(r, joined)
    BY <1>3, SameSetsKept
  <2>2. MembersKept(r, joined)
    BY <1>2, <1>3 DEF MembersKept
  <2> QED BY <2>1, <2>2
<1>5. ListsKept(r, undone)
  <2>1. undone.dd = r.dd /\ undone.dds = joined.dds
    BY <1>3 DEF Typed
  <2> HIDE DEF undone
  <2>2. MembersKept(r, undone)
    BY <2>1, SameMembersKept DEF Sound
  <2>3. SetsKept(r, undone)
    BY <1>3, <2>1, SameSetsKept
  <2> QED BY <2>2, <2>3 DEF ListsKept
<1>6. ListsKept(r, renamed)
  <2>1. d \in DOMAIN joined.dd /\ joined.dd[d] \in DDObjects
    BY <1>3, TypedObjects
  <2>2. named.members = joined.dd[d].members
    BY <2>1 DEF DDObjects
  <2>3. renamed.dd = [joined.dd EXCEPT ![d] = named] /\ renamed.dds = joined.dds
    BY <1>3 DEF Typed
  <2> HIDE DEF renamed, named
  <2>4. /\ DOMAIN renamed.dd = DOMAIN joined.dd
        /\ \A x \in DOMAIN joined.dd : renamed.dd[x].members = joined.dd[x].members
    BY <2>1, <2>2, <2>3
  <2>5. MembersKept(r, renamed)
    BY <1>4, <2>4 DEF MembersKept
  <2>6. SetsKept(r, renamed)
    BY <1>4, <2>3 DEF SetsKept
  <2> QED BY <2>5, <2>6 DEF ListsKept
<1>7. RegisterDD(r, m) \in {r, joined, renamed, undone}
  <2> HIDE DEF new
  <2> QED BY DEF RegisterDD, start, joined, new, d
<1>8. ListsKept(r, r) /\ ListsKept(r, joined)
  BY <1>4, SameDomainsKept DEF Sound, ListsKept
<1> HIDE DEF undone, renamed
<1> QED BY <1>5, <1>6, <1>7, <1>8

LEMMA DeregisterDDMemberListsKept ==
  ASSUME NEW r, Sound(r), UniqueLinks(r), NEW d, NEW a \in MemberAttrs
  PROVE  ListsKept(r, DeregisterDDMember(r, d, a))
<1>1. SameLinks(r, DeregisterDDMember(r, d, a))
  BY DeregisterDDMemberLinks DEF Sound
<1>2. SetsKept(r, DeregisterDDMember(r, d, a))
  BY <1>1, SameSetsKept DEF SameLinks
<1> QED BY <1>2, DeregisterDDMemberKept DEF ListsKept

LEMMA DeregisterDDKept ==
  ASSUME NEW r, Sound(r), UniqueLinks(r), NEW d \in DDs
  PROVE  ListsKept(r, DeregisterDD(r, d))
<1> DEFINE left == StoredPrefix(r.dd[d].dds, r.dds)
           s    == DeregisterDD(r, d)
<1>1. CASE d \in DOMAIN r.dd
  <2>1. Typed(r) /\ r.dd[d] \in DDObjects /\ \A x \in DOMAIN r.dds : r.dds[x] \in DDSObjects
    BY <1>1, TypedObjects DEF Sound
  <2>2. s.dds = [x \in DOMAIN r.dds |->
                   IF x \in left THEN [r.dds[x] EXCEPT !.dds = Without(@, d)]
                   ELSE r.dds[x]]
    BY <1>1, <2>1 DEF DeregisterDD, Typed
  <2>3. \/ s.dd = Drop(r.dd, d)
        \/ s.dd = [r.dd EXCEPT ![d].members = <<>>]
    BY <1>1, <2>1 DEF DeregisterDD, Typed
  <2> HIDE DEF s, left
  <2>4. \A x \in DOMAIN r.dds :
          s.dds[x].dds \in {r.dds[x].dds, Without(r.dds[x].dds, d)}
    BY <2>1, <2>2 DEF DDSObjects
  <2>5. SetsKept(r, s)
    BY <2>1, <2>4, SetsKeptBy
  <2>6. /\ \A x \in DOMAIN r.dd \ {d} : x \in DOMAIN s.dd /\ s.dd[x] = r.dd[x]
        /\ d \in DOMAIN s.dd => s.dd[d].members = <<>>
    <3>1. CASE s.dd = Drop(r.dd, d)
      BY <3>1 DEF Drop
    <3>2. CASE s.dd = [r.dd EXCEPT ![d].members = <<>>]
      BY <1>1, <2>1, <3>2 DEF DDObjects
    <3> QED BY <2>3, <3>1, <3>2
  <2>7. MembersKept(r, s)
    BY <2>6, SameMembersKept DEF Sound
  <2> QED BY <2>5, <2>7 DEF ListsKept, s
<1>2. CASE d \notin DOMAIN r.dd
  BY <1>2, SameDomainsKept DEF DeregisterDD, Sound
<1> QED BY <1>1, <1>2

\* Requests for sets leave the members alone.
LEMMA SetRequestKept ==
  ASSUME NEW r, Sound(r), NEW s, SameMembers(r, s), SetsKept(r, s)
  PROVE  ListsKept(r, s)
<1>1. MembersKept(r, s)
  BY SameMembersKept DEF SameMembers, Sound
<1> QED BY <1>1 DEF ListsKept

\* The sets after the deregistration of one.
LEMMA DeregisterDDSSets ==
  ASSUME NEW r, Typed(r), Linked(r), NEW s
  PROVE  DeregisterDDS(r, s).dds = Drop(r.dds, s)
<1> DEFINE listed  == r.dds[s].dds
           left    == StoredPrefix(listed, r.dd)
           dark(d) == ~IsDDActive(r, d, {s})
           dd      == [d \in DOMAIN r.dd |->
                         IF d \notin left THEN r.dd[d]
                         ELSE [r.dd[d] EXCEPT !.dds = Without(@, s),
                                              !.active = @ /\ ~dark(d)]]
           unlinked == [r EXCEPT !.dd = dd]
           changed == SelectSeq(listed, LAMBDA d : r.dd[d].active /\ dark(d))
           flagged == ChangeMemberFlags(unlinked, changed)
           t       == DeregisterDDS(r, s)
<1>1. CASE s \in DOMAIN r.dds
  <2>1. listed \in Seq(DDs)
    BY <1>1, LinkLists
  <2>2. left = Range(listed)
    BY <1>1, <2>1, StoredPrefixAll DEF Linked, DDsOfSets
  <2>3. t = [flagged EXCEPT !.dds = Drop(@, s)]
    BY <1>1, <2>2 DEF DeregisterDDS
  <2> HIDE DEF dd, changed, listed, left
  <2>4. "dds" \in DOMAIN flagged /\ flagged.dds = r.dds
    BY DEF ChangeMemberFlags, Typed
  <2> HIDE DEF flagged, t
  <2>5. t.dds = Drop(r.dds, s)
    BY <2>3, <2>4
  <2> QED BY <2>5 DEF t
<1>2. CASE s \notin DOMAIN r.dds
  <2>1. DeregisterDDS(r, s) = r
    BY <1>2 DEF DeregisterDDS
  <2>2. IsTable(r.dds, DDSs, DDSObjects)
    BY TypedTables
  <2>3. r.dds = Drop(r.dds, s)
    BY <1>2, <2>2 DEF IsTable, Drop
  <2> QED BY <2>1, <2>3
<1> QED BY <1>1, <1>2

LEMMA DeregisterDDSKept ==
  ASSUME NEW r, Sound(r), Linked(r), NEW s
  PROVE  ListsKept(r, DeregisterDDS(r, s))
<1>1. DeregisterDDS(r, s).dds = Drop(r.dds, s)
  BY DeregisterDDSSets DEF Sound
<1>2. SetsKept(r, DeregisterDDS(r, s))
  BY <1>1, SameSetsKept DEF Linked, Drop
<1> QED BY <1>2, DeregisterDDSSame, SetRequestKept DEF Sound

LEMMA DeregisterDDSMemberKept ==
  ASSUME NEW r, Sound(r), UniqueLinks(r), NEW s, NEW d \in DDs
  PROVE  ListsKept(r, DeregisterDDSMember(r, s, d))
<1> DEFINE t == DeregisterDDSMember(r, s, d)
<1>1. CASE s \in DOMAIN r.dds
  <2>1. Typed(r) /\ r.dds[s] \in DDSObjects
    BY <1>1, TypedObjects DEF Sound
  <2>2. /\ DOMAIN t.dds = DOMAIN r.dds
        /\ t.dds[s].dds = Without(r.dds[s].dds, d)
        /\ \A x \in DOMAIN r.dds \ {s} : t.dds[x] = r.dds[x]
    BY <1>1, <2>1 DEF DeregisterDDSMember, Typed, DDSObjects
  <2> HIDE DEF t
  <2>3. SetsKept(r, t)
    BY <2>1, <2>2, SetsKeptBy
  <2> QED BY <2>1, <2>3, DeregisterDDSMemberSame, SetRequestKept DEF t
<1>2. CASE s \notin DOMAIN r.dds
  BY <1>2, SameDomainsKept DEF DeregisterDDSMember, Sound
<1> QED BY <1>1, <1>2

\* The list of a set that is placed: kept, or empty, and then perhaps with one
\* more DD.
LEMMA PlaceDDSKept ==
  ASSUME NEW r, Typed(r), Linked(r), NEW m \in DDSRequests
  PROVE  SetsKept(r, PlaceDDS(r, m).db)
<1> DEFINE s        == m.dds
           new      == s \notin DOMAIN r.dds \/ m.replace
           before   == IF m.replace THEN DeregisterDDS(r, s) ELSE r
           old      == IF new THEN [sym |-> NoSym, status |-> FALSE, dds |-> <<>>]
                       ELSE r.dds[s]
           start    == [before EXCEPT !.dds = Put(@, s, old)]
           status   == IF m.status = <<>> THEN old.status ELSE m.status[1]
           given    == IF m.statusLast THEN old.status ELSE status
           unknown  == m.dd # <<>> /\ m.dd[1] \notin DOMAIN r.dd
           linked   == IF m.dd = <<>> \/ unknown THEN start
                       ELSE AddDDSToDD(start, s, m.dd[1], given)
           written  == [linked EXCEPT
                          !.dds[s].status = status,
                          !.dds[s].sym = IF m.sym = NoSym THEN @ ELSE m.sym]
           undone   == [linked EXCEPT !.dds = before.dds]
<1>1. /\ Typed(before)
      /\ DOMAIN before.dd = DOMAIN r.dd
      /\ \A x \in DOMAIN before.dds : x \in DOMAIN r.dds /\ before.dds[x] = r.dds[x]
  <2>1. CASE m.replace
    <3>1. before = DeregisterDDS(r, s)
      BY <2>1
    <3> HIDE DEF s, before
    <3>2. before.dds = Drop(r.dds, s)
      BY <3>1, DeregisterDDSSets
    <3>3. Typed(before) /\ DOMAIN before.dd = DOMAIN r.dd
      BY <3>1, DeregisterDDSTyped, DeregisterDDSLinked
    <3> QED BY <3>2, <3>3 DEF Drop
  <2>2. CASE ~m.replace
    BY <2>2
  <2> QED BY <2>1, <2>2
<1> HIDE DEF before
<1>2. /\ old \in DDSObjects
      /\ old.dds = <<>> \/ (s \in DOMAIN r.dds /\ old = r.dds[s])
  <2>1. CASE new
    <3>1. old = [sym |-> NoSym, status |-> FALSE, dds |-> <<>>]
      BY <2>1
    <3>2. <<>> \in Seq(DDs)
      OBVIOUS
    <3> HIDE DEF old, s
    <3> QED BY <3>1, <3>2 DEF DDSObjects
  <2>2. CASE ~new
    BY <2>2, TypedObjects
  <2> QED BY <2>1, <2>2
<1> HIDE DEF old
<1>3. /\ Typed(start) /\ start.dd = before.dd
      /\ start.dds = Put(before.dds, s, old) /\ s \in DOMAIN start.dds
  <2>1. s \in DDSs
    BY DEF DDSRequests
  <2>2. Typed(start)
    BY <1>1, <1>2, <2>1, TypedTables, PutTable, TypedUpdate
  <2> QED BY <1>1, <2>2 DEF Typed, Put
<1>4. /\ start.dds[s] = old
      /\ \A x \in DOMAIN start.dds \ {s} : x \in DOMAIN r.dds /\ start.dds[x] = r.dds[x]
  BY <1>1, <1>3 DEF Put
<1> HIDE DEF start, status, given
<1>5. /\ "dds" \in DOMAIN linked
      /\ s \in DOMAIN linked.dds
      /\ DOMAIN linked.dds[s] = {"sym", "status", "dds"}
      /\ \/ linked.dds[s].dds = old.dds
         \/ \E d \in DDs : linked.dds[s].dds = AppendNew(old.dds, d)
      /\ \A x \in DOMAIN linked.dds \ {s} :
           x \in DOMAIN r.dds /\ linked.dds[x].dds = r.dds[x].dds
  <2>1. CASE m.dd = <<>> \/ unknown
    <3>1. linked = start
      BY <2>1
    <3> HIDE DEF linked, s
    <3>2. DOMAIN old = {"sym", "status", "dds"}
      BY <1>2 DEF DDSObjects
    <3> QED BY <1>3, <1>4, <3>1, <3>2 DEF Typed
  <2>2. CASE m.dd # <<>> /\ m.dd[1] \in DOMAIN r.dd
    <3> DEFINE d == m.dd[1]
    <3>1. linked = AddDDSToDD(start, s, d, given)
      BY <2>2
    <3>2. d \in DOMAIN start.dd /\ d \in DDs
      BY <1>1, <1>3, <2>2, TypedObjects
    <3> HIDE DEF d, linked, s
    <3>3. start.dds[s] \in DDSObjects /\ start.dd[d] \in DDObjects
      BY <1>3, <3>2, TypedObjects
    <3>4. /\ "dds" \in DOMAIN linked
          /\ DOMAIN linked.dds = DOMAIN start.dds
          /\ linked.dds[s] = [start.dds[s] EXCEPT !.dds = AppendNew(@, d)]
          /\ \A x \in DOMAIN start.dds \ {s} : linked.dds[x] = start.dds[x]
      BY <1>3, <3>1, <3>2, <3>3 DEF AddDDSToDD, Typed
    <3>5. /\ DOMAIN linked.dds[s] = {"sym", "status", "dds"}
          /\ linked.dds[s].dds = AppendNew(old.dds, d)
      BY <1>4, <3>3, <3>4 DEF DDSObjects
    <3> QED BY <1>3, <1>4, <3>2, <3>4, <3>5
  <2> QED BY <2>1, <2>2
<1> HIDE DEF linked, s
<1>7. SetsKept(r, before)
  BY <1>1, SameSetsKept DEF Linked
<1>8. SetsKept(r, linked)
  <2>1. \A x \in DOMAIN r.dds \cap DOMAIN linked.dds :
          \/ linked.dds[x].dds \in {r.dds[x].dds, <<>>}
          \/ \E d \in DDs :
               linked.dds[x].dds \in {AppendNew(r.dds[x].dds, d),
                                     AppendNew(<<>>, d), Without(r.dds[x].dds, d)}
    BY <1>2, <1>5
  <2> QED BY <2>1, SetsKeptBy DEF Linked
<1>9. SetsKept(r, written)
  <2>1. /\ DOMAIN written.dds = DOMAIN linked.dds
        /\ \A x \in DOMAIN linked.dds : written.dds[x].dds = linked.dds[x].dds
    BY <1>5
  <2> HIDE DEF written
  <2> QED BY <1>8, <2>1 DEF SetsKept
<1>10. SetsKept(r, undone)
  <2>1. undone.dds = before.dds
    BY <1>5
  <2> HIDE DEF undone
  <2> QED BY <1>7, <2>1 DEF SetsKept
<1>11. PlaceDDS(r, m).db \in {before, linked, written, undone}
  BY DEF PlaceDDS, before, old, start, status, given, linked, s
<1> HIDE DEF undone, written
<1> QED BY <1>7, <1>8, <1>9, <1>10, <1>11

LEMMA RegisterDDSResultsKept ==
  ASSUME NEW r, Sound(r), Linked(r), NEW m \in DDSRequests,
         NEW res \in RegisterDDSResults(r, m)
  PROVE  ListsKept(r, res.db)
<1> DEFINE p == PlaceDDS(r, m).db
<1>1. Typed(r) /\ Typed(p) /\ SetsKept(r, p) /\ SameMembers(r, p)
  BY PlaceDDSTyped, PlaceDDSKept, PlaceDDSSame DEF Sound
<1>2. res.db = p \/ \E w : res.db = SpreadStatus(p, m.dds, w)
  BY DEF RegisterDDSResults
<1> HIDE DEF p
<1>3. ASSUME NEW w
      PROVE  /\ SetsKept(r, SpreadStatus(p, m.dds, w))
             /\ SameMembers(r, SpreadStatus(p, m.dds, w))
  <2>1. SameLinks(p, SpreadStatus(p, m.dds, w))
    BY <1>1, SpreadStatusLinks
  <2>2. SetsKept(r, SpreadStatus(p, m.dds, w))
    BY <1>1, <2>1 DEF SetsKept, SameLinks
  <2> QED BY <1>1, <2>2, SpreadStatusSame, SameMembersTransitive
<1>4. SetsKept(r, res.db) /\ SameMembers(r, res.db)
  BY <1>1, <1>2, <1>3
<1> QED BY <1>4, SetRequestKept

LEMMA ActivateMembershipKept ==
  ASSUME NEW r, Sound(r), NEW n \in DOMAIN r.node
  PROVE  MembersKept(r, ActivateMembership(r, n))
<1> DEFINE listing == DDsListing(r, n)
           default == {x \in DOMAIN r.dd : r.dd[x].sym = DefaultSym}
           d       == CHOOSE x \in default : TRUE
           done    == ActivateMembership(r, n)
<1>1. Typed(r) /\ n \in Names
  BY TypedObjects DEF Sound
<1>2. CASE listing # {} \/ default = {}
  <2>1. done.dd = r.dd
    BY <1>1, <1>2 DEF ActivateMembership, Typed
  <2> HIDE DEF done
  <2>2. MembersKept(r, done)
    BY <2>1, SameMembersKept DEF Sound
  <2> QED BY <2>2 DEF done
<1>3. CASE listing = {} /\ default # {}
  <2> DEFINE s == AddDDMember(r, d, n, TRUE)
  <2>1. d \in DOMAIN r.dd
    BY <1>3
  <2> HIDE DEF d
  <2>2. \A b \in BOOLEAN : /\ Typed(AddDDMember(r, d, n, b))
                           /\ MembersKept(r, AddDDMember(r, d, n, b))
    BY <1>1, <2>1, AddDDMemberTyped, AddDDMemberKept DEF Sound
  <2>3. Typed(s) /\ MembersKept(r, s)
    BY <2>2
  <2>4. done = [s EXCEPT !.node[n].dds = @ \cup {d}, !.node[n].active = TRUE]
    BY <1>3 DEF ActivateMembership, d
  <2> HIDE DEF s, done
  <2>5. done.dd = s.dd
    BY <2>3, <2>4 DEF Typed
  <2>6. MembersKept(r, done)
    BY <2>3, <2>5 DEF MembersKept
  <2> QED BY <2>6 DEF done
<1> QED BY <1>2, <1>3

LEMMA RegisterNodeKept ==
  ASSUME NEW r, Sound(r), UniqueLinks(r), NEW n \in Names, NEW e \in Entities,
         NEW replace \in BOOLEAN
  PROVE  ListsKept(r, RegisterNode(r, n, e, replace))
<1> DEFINE before == IF replace THEN RemoveNode(r, n) ELSE r
           fresh  == [entity |-> e, active |-> FALSE, dds |-> {}]
           done   == RegisterNode(r, n, e, replace)
<1>1. Typed(r) /\ before.dd = r.dd
  BY RemoveNodeLinks DEF Sound
<1>2. \A t, x : n \in DOMAIN Put(t, n, x)
  BY DEF Put
<1>3. \/ n \in DOMAIN r.node /\ done = ActivateMembership(r, n)
      \/ done.dd = before.dd
      \/ \E s : /\ Sound(s) /\ s.dd = before.dd
                /\ s.node = Put(before.node, n, fresh)
                /\ done = ActivateMembership(s, n)
  BY RegisterNodeSteps
<1>4. SameLinks(r, done)
  BY <1>1, RegisterNodeLinks
<1> HIDE DEF before, fresh, done
<1>5. ASSUME n \in DOMAIN r.node, done = ActivateMembership(r, n)
      PROVE  MembersKept(r, done)
  BY <1>5, ActivateMembershipKept
<1>6. ASSUME done.dd = before.dd
      PROVE  MembersKept(r, done)
  BY <1>1, <1>6, SameMembersKept DEF Sound
<1>7. ASSUME NEW s, Sound(s), s.dd = before.dd,
             s.node = Put(before.node, n, fresh), done = ActivateMembership(s, n)
      PROVE  MembersKept(r, done)
  <2>1. MembersKept(s, done)
    BY <1>2, <1>7, ActivateMembershipKept
  <2> QED BY <1>1, <1>7, <2>1 DEF MembersKept
<1>8. MembersKept(r, done)
  BY <1>3, <1>5, <1>6, <1>7
<1>9. SetsKept(r, done)
  BY <1>4, SameSetsKept DEF SameLinks
<1> QED BY <1>8, <1>9 DEF ListsKept, done

LEMMA RequestKept ==
  ASSUME Sound(db), Linked(db), Request
  PROVE  ListsKept(db, db')
<1> Typed(db) /\ UniqueMembers(db) /\ UniqueLinks(db)
  BY DEF Sound, Linked
<1>1. CASE RegEntity
  <2>1. PICK m \in EntityReqs : db' = RegisterEntity(db, m)
    BY <1>1 DEF RegEntity
  <2>2. /\ RegisterEntity(db, m).dd = db.dd
        /\ RegisterEntity(db, m).dds = db.dds
    BY RemoveEntityTyped, RemoveEntityLinks DEF RegisterEntity, Typed
  <2> QED BY <2>1, <2>2, SameDomainsKept
<1>2. CASE DeregEntity
  BY <1>2, RemoveEntityLinks, SameDomainsKept DEF DeregEntity
<1>3. CASE RegNode
  BY <1>3, RegisterNodeKept DEF RegNode
<1>4. CASE DeregNode
  BY <1>4, RemoveNodeLinks, SameDomainsKept DEF DeregNode
<1>5. CASE RegDD
  BY <1>5, RegisterDDKept, RequestAssumption DEF RegDD
<1>6. CASE DeregDDMember
  BY <1>6, DeregisterDDMemberListsKept DEF DeregDDMember
<1>7. CASE DeregDD
  BY <1>7, DeregisterDDKept DEF DeregDD
<1>8. CASE RegDDS
  BY <1>8, RegisterDDSResultsKept, RequestAssumption DEF RegDDS
<1>9. CASE DeregDDSMember
  BY <1>9, DeregisterDDSMemberKept DEF DeregDDSMember
<1>10. CASE DeregDDS
  BY <1>10, DeregisterDDSKept DEF DeregDDS
<1> QED BY <1>1, <1>2, <1>3, <1>4, <1>5, <1>6, <1>7, <1>8, <1>9, <1>10 DEF Request

(***************************************************************************)
(* Walks over lists.  What is owed stands in the list, behind the element  *)
(* that the walk has reached, as long as that has not left the list.       *)
(***************************************************************************)
ListOwed(r, w) ==
  w.of \in ListKinds =>
    LET s == Walked(r, w)
    IN /\ w.owed \subseteq Range(s)
       /\ ~w.moved =>
            /\ w.at = Start \/ w.at \in Range(s)
            /\ \A i, j \in DOMAIN s : s[i] \in w.owed /\ s[j] = w.at => j < i

LEMMA StartIsNoElement ==
  ASSUME NEW w
  PROVE  Start \notin Elements(w)
BY QueryAssumption DEF Elements, Start

LEMMA WalkedUnrepeated ==
  ASSUME NEW r, UniqueMembers(r), UniqueLinks(r), NEW w \in ListWalks
  PROVE  Unrepeated(Walked(r, w))
<1>1. CASE w.of = "members"
  <2>1. CASE w.key \in DOMAIN r.dd
    <3>1. Walked(r, w) = NameList(r.dd[w.key].members)
      BY <1>1, <2>1 DEF Walked, NameList
    <3> QED BY <2>1, <3>1, NamesUnrepeated
  <2>2. CASE w.key \notin DOMAIN r.dd
    <3>1. Walked(r, w) = <<>>
      BY <1>1, <2>2 DEF Walked
    <3> QED BY <3>1 DEF Unrepeated
  <2> QED BY <2>1, <2>2
<1>2. CASE w.of = "sets"
  <2>1. CASE w.key \in DOMAIN r.dds
    <3>1. Walked(r, w) = r.dds[w.key].dds
      BY <1>2, <2>1 DEF Walked
    <3> QED BY <2>1, <3>1, InjectiveUnrepeated DEF UniqueLinks
  <2>2. CASE w.key \notin DOMAIN r.dds
    <3>1. Walked(r, w) = <<>>
      BY <1>2, <2>2 DEF Walked
    <3> QED BY <3>1 DEF Unrepeated
  <2> QED BY <2>1, <2>2
<1> QED BY <1>1, <1>2 DEF ListWalks

LEMMA WalkedOrdered ==
  ASSUME NEW r, NEW t, ListsKept(r, t), NEW w \in ListWalks
  PROVE  OrderKept(Walked(r, w), Walked(t, w))
<1>1. \A s : OrderKept(<<>>, s) /\ OrderKept(s, <<>>)
  BY DEF OrderKept
<1>2. CASE w.of = "members"
  <2>1. CASE w.key \in DOMAIN r.dd /\ w.key \in DOMAIN t.dd
    <3>1. /\ Walked(r, w) = NameList(r.dd[w.key].members)
          /\ Walked(t, w) = NameList(t.dd[w.key].members)
      BY <1>2, <2>1 DEF Walked, NameList
    <3> QED BY <2>1, <3>1 DEF ListsKept, MembersKept
  <2>2. CASE w.key \notin DOMAIN r.dd \/ w.key \notin DOMAIN t.dd
    <3>1. Walked(r, w) = <<>> \/ Walked(t, w) = <<>>
      BY <1>2, <2>2 DEF Walked
    <3> QED BY <1>1, <3>1
  <2> QED BY <2>1, <2>2
<1>3. CASE w.of = "sets"
  <2>1. CASE w.key \in DOMAIN r.dds /\ w.key \in DOMAIN t.dds
    <3>1. Walked(r, w) = r.dds[w.key].dds /\ Walked(t, w) = t.dds[w.key].dds
      BY <1>3, <2>1 DEF Walked
    <3> QED BY <2>1, <3>1 DEF ListsKept, SetsKept
  <2>2. CASE w.key \notin DOMAIN r.dds \/ w.key \notin DOMAIN t.dds
    <3>1. Walked(r, w) = <<>> \/ Walked(t, w) = <<>>
      BY <1>3, <2>2 DEF Walked
    <3> QED BY <1>1, <3>1
  <2> QED BY <2>1, <2>2
<1> QED BY <1>2, <1>3 DEF ListWalks

\* How a request changes a walk over a list.
LEMMA DisturbedList ==
  ASSUME NEW w \in ListWalks, NEW r
  PROVE  /\ Disturbed(r, w).of = w.of
         /\ Disturbed(r, w).key = w.key
         /\ Disturbed(r, w).at = w.at
         /\ Disturbed(r, w).owed = w.owed \cap Range(Walked(r, w))
         /\ Disturbed(r, w).moved
              = (w.moved \/ (w.at # Start /\ w.at \notin Range(Walked(r, w))))
<1> DEFINE here == Range(Walked(r, w))
           b    == w.moved \/ (w.at # Start /\ w.at \notin here)
<1>1. w.of \in ListKinds
  BY ListWalkTypes
<1>2. Disturbed(r, w) = [w EXCEPT !.owed = w.owed \cap here, !.moved = b]
  BY <1>1 DEF Disturbed, ListKinds
<1> HIDE DEF here, b
<1>3. w = [of |-> w.of, key |-> w.key, at |-> w.at, moved |-> w.moved,
           owed |-> w.owed]
  BY DEF ListWalks
<1>4. /\ Disturbed(r, w).of = w.of /\ Disturbed(r, w).key = w.key
      /\ Disturbed(r, w).at = w.at
      /\ Disturbed(r, w).owed = w.owed \cap here
      /\ Disturbed(r, w).moved = b
  BY <1>2, <1>3
<1> QED BY <1>4 DEF here, b

\* A request keeps what is owed.
LEMMA DisturbedListOwed ==
  ASSUME NEW r, NEW t, Typed(t), ListsKept(r, t), NEW w \in ListWalks,
         ListOwed(r, w)
  PROVE  ListOwed(t, Disturbed(t, w))
<1> DEFINE v  == Disturbed(t, w)
           s  == Walked(r, w)
           s2 == Walked(t, w)
<1>1. /\ v.of = w.of /\ v.key = w.key /\ v.at = w.at
      /\ v.owed = w.owed \cap Range(s2)
      /\ v.moved = (w.moved \/ (w.at # Start /\ w.at \notin Range(s2)))
  BY DisturbedList
<1>2. w.of \in ListKinds
  BY ListWalkTypes
<1>3. Walked(t, v) = s2
  BY <1>1 DEF Walked
<1>4. OrderKept(s, s2)
  BY WalkedOrdered
<1>5. /\ w.owed \subseteq Range(s)
      /\ ~w.moved =>
           /\ w.at = Start \/ w.at \in Range(s)
           /\ \A i, j \in DOMAIN s : s[i] \in w.owed /\ s[j] = w.at => j < i
  BY <1>2 DEF ListOwed
<1> HIDE DEF v, s, s2
<1>6. ASSUME ~v.moved, NEW k \in DOMAIN s2, NEW l \in DOMAIN s2,
             s2[k] \in v.owed, s2[l] = v.at
      PROVE  l < k
  <2>1. PICK i \in DOMAIN s : s[i] = s2[k]
    BY <1>1, <1>5, <1>6 DEF Range
  <2>2. ~w.moved
    BY <1>1, <1>6
  <2>3. CASE w.at \in Range(s)
    <3>1. PICK j \in DOMAIN s : s[j] = w.at
      BY <2>3 DEF Range
    <3>2. j < i
      BY <1>1, <1>5, <1>6, <2>1, <2>2, <3>1
    <3> QED BY <1>1, <1>4, <1>6, <2>1, <3>1, <3>2 DEF OrderKept
  <2>4. CASE w.at = Start
    <3>1. s2[l] \in Elements(w)
      BY <1>6, WalkedRange DEF s2
    <3> QED BY <1>1, <1>6, <2>4, <3>1, StartIsNoElement
  <2> QED BY <1>5, <2>2, <2>3, <2>4
<1>7. ~v.moved => v.at = Start \/ v.at \in Range(s2)
  BY <1>1
<1> QED BY <1>1, <1>3, <1>6, <1>7 DEF ListOwed, v

LEMMA NextElementOwed ==
  ASSUME QueryTypes, UniqueMembers(db), UniqueLinks(db), ListOwed(db, walk),
         NextElement
  PROVE  /\ ListOwed(db, walk')
         /\ walk' = Idle /\ ~walk.moved => walk.owed = {}
<1> DEFINE s == Walked(db, walk)
<1>1. Typed(db) /\ walk \in ListWalks /\ walk.of \in ListKinds
  BY NextElementSteps, ListWalkTypes DEF QueryTypes, NextElement
<1>2. Unrepeated(s) /\ DOMAIN s = 1 .. Len(s) /\ Len(s) \in Nat
  BY <1>1, WalkedUnrepeated, WalkedRange
<1>3. /\ walk.owed \subseteq Range(s)
      /\ ~walk.moved =>
           /\ walk.at = Start \/ walk.at \in Range(s)
           /\ \A i, j \in DOMAIN s : s[i] \in walk.owed /\ s[j] = walk.at => j < i
  BY <1>1 DEF ListOwed
<1>4. ASSUME NEW i \in NextAfter(s, walk.at),
             walk' = [walk EXCEPT !.at = s[i], !.owed = @ \ {s[i]}]
      PROVE  ListOwed(db, walk') /\ walk' # Idle
  <2>1. walk = [of |-> walk.of, key |-> walk.key, at |-> walk.at,
                moved |-> walk.moved, owed |-> walk.owed]
    BY <1>1 DEF ListWalks
  <2>2. /\ walk'.of = walk.of /\ walk'.key = walk.key /\ walk'.at = s[i]
        /\ walk'.moved = walk.moved /\ walk'.owed = walk.owed \ {s[i]}
    <3> HIDE DEF s
    <3> QED BY <1>4, <2>1
  <2>3. Walked(db, walk') = s
    BY <2>2 DEF Walked
  <2>4. /\ i \in DOMAIN s
        /\ IF i = 1 THEN walk.at = Start ELSE s[i - 1] = walk.at
    BY DEF NextAfter
  <2> HIDE DEF s
  <2>5. ASSUME ~walk.moved, NEW a \in DOMAIN s, NEW b \in DOMAIN s,
               s[a] \in walk.owed \ {s[i]}, s[b] = s[i]
        PROVE  b < a
    <3>1. b = i /\ a # i
      BY <2>4, <2>5, <1>2 DEF Unrepeated
    <3>2. CASE i = 1
      BY <1>2, <3>1, <3>2
    <3>3. CASE i # 1
      <4>1. i - 1 \in DOMAIN s /\ s[i - 1] = walk.at
        BY <1>2, <2>4, <3>3
      <4>2. i - 1 < a
        BY <1>3, <2>5, <4>1
      <4> QED BY <1>2, <2>4, <3>1, <4>2
    <3> QED BY <3>2, <3>3
  <2>6. s[i] \in Range(s)
    BY <2>4 DEF Range
  <2>7. walk' # Idle
    BY <1>1, <2>2 DEF Idle, ListKinds
  <2> QED BY <1>3, <2>2, <2>3, <2>5, <2>6, <2>7 DEF ListOwed
<1>5. ASSUME NextAfter(s, walk.at) = {}, ~walk.moved
      PROVE  walk.owed = {}
  <2>1. SUFFICES ASSUME NEW x \in walk.owed
                 PROVE  FALSE
    OBVIOUS
  <2>2. PICK i \in DOMAIN s : s[i] = x
    BY <1>3, <2>1 DEF Range
  <2>3. \A k \in DOMAIN s : ~(IF k = 1 THEN walk.at = Start ELSE s[k - 1] = walk.at)
    BY <1>5 DEF NextAfter
  <2> HIDE DEF s
  <2>4. 1 \in DOMAIN s
    BY <1>2, <2>2
  <2>5. walk.at \in Range(s)
    BY <1>3, <1>5, <2>3, <2>4
  <2>6. PICK j \in DOMAIN s : s[j] = walk.at
    BY <2>5 DEF Range
  <2>7. j < i
    BY <1>3, <1>5, <2>1, <2>2, <2>6
  <2>8. j + 1 \in DOMAIN s /\ j + 1 # 1 /\ (j + 1) - 1 = j
    BY <1>2, <2>2, <2>6, <2>7
  <2> QED BY <2>3, <2>6, <2>8
<1>6. walk' = Idle => ListOwed(db, walk')
  BY DEF ListOwed, Idle, ListKinds
<1> QED BY <1>4, <1>5, <1>6, NextElementSteps

LEMMA ListOwedStep ==
  ASSUME QueryTypes, TypeOK, Sound(db), Linked(db), ListOwed(db, walk),
         [QueryNext]_queryVars
  PROVE  /\ ListOwed(db', walk')
         /\ QueryNext /\ walk.of \in ListKinds /\ walk' = Idle /\ ~walk.moved
              => walk.owed = {}
<1>1. Typed(db) /\ Typed(db')
  BY QueryStepTyped DEF TypeOK
<1>2. CASE UNCHANGED queryVars
  BY <1>2 DEF queryVars, vars, Idle, ListKinds
<1>3. CASE Request /\ walk' = Disturbed(db', walk)
  <2>1. CASE walk.of \in ListKinds
    <3>1. walk \in ListWalks
      BY <2>1, WalkForms DEF QueryTypes
    <3>2. ListsKept(db, db')
      BY <1>3, RequestKept
    <3>3. ListOwed(db', walk')
      BY <1>1, <1>3, <3>1, <3>2, DisturbedListOwed
    <3>4. walk'.of = walk.of
      BY <1>3, <3>1, DisturbedList
    <3>5. walk' # Idle
      BY <2>1, <3>4 DEF Idle, ListKinds
    <3> QED BY <3>3, <3>5
  <2>2. CASE walk.of \in TableKinds
    <3>1. walk \in TableWalks
      BY <2>2, WalkForms DEF QueryTypes
    <3>2. walk'.of = walk.of
      BY <1>3, <3>1, DisturbedTable
    <3> QED BY <2>2, <3>2 DEF ListOwed, TableKinds, ListKinds
  <2>3. CASE walk.of = "idle"
    BY <1>3, <2>3 DEF Disturbed, ListOwed, ListKinds
  <2> QED BY <2>1, <2>2, <2>3, WalkForms DEF QueryTypes
<1>4. CASE QueryNode \/ QueryEntity \/ QueryPortal
  <2>1. UNCHANGED <<db, walk>>
    BY <1>4 DEF QueryNode, QueryEntity, QueryPortal
  <2> QED BY <2>1 DEF Idle, ListKinds
<1>5. CASE StartTableWalk
  <2>1. walk = Idle /\ walk' \in TableWalks
    BY <1>5, StartTableTyped DEF StartTableWalk
  <2>2. walk'.of \in TableKinds
    BY <2>1 DEF TableWalks, TableKinds
  <2> QED BY <2>1, <2>2 DEF ListOwed, Idle, TableKinds, ListKinds
<1>6. CASE StartListWalk
  <2>1. walk = Idle /\ UNCHANGED db
    BY <1>6 DEF StartListWalk
  <2>2. /\ walk' \in ListWalks /\ walk'.at = Start
        /\ walk'.owed = Range(Walked(db, walk'))
    BY <1>6, StartListTyped
  <2>3. \A j \in DOMAIN Walked(db, walk') : Walked(db, walk')[j] # Start
    BY <1>1, <2>2, WalkedRange, StartIsNoElement
  <2> QED BY <2>1, <2>2, <2>3 DEF ListOwed, Idle, ListKinds
<1>7. CASE NextObject
  <2>1. walk' = Idle \/ walk' \in TableWalks
    BY <1>7, NextObjectSteps
  <2>2. walk'.of \notin ListKinds
    BY <2>1 DEF Idle, TableWalks, ListKinds
  <2>3. walk.of \notin ListKinds
    BY <1>7 DEF NextObject, TableKinds, ListKinds
  <2> QED BY <2>2, <2>3 DEF ListOwed
<1>8. CASE NextElement
  <2>1. UNCHANGED db /\ UniqueMembers(db) /\ UniqueLinks(db)
    BY <1>8 DEF NextElement, Sound, Linked
  <2> QED BY <1>8, <2>1, NextElementOwed
<1> QED BY <1>2, <1>3, <1>4, <1>5, <1>6, <1>7, <1>8, QuerySteps DEF Query

\* A walk over the members of a DD, or over the DDs of a set, that ends without
\* an error owes nothing: it has answered every element that stayed in the list
\* from the first request to the last, unless the element that it had reached
\* was taken out meanwhile.  This holds of lists of any length
\* (ISNSGetNextDDIscsiMember and ISNSGetNextDDSMember).
THEOREM ListWalkAlways == QuerySpec => ListWalkComplete
<1> DEFINE I == QueryTypes /\ TypeOK /\ ListOwed(db, walk)
           T == Sound(db) /\ Linked(db)
<1>1. QueryInit => I
  BY InitQueryTypes DEF QueryInit, ListOwed, Idle, ListKinds
<1>2. I /\ T /\ [QueryNext]_queryVars => I'
  <2>1. I /\ [QueryNext]_queryVars => QueryTypes' /\ TypeOK'
    BY QueryStepTypes, QueryStepTyped
  <2>2. I /\ T /\ [QueryNext]_queryVars => ListOwed(db', walk')
    BY ListOwedStep
  <2>3. ListOwed(db, walk)' <=> ListOwed(db', walk')
    OBVIOUS
  <2> QED BY <2>1, <2>2, <2>3
<1>3. I /\ T /\ [QueryNext]_queryVars =>
        [walk.of \in ListKinds /\ walk' = Idle /\ ~walk.moved
           => walk.owed = {}]_queryVars
  BY ListOwedStep
<1>4. QuerySpec => []T
  BY QueriesChangeNothing, SoundAlways, LinkedAlways, PTL
<1> QED BY <1>1, <1>2, <1>3, <1>4, PTL DEF QuerySpec, ListWalkComplete
=============================================================================
