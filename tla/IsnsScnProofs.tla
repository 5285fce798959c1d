---------------------------- MODULE IsnsScnProofs ---------------------------
(***************************************************************************)
(* The theorems about notifications, for any nodes, domains, clients and   *)
(* requests: the types of the state, who may be told of what, and that a   *)
(* new node is announced to all who asked for it.                          *)
(***************************************************************************)
EXTENDS IsnsScn, SequenceTheorems, FiniteSetTheorems, TLAPS

(***************************************************************************)
(* The order of a node's list of DDs.                                      *)
(***************************************************************************)

\* The rank of a number in a finite set, one for each place, which is what
\* makes Ascending a sequence of all its elements.
LEMMA Ranks ==
  ASSUME NEW S \in SUBSET Nat, IsFiniteSet(S)
  PROVE  /\ Cardinality(S) \in Nat
         /\ \A x \in S : Cardinality({y \in S : y <= x}) \in 1..Cardinality(S)
         /\ \A x, z \in S : Cardinality({y \in S : y <= x})
                              = Cardinality({y \in S : y <= z}) => x = z
         /\ \A i \in 1..Cardinality(S) :
              \E x \in S : Cardinality({y \in S : y <= x}) = i
<1> DEFINE n == Cardinality(S)
           Below(x) == {y \in S : y <= x}
           rank == [x \in S |-> Cardinality(Below(x))]
<1>1. n \in Nat
  BY FS_CardinalityType
<1>2. ASSUME NEW x \in S
      PROVE  IsFiniteSet(Below(x)) /\ Cardinality(Below(x)) \in 1..n
  <2>1. Below(x) \in SUBSET S /\ x \in Below(x)
    OBVIOUS
  <2> HIDE DEF Below
  <2>2. IsFiniteSet(Below(x)) /\ Cardinality(Below(x)) <= n
    BY <2>1, FS_Subset
  <2>3. Cardinality(Below(x)) \in Nat
    BY <2>2, FS_CardinalityType
  <2>4. Cardinality(Below(x)) # 0
    BY <2>1, <2>2, FS_EmptySet
  <2> QED BY <1>1, <2>2, <2>3, <2>4
<1>3. ASSUME NEW x \in S, NEW z \in S, x < z
      PROVE  Cardinality(Below(x)) # Cardinality(Below(z))
  <2>0. x \in Nat /\ z \in Nat /\ \A y \in S : y \in Nat
    OBVIOUS
  <2>1. Below(x) \in SUBSET Below(z) /\ z \in Below(z) /\ z \notin Below(x)
    <3>1. \A y \in S : y <= x => y <= z
      BY ONLY <2>0, <1>3
    <3>2. z <= z /\ ~(z <= x)
      BY ONLY <2>0, <1>3
    <3> QED BY <3>1, <3>2
  <2> HIDE DEF Below
  <2>2. IsFiniteSet(Below(z))
    BY <1>2
  <2> QED BY <2>1, <2>2, FS_Subset
<1>4. ASSUME NEW x \in S, NEW z \in S,
             Cardinality(Below(x)) = Cardinality(Below(z))
      PROVE  x = z
  <2>1. x \in Nat /\ z \in Nat /\ ~(x < z) /\ ~(z < x)
    BY <1>3, <1>4
  <2> QED BY <2>1
<1> HIDE DEF Below
<1>5. rank \in Injection(S, 1..n)
  BY <1>2, <1>4 DEF Injection, IsInjective
<1>6. IsFiniteSet(1..n) /\ Cardinality(1..n) = n
  BY <1>1, FS_Interval
<1>7. rank \in Surjection(S, 1..n)
  BY <1>5, <1>6, FS_Injection
<1>8. \A i \in 1..n : \E x \in S : Cardinality(Below(x)) = i
  BY <1>7 DEF Surjection
<1> QED BY <1>1, <1>2, <1>4, <1>8 DEF Below

\* A set of numbers has a lowest: the one of the first rank.
LEMMA Lowest ==
  ASSUME NEW S \in SUBSET Nat, IsFiniteSet(S), S # {}
  PROVE  \E x \in S : \A y \in S : x <= y
<1> DEFINE Below(x) == {y \in S : y <= x}
<1>1. /\ Cardinality(S) \in Nat
      /\ \A i \in 1..Cardinality(S) : \E x \in S : Cardinality(Below(x)) = i
  BY Ranks
<1>2. Cardinality(S) # 0
  BY FS_EmptySet
<1>3. 1 \in 1..Cardinality(S)
  BY <1>1, <1>2
<1>4. PICK x \in S : Cardinality(Below(x)) = 1
  BY <1>1, <1>3
<1>5. Below(x) \in SUBSET S /\ x \in Below(x)
  OBVIOUS
<1> HIDE DEF Below
<1>6. PICK z : Below(x) = {z}
  BY <1>4, <1>5, FS_Subset, FS_Singleton
<1>7. ASSUME NEW y \in S, ~(x <= y)
      PROVE  FALSE
  <2>1. y <= x /\ y # x
    BY <1>7
  <2>2. y \in Below(x)
    BY <2>1 DEF Below
  <2> QED BY <1>5, <1>6, <2>1, <2>2
<1> QED BY <1>7

\* A finite set of numbers in ascending order: each of them once.
LEMMA AscendingIs ==
  ASSUME NEW S \in SUBSET Nat, IsFiniteSet(S)
  PROVE  /\ Ascending(S) \in Seq(S)
         /\ Range(Ascending(S)) = S
         /\ IsInjective(Ascending(S))
<1> DEFINE n == Cardinality(S)
           Rank(x) == Cardinality({y \in S : y <= x})
           a == [i \in 1..n |-> CHOOSE x \in S : Rank(x) = i]
<1>1. /\ n \in Nat
      /\ \A x \in S : Rank(x) \in 1..n
      /\ \A x, z \in S : Rank(x) = Rank(z) => x = z
      /\ \A i \in 1..n : \E x \in S : Rank(x) = i
  BY Ranks
<1>2. Ascending(S) = a
  BY DEF Ascending
<1> HIDE DEF n, Rank
<1>3. \A i \in 1..n : a[i] \in S /\ Rank(a[i]) = i
  BY <1>1
<1>4. DOMAIN a = 1..n
  OBVIOUS
<1>5. a \in [1..n -> S]
  <2>1. \A i \in 1..n : (CHOOSE x \in S : Rank(x) = i) \in S
    BY <1>1
  <2> QED BY <2>1
<1> HIDE DEF a
<1>6. a \in Seq(S)
  BY <1>1, <1>5, SeqDef
<1>7. \A x \in S : Rank(x) \in DOMAIN a /\ a[Rank(x)] = x
  BY <1>1, <1>3, <1>4
<1>8. Range(a) = S
  BY <1>3, <1>4, <1>7 DEF Range
<1>9. IsInjective(a)
  BY <1>3, <1>4 DEF IsInjective
<1> QED BY <1>2, <1>6, <1>8, <1>9

\* The list of DDs of a node after a step: the set that the step has left it
\* with, each DD once.
LEMMA RelistIs ==
  ASSUME NEW T \in SUBSET Nat, IsFiniteSet(T), NEW S \in SUBSET T,
         NEW old \in Seq(T), IsInjective(old)
  PROVE  /\ Relist(old, S) \in Seq(T)
         /\ Range(Relist(old, S)) = S
         /\ IsInjective(Relist(old, S))
<1> DEFINE I == {i \in DOMAIN old : old[i] \in S}
           kept == Ascending(I)
           front == [i \in DOMAIN kept |-> old[kept[i]]]
           new == S \ Range(old)
           back == Ascending(new)
<1>1. /\ Len(old) \in Nat /\ DOMAIN old = 1..Len(old)
      /\ \A i \in DOMAIN old : old[i] \in T
  BY LenProperties
<1>2. I \in SUBSET Nat /\ IsFiniteSet(I)
  <2>1. I \in SUBSET (1..Len(old)) /\ IsFiniteSet(1..Len(old))
    BY <1>1, FS_Interval
  <2>2. IsFiniteSet(I)
    BY <2>1, FS_Subset
  <2> QED BY <1>1, <2>1, <2>2
<1>3. new \in SUBSET T /\ IsFiniteSet(new)
  <2>1. new \in SUBSET T
    OBVIOUS
  <2> QED BY <2>1, FS_Subset
<1>4. kept \in Seq(I) /\ Range(kept) = I /\ IsInjective(kept)
  BY <1>2, AscendingIs
<1>5. back \in Seq(new) /\ Range(back) = new /\ IsInjective(back)
  BY <1>3, AscendingIs
<1>6. \A i \in I : i \in DOMAIN old /\ old[i] \in S
  OBVIOUS
<1>7. \A x \in S : x \in new \/ \E i \in I : old[i] = x
  BY DEF Range
<1>8. \A x \in new : x \in S /\ \A i \in I : old[i] # x
  BY DEF Range
<1>9. Relist(old, S) = front \o back
  BY DEF Relist
<1> HIDE DEF I, kept, new, back
<1>10. Len(kept) \in Nat /\ DOMAIN kept = 1..Len(kept)
       /\ \A i \in DOMAIN kept : kept[i] \in I
  BY <1>4, LenProperties
<1>11. /\ DOMAIN front = 1..Len(kept)
       /\ \A i \in 1..Len(kept) : front[i] = old[kept[i]] /\ front[i] \in S
  BY <1>6, <1>10
<1>12. front \in [1..Len(kept) -> T]
  BY <1>6, <1>10
<1> HIDE DEF front
<1>13. front \in Seq(T) /\ Len(front) = Len(kept)
  <2>1. front \in Seq(T)
    BY <1>10, <1>12, SeqDef
  <2>2. Len(front) \in Nat /\ DOMAIN front = 1..Len(front)
    BY <2>1, LenProperties
  <2> QED BY <1>10, <1>11, <2>1, <2>2
<1>14. back \in Seq(T)
  <2>1. new \subseteq T /\ back \in Seq(new)
    BY <1>3, <1>5
  <2> QED BY ONLY <2>1, SeqMonotonic
<1>15. Len(back) \in Nat /\ DOMAIN back = 1..Len(back)
       /\ \A i \in 1..Len(back) : back[i] \in new
  BY <1>5, LenProperties
<1> DEFINE s == front \o back
<1>16. /\ s \in Seq(T)
       /\ Len(s) = Len(kept) + Len(back)
       /\ \A i \in 1..(Len(kept) + Len(back)) :
            s[i] = IF i <= Len(kept) THEN front[i] ELSE back[i - Len(kept)]
  <2>1. /\ front \o back \in Seq(T)
        /\ Len(front \o back) = Len(front) + Len(back)
        /\ \A i \in 1..(Len(front) + Len(back)) : (front \o back)[i] =
             IF i <= Len(front) THEN front[i] ELSE back[i - Len(front)]
    <3>1. front \in Seq(T) /\ back \in Seq(T)
      BY <1>13, <1>14
    <3> QED BY ONLY <3>1, ConcatProperties
  <2> QED BY <1>13, <2>1
<1> HIDE DEF s
<1>17. DOMAIN s = 1..(Len(kept) + Len(back))
  BY <1>16, LenProperties
<1>17a. ASSUME NEW i \in DOMAIN s, ~(i <= Len(kept))
        PROVE  i - Len(kept) \in DOMAIN back /\ s[i] = back[i - Len(kept)]
  <2>1. i \in 1..(Len(kept) + Len(back))
    BY <1>17
  <2>2. i - Len(kept) \in 1..Len(back)
    BY <2>1, <1>17a, <1>10, <1>15
  <2>3. s[i] = back[i - Len(kept)]
    BY <2>1, <1>17a, <1>16
  <2> QED BY <2>2, <2>3, <1>15
<1>18. Range(s) = S
  <2>1. ASSUME NEW i \in DOMAIN s PROVE s[i] \in S
    <3>1. CASE i <= Len(kept)
      BY <3>1, <1>10, <1>11, <1>16, <1>17
    <3>2. CASE ~(i <= Len(kept))
      BY <3>2, <1>17a, <1>8, <1>15
    <3> QED BY <3>1, <3>2
  <2>2. ASSUME NEW x \in S PROVE \E i \in DOMAIN s : s[i] = x
    <3>1. CASE x \in new
      <4>1. PICK k \in 1..Len(back) : back[k] = x
        BY <3>1, <1>5, <1>15 DEF Range
      <4>2. k + Len(kept) \in 1..(Len(kept) + Len(back))
            /\ ~(k + Len(kept) <= Len(kept)) /\ (k + Len(kept)) - Len(kept) = k
        BY <1>10, <1>15
      <4> QED BY <4>1, <4>2, <1>16, <1>17
    <3>2. CASE \E i \in I : old[i] = x
      <4>1. PICK i \in I : old[i] = x
        BY <3>2
      <4>2. PICK k \in 1..Len(kept) : kept[k] = i
        BY <1>4, <1>10 DEF Range
      <4>3. k \in 1..(Len(kept) + Len(back)) /\ k <= Len(kept)
        BY <1>10, <1>15
      <4> QED BY <4>1, <4>2, <4>3, <1>11, <1>16, <1>17
    <3> QED BY <3>1, <3>2, <1>7
  <2> QED BY <2>1, <2>2 DEF Range
<1>19. IsInjective(s)
  <2>1. ASSUME NEW i \in DOMAIN s, NEW j \in DOMAIN s, s[i] = s[j]
        PROVE  i = j
    <3>1. i \in Nat /\ j \in Nat
      BY <1>10, <1>15, <1>17
    <3>2. CASE i <= Len(kept) /\ j <= Len(kept)
      <4>1. i \in DOMAIN kept /\ j \in DOMAIN kept
            /\ old[kept[i]] = old[kept[j]]
        BY <2>1, <3>2, <1>10, <1>11, <1>16, <1>17
      <4>2. kept[i] \in DOMAIN old /\ kept[j] \in DOMAIN old
        BY <4>1, <1>6, <1>10
      <4>3. kept[i] = kept[j]
        BY <4>1, <4>2 DEF IsInjective
      <4> QED BY <4>1, <4>3, <1>4 DEF IsInjective
    <3>3. ASSUME NEW k \in DOMAIN s, NEW l \in DOMAIN s,
                 k <= Len(kept), ~(l <= Len(kept))
          PROVE  s[k] # s[l]
      <4>1. k \in DOMAIN kept /\ s[k] = old[kept[k]] /\ kept[k] \in I
        BY <3>3, <1>10, <1>11, <1>16, <1>17
      <4>2. l - Len(kept) \in 1..Len(back) /\ s[l] = back[l - Len(kept)]
        BY <3>3, <1>17a, <1>15
      <4> QED BY <4>1, <4>2, <1>8, <1>15
    <3>4. CASE ~(i <= Len(kept)) /\ ~(j <= Len(kept))
      <4>1. /\ i - Len(kept) \in DOMAIN back /\ j - Len(kept) \in DOMAIN back
            /\ back[i - Len(kept)] = back[j - Len(kept)]
        BY <2>1, <3>4, <1>17a
      <4>2. i - Len(kept) = j - Len(kept)
        BY <4>1, <1>5 DEF IsInjective
      <4> QED BY <4>2, <3>1, <1>10
    <3> QED BY <2>1, <3>2, <3>3, <3>4
  <2> QED BY <2>1 DEF IsInjective
<1> QED BY <1>9, <1>16, <1>18, <1>19 DEF s

(***************************************************************************)
(* The tables.  A notification needs little of them: which nodes there are,*)
(* the entity and the DDs of each, and which DDs are stored.               *)
(***************************************************************************)

IsNode(x) ==
  /\ DOMAIN x = {"entity", "active", "dds"}
  /\ x.entity \in Entities
  /\ x.dds \subseteq DDs

\* The tables by name.
Fields == {"entity", "node", "idx", "dd", "dds"}

\* The tables are a record, the entities stay, and an entity lists only nodes
\* that are registered under it.
Shape(r) ==
  /\ DOMAIN r = Fields
  /\ r.entity \in [Entities -> [type : {"iscsi"}, nodes : SUBSET Names]]
  /\ DOMAIN r.node \subseteq Names
  /\ \A n \in DOMAIN r.node : IsNode(r.node[n])
  /\ DOMAIN r.dd \subseteq DDs
  /\ \A e \in Entities : \A n \in r.entity[e].nodes :
       n \in DOMAIN r.node /\ r.node[n].entity = e

\* The tables q have the nodes of r, under the same entities.
SameNodes(r, q) ==
  /\ DOMAIN q = Fields
  /\ q.entity = r.entity
  /\ DOMAIN q.node = DOMAIN r.node
  /\ \A n \in DOMAIN r.node :
       IsNode(q.node[n]) /\ q.node[n].entity = r.node[n].entity
  /\ DOMAIN q.dd \subseteq DDs

LEMMA SameNodesShape ==
  ASSUME NEW r, NEW q, Shape(r), SameNodes(r, q)
  PROVE  Shape(q)
<1>1. /\ r.entity \in [Entities -> [type : {"iscsi"}, nodes : SUBSET Names]]
      /\ DOMAIN r.node \subseteq Names
      /\ \A e \in Entities : \A n \in r.entity[e].nodes :
           n \in DOMAIN r.node /\ r.node[n].entity = e
  BY DEF Shape
<1>2. /\ DOMAIN q = Fields /\ q.entity = r.entity
      /\ DOMAIN q.node = DOMAIN r.node
      /\ \A n \in DOMAIN r.node :
           IsNode(q.node[n]) /\ q.node[n].entity = r.node[n].entity
      /\ DOMAIN q.dd \subseteq DDs
  BY DEF SameNodes
<1>3. \A e \in Entities : \A n \in q.entity[e].nodes :
        n \in DOMAIN q.node /\ q.node[n].entity = e
  BY <1>1, <1>2
<1> QED BY <1>1, <1>2, <1>3 DEF Shape

LEMMA SameNodesSelf ==
  ASSUME NEW r, Shape(r)
  PROVE  SameNodes(r, r)
BY DEF Shape, SameNodes

LEMMA SameNodesTwice ==
  ASSUME NEW r, NEW q, NEW t, SameNodes(r, q), SameNodes(q, t)
  PROVE  SameNodes(r, t)
<1>1. /\ q.entity = r.entity /\ DOMAIN q.node = DOMAIN r.node
      /\ \A n \in DOMAIN r.node : q.node[n].entity = r.node[n].entity
  BY DEF SameNodes
<1>2. /\ DOMAIN t = Fields /\ t.entity = q.entity
      /\ DOMAIN t.node = DOMAIN q.node
      /\ \A n \in DOMAIN q.node :
           IsNode(t.node[n]) /\ t.node[n].entity = q.node[n].entity
      /\ DOMAIN t.dd \subseteq DDs
  BY DEF SameNodes
<1> QED BY <1>1, <1>2 DEF SameNodes

\* A handler that gives one node another set of DDs.
LEMMA NodeChanged ==
  ASSUME NEW r, Shape(r), NEW n \in DOMAIN r.node, NEW x,
         IsNode(x), x.entity = r.node[n].entity
  PROVE  SameNodes(r, [r EXCEPT !.node = [@ EXCEPT ![n] = x]])
<1> DEFINE q == [r EXCEPT !.node = [@ EXCEPT ![n] = x]]
<1>1. /\ DOMAIN r = {"entity", "node", "idx", "dd", "dds"}
      /\ \A k \in DOMAIN r.node : IsNode(r.node[k])
      /\ DOMAIN r.dd \subseteq DDs
  BY DEF Shape, Fields
<1>2. /\ DOMAIN q = DOMAIN r /\ q.entity = r.entity /\ q.dd = r.dd
      /\ q.node = [r.node EXCEPT ![n] = x]
  BY <1>1
<1> HIDE DEF q
<1>3. DOMAIN q.node = DOMAIN r.node
      /\ \A k \in DOMAIN r.node : q.node[k] = IF k = n THEN x ELSE r.node[k]
  BY <1>2
<1>4. SameNodes(r, q)
  BY <1>1, <1>2, <1>3 DEF SameNodes, Fields
<1> QED BY <1>4 DEF q

LEMMA AddDDToNodeSame ==
  ASSUME NEW r, Shape(r), NEW d \in DDs, NEW n
  PROVE  /\ SameNodes(r, AddDDToNode(r, d, n))
         /\ AddDDToNode(r, d, n).dd = r.dd
<1>1. CASE n \in DOMAIN r.node
  <2> DEFINE x == [r.node[n] EXCEPT !.dds = @ \cup {d},
                                    !.active = @ \/ r.dd[d].active]
             q == [r EXCEPT !.node = [@ EXCEPT ![n] = x]]
  <2>1. IsNode(r.node[n])
    BY <1>1 DEF Shape
  <2>2. /\ DOMAIN r.node[n] = {"entity", "active", "dds"}
        /\ r.node[n].entity \in Entities /\ r.node[n].dds \subseteq DDs
        /\ DOMAIN r = {"entity", "node", "idx", "dd", "dds"}
    BY <2>1 DEF IsNode, Shape, Fields
  <2>3. AddDDToNode(r, d, n) = q
    BY ONLY <1>1, <2>2 DEF AddDDToNode
  <2>4. q.dd = r.dd
    BY <2>2
  <2>5. /\ DOMAIN x = DOMAIN r.node[n] /\ x.entity = r.node[n].entity
        /\ x.dds = r.node[n].dds \cup {d}
    BY ONLY <2>2
  <2> HIDE DEF x
  <2>6. IsNode(x) /\ x.entity = r.node[n].entity
    BY <2>2, <2>5 DEF IsNode
  <2>7. SameNodes(r, q)
    BY <1>1, <2>6, NodeChanged
  <2> QED BY <2>3, <2>4, <2>7
<1>2. CASE n \notin DOMAIN r.node
  BY <1>2, SameNodesSelf DEF AddDDToNode
<1> QED BY <1>1, <1>2

\* A handler that leaves the nodes and the entities as they are.
LEMMA OthersChanged ==
  ASSUME NEW r, Shape(r), NEW q,
         DOMAIN q = DOMAIN r, q.entity = r.entity, q.node = r.node,
         DOMAIN q.dd \subseteq DDs
  PROVE  SameNodes(r, q)
BY DEF SameNodes, Shape

LEMMA AddDDMemberSame ==
  ASSUME NEW r, Shape(r), NEW d, NEW n, NEW enabled \in BOOLEAN
  PROVE  /\ SameNodes(r, AddDDMember(r, d, n, enabled))
         /\ DOMAIN AddDDMember(r, d, n, enabled).dd = DOMAIN r.dd
         /\ AddDDMember(r, d, n, enabled).node = r.node
         /\ \A x \in DOMAIN r.dd \ {d} :
              AddDDMember(r, d, n, enabled).dd[x] = r.dd[x]
<1> DEFINE q == AddDDMember(r, d, n, enabled)
           new == [name |-> n, enabled |-> enabled]
           idx == Put(r.idx, n, IF n \in DOMAIN r.idx THEN r.idx[n] + 1 ELSE 1)
           dd == [r.dd EXCEPT ![d].members = Append(@, new)]
           t == [r EXCEPT !.idx = idx, !.dd = dd]
<1>1. DOMAIN r = {"entity", "node", "idx", "dd", "dds"}
      /\ DOMAIN r.dd \subseteq DDs
  BY DEF Shape, Fields
<1>2. q = r \/ q = t
  BY <1>1 DEF AddDDMember
<1>3. DOMAIN dd = DOMAIN r.dd /\ \A x \in DOMAIN r.dd \ {d} : dd[x] = r.dd[x]
  OBVIOUS
<1> HIDE DEF q, idx, dd
<1>4. /\ DOMAIN t = DOMAIN r /\ t.dd = dd
      /\ t.entity = r.entity /\ t.node = r.node
  BY <1>1
<1> HIDE DEF t
<1>5. SameNodes(r, t)
  BY <1>1, <1>3, <1>4, OthersChanged
<1>6. SameNodes(r, r)
  BY SameNodesSelf
<1>7. /\ SameNodes(r, q) /\ DOMAIN q.dd = DOMAIN r.dd /\ q.node = r.node
      /\ \A x \in DOMAIN r.dd \ {d} : q.dd[x] = r.dd[x]
  BY <1>2, <1>3, <1>4, <1>5, <1>6
<1> QED BY <1>7 DEF q

LEMMA JoinDDSame ==
  ASSUME NEW r, Shape(r), NEW d \in DOMAIN r.dd, NEW n
  PROVE  SameNodes(r, JoinDD(r, d, n))
<1> DEFINE q == AddDDToNode(r, d, n)
           t == AddDDMember(q, d, n, n \in DOMAIN r.node)
<1>1. d \in DDs
  BY DEF Shape
<1>2. SameNodes(r, q)
  BY <1>1, AddDDToNodeSame
<1>3. Shape(q)
  BY <1>2, SameNodesShape
<1> HIDE DEF q
<1>4. SameNodes(q, t)
  <2>1. (n \in DOMAIN r.node) \in BOOLEAN
    OBVIOUS
  <2> QED BY <1>3, <2>1, AddDDMemberSame
<1>5. JoinDD(r, d, n) = t
  BY DEF JoinDD, q
<1> HIDE DEF t
<1> QED BY <1>2, <1>4, <1>5, SameNodesTwice

LEMMA RegisterDDSame ==
  ASSUME NEW r, Shape(r), NEW m \in DDRequests
  PROVE  SameNodes(r, RegisterDD(r, m))
<1> DEFINE d        == m.dd
           exists   == d \in DOMAIN r.dd
           new      == [sym |-> IF m.sym = NoSym THEN m.auto ELSE NoSym,
                        active |-> FALSE, members |-> <<>>, dds |-> <<>>]
           start    == IF exists THEN r ELSE [r EXCEPT !.dd = Put(@, d, new)]
           unknown  == m.member # <<>> /\ ~AttrKnown(r, m.member[1])
           early    == m.member # <<>> /\ ~m.member[1].byIdx
           joined   == IF m.member = <<>> \/ unknown THEN start
                       ELSE JoinDD(start, d, AttrName(m.member[1]))
           conflict == /\ NameRead(m) \notin {NoSym, start.dd[d].sym}
                       /\ DDSymTaken(r, d, NameRead(m))
           undone   == [joined EXCEPT !.dd = r.dd]
           renamed  == [joined EXCEPT !.dd[d].sym = NameRead(m)]
<1>1. d \in DDs /\ DOMAIN r = {"entity", "node", "idx", "dd", "dds"}
      /\ DOMAIN r.dd \subseteq DDs
  BY DEF DDRequests, Shape, Fields
<1>2. SameNodes(r, r)
  BY SameNodesSelf
<1>3. SameNodes(r, start) /\ d \in DOMAIN start.dd
  <2> DEFINE t == [r EXCEPT !.dd = Put(@, d, new)]
  <2> HIDE DEF new
  <2>1. /\ DOMAIN t = DOMAIN r /\ t.entity = r.entity /\ t.node = r.node
        /\ t.dd = Put(r.dd, d, new)
    BY <1>1
  <2>2. DOMAIN Put(r.dd, d, new) = DOMAIN r.dd \cup {d}
    BY DEF Put
  <2> HIDE DEF t
  <2>3. DOMAIN t.dd \subseteq DDs /\ d \in DOMAIN t.dd
    BY <1>1, <2>1, <2>2
  <2>4. SameNodes(r, t)
    BY <2>1, <2>3, OthersChanged
  <2>5. start = IF exists THEN r ELSE t
    BY DEF t
  <2> HIDE DEF start
  <2> QED BY <1>2, <2>3, <2>4, <2>5
<1> HIDE DEF start, d, unknown
<1>4. SameNodes(r, joined)
  <2>1. Shape(start)
    BY <1>3, SameNodesShape
  <2>2. SameNodes(start, JoinDD(start, d, AttrName(m.member[1])))
    BY <1>3, <2>1, JoinDDSame
  <2> QED BY <1>3, <2>2, SameNodesTwice
<1> HIDE DEF joined
<1>5. Shape(joined) /\ DOMAIN joined = {"entity", "node", "idx", "dd", "dds"}
      /\ DOMAIN joined.dd \subseteq DDs
  BY <1>4, SameNodesShape DEF SameNodes, Fields
<1>6. SameNodes(r, undone)
  <2>1. /\ DOMAIN undone = DOMAIN joined /\ undone.entity = joined.entity
        /\ undone.node = joined.node /\ undone.dd = r.dd
    BY <1>5
  <2> HIDE DEF undone
  <2>2. SameNodes(joined, undone)
    BY <1>1, <1>5, <2>1, OthersChanged
  <2> QED BY <1>4, <2>2, SameNodesTwice
<1>7. SameNodes(r, renamed)
  <2>1. /\ DOMAIN renamed = DOMAIN joined /\ renamed.entity = joined.entity
        /\ renamed.node = joined.node /\ DOMAIN renamed.dd = DOMAIN joined.dd
    BY <1>5
  <2> HIDE DEF renamed
  <2>2. SameNodes(joined, renamed)
    BY <1>5, <2>1, OthersChanged
  <2> QED BY <1>4, <2>2, SameNodesTwice
<1>8. RegisterDD(r, m) \in {r, joined, undone, renamed}
  BY DEF RegisterDD, start, joined, d, unknown
<1> HIDE DEF undone, renamed
<1> QED BY <1>2, <1>4, <1>6, <1>7, <1>8

\* A node loses a DD and keeps the others.
LEMMA RemoveDDFromNodeSame ==
  ASSUME NEW r, Shape(r), NEW d, NEW n
  PROVE  /\ SameNodes(r, RemoveDDFromNode(r, d, n))
         /\ RemoveDDFromNode(r, d, n).dd = r.dd
<1>1. CASE n \in DOMAIN r.node /\ d \in r.node[n].dds
  <2> DEFINE rest == r.node[n].dds \ {d}
             x == [r.node[n] EXCEPT !.dds = rest,
                     !.active = @ /\ \E y \in rest \cap DOMAIN r.dd :
                                       r.dd[y].active]
             q == [r EXCEPT !.node = [@ EXCEPT ![n] = x]]
  <2>1. IsNode(r.node[n])
    BY <1>1 DEF Shape
  <2>2. /\ DOMAIN r.node[n] = {"entity", "active", "dds"}
        /\ r.node[n].entity \in Entities /\ r.node[n].dds \subseteq DDs
        /\ DOMAIN r = {"entity", "node", "idx", "dd", "dds"}
    BY <2>1 DEF IsNode, Shape, Fields
  <2>3. RemoveDDFromNode(r, d, n) = q
    BY ONLY <1>1, <2>2 DEF RemoveDDFromNode
  <2>4. q.dd = r.dd
    BY <2>2
  <2> HIDE DEF rest
  <2>5. /\ DOMAIN x = DOMAIN r.node[n] /\ x.entity = r.node[n].entity
        /\ x.dds = rest
    BY ONLY <2>2
  <2>6. rest \subseteq DDs
    BY <2>2 DEF rest
  <2> HIDE DEF x
  <2>7. IsNode(x) /\ x.entity = r.node[n].entity
    BY <2>2, <2>5, <2>6 DEF IsNode
  <2>8. SameNodes(r, q)
    BY <1>1, <2>7, NodeChanged
  <2> QED BY <2>3, <2>4, <2>8
<1>2. CASE ~(n \in DOMAIN r.node /\ d \in r.node[n].dds)
  BY <1>2, SameNodesSelf DEF RemoveDDFromNode
<1> QED BY <1>1, <1>2

LEMMA RemoveDDMemberSame ==
  ASSUME NEW r, Shape(r), NEW d, NEW n
  PROVE  SameNodes(r, RemoveDDMember(r, d, n))
<1> DEFINE idx == ReleaseIdx(r, {n})
           dd == [r.dd EXCEPT ![d].members =
                    RemoveAt(@, CHOOSE i \in DOMAIN @ : @[i].name = n)]
           t == [r EXCEPT !.dd = dd, !.idx = idx]
<1>1. DOMAIN r = {"entity", "node", "idx", "dd", "dds"}
      /\ DOMAIN r.dd \subseteq DDs
  BY DEF Shape, Fields
<1>2. RemoveDDMember(r, d, n) \in {r, t}
  BY <1>1 DEF RemoveDDMember
<1>3. DOMAIN dd = DOMAIN r.dd
  OBVIOUS
<1> HIDE DEF idx, dd
<1>4. /\ DOMAIN t = DOMAIN r /\ t.dd = dd
      /\ t.entity = r.entity /\ t.node = r.node
  BY <1>1
<1> HIDE DEF t
<1>5. SameNodes(r, t)
  BY <1>1, <1>3, <1>4, OthersChanged
<1> QED BY <1>2, <1>5, SameNodesSelf

LEMMA DeregisterDDMemberSame ==
  ASSUME NEW r, Shape(r), NEW d, NEW a
  PROVE  SameNodes(r, DeregisterDDMember(r, d, a))
<1> DEFINE n == AttrName(a)
           q == RemoveDDFromNode(r, d, n)
           t == RemoveDDMember(q, d, n)
<1> HIDE DEF n
<1>1. SameNodes(r, q)
  BY RemoveDDFromNodeSame
<1>2. Shape(q)
  BY <1>1, SameNodesShape
<1> HIDE DEF q
<1>3. SameNodes(q, t)
  BY <1>2, RemoveDDMemberSame
<1>4. DeregisterDDMember(r, d, a) \in {r, t}
  BY DEF DeregisterDDMember, q, n
<1> HIDE DEF t
<1>5. SameNodes(r, t)
  BY <1>1, <1>3, SameNodesTwice
<1> QED BY <1>4, <1>5, SameNodesSelf

LEMMA DeregisterDDSame ==
  ASSUME NEW r, Shape(r), NEW d
  PROVE  SameNodes(r, DeregisterDD(r, d))
<1> DEFINE members == r.dd[d].members
           enabled == {members[i].name : i \in {k \in DOMAIN members :
                                                  members[k].enabled}}
           left    == StoredPrefix(r.dd[d].dds, r.dds)
           node    == [n \in DOMAIN r.node |->
                         IF n \in enabled THEN RemoveDDFromNode(r, d, n).node[n]
                         ELSE r.node[n]]
           idx     == ReleaseIdx(r, MemberNames(members))
           dds     == [s \in DOMAIN r.dds |->
                         IF s \in left
                         THEN [r.dds[s] EXCEPT !.dds = Without(@, d)]
                         ELSE r.dds[s]]
           dd      == IF Range(r.dd[d].dds) = left THEN Drop(r.dd, d)
                      ELSE [r.dd EXCEPT ![d].members = <<>>]
           t       == [r EXCEPT !.node = node, !.idx = idx,
                                !.dds = dds, !.dd = dd]
<1>1. /\ DOMAIN r = {"entity", "node", "idx", "dd", "dds"}
      /\ DOMAIN r.dd \subseteq DDs
      /\ \A n \in DOMAIN r.node : IsNode(r.node[n])
  BY DEF Shape, Fields
<1>2. DeregisterDD(r, d) \in {r, t}
  BY DEF DeregisterDD
<1>3. DOMAIN dd \subseteq DOMAIN r.dd
  BY DEF Drop
<1> HIDE DEF enabled, idx, dds, dd
<1>4. ASSUME NEW n \in DOMAIN r.node
      PROVE  IsNode(node[n]) /\ node[n].entity = r.node[n].entity
  <2>1. SameNodes(r, RemoveDDFromNode(r, d, n))
    BY RemoveDDFromNodeSame
  <2>2. /\ IsNode(RemoveDDFromNode(r, d, n).node[n])
        /\ RemoveDDFromNode(r, d, n).node[n].entity = r.node[n].entity
    BY <2>1 DEF SameNodes
  <2> QED BY <1>1, <2>2
<1>5. DOMAIN node = DOMAIN r.node
  OBVIOUS
<1> HIDE DEF node
<1>6. /\ DOMAIN t = DOMAIN r /\ t.dd = dd
      /\ t.entity = r.entity /\ t.node = node
  BY <1>1
<1> HIDE DEF t
<1>7. SameNodes(r, t)
  BY <1>1, <1>3, <1>4, <1>5, <1>6 DEF SameNodes, Fields
<1> QED BY <1>2, <1>7, SameNodesSelf

LEMMA DeregisterDDSMemberSame ==
  ASSUME NEW r, Shape(r), NEW s, NEW d
  PROVE  SameNodes(r, DeregisterDDSMember(r, s, d))
<1> DEFINE dds == [r.dds EXCEPT ![s].dds = Without(@, d)]
           dropped == [r EXCEPT !.dds = dds]
           active == r.dd[d].active /\ IsDDActive(r, d, {s})
           t == [dropped EXCEPT !.dd[d].dds = Without(@, s),
                                !.dd[d].active = @ /\ IsDDActive(r, d, {s})]
<1>1. DOMAIN r = {"entity", "node", "idx", "dd", "dds"}
      /\ DOMAIN r.dd \subseteq DDs
  BY DEF Shape, Fields
<1>2. DeregisterDDSMember(r, s, d) \in {r, dropped, t}
  BY <1>1 DEF DeregisterDDSMember
<1> HIDE DEF dds
<1>3. /\ DOMAIN dropped = DOMAIN r /\ dropped.dd = r.dd
      /\ dropped.entity = r.entity /\ dropped.node = r.node
  BY <1>1
<1> HIDE DEF dropped
<1>4. /\ DOMAIN t = DOMAIN r /\ DOMAIN t.dd = DOMAIN r.dd
      /\ t.entity = r.entity /\ t.node = r.node
  BY <1>1, <1>3
<1> HIDE DEF t
<1>5. SameNodes(r, dropped) /\ SameNodes(r, t)
  BY <1>1, <1>3, <1>4, OthersChanged
<1> QED BY <1>2, <1>5, SameNodesSelf

LEMMA AddDDSToDDSame ==
  ASSUME NEW r, Shape(r), NEW s, NEW d, NEW status
  PROVE  SameNodes(r, AddDDSToDD(r, s, d, status))
<1> DEFINE t == AddDDSToDD(r, s, d, status)
<1>1. DOMAIN r = {"entity", "node", "idx", "dd", "dds"}
      /\ DOMAIN r.dd \subseteq DDs
  BY DEF Shape, Fields
<1>2. /\ DOMAIN t = DOMAIN r /\ DOMAIN t.dd = DOMAIN r.dd
      /\ t.entity = r.entity /\ t.node = r.node
  BY <1>1 DEF AddDDSToDD
<1> HIDE DEF t
<1>3. SameNodes(r, t)
  BY <1>1, <1>2, OthersChanged
<1> QED BY <1>3 DEF t

\* A removed node has left the list of its entity too.
LEMMA RemoveNodeShape ==
  ASSUME NEW r, Shape(r), NEW n
  PROVE  /\ Shape(RemoveNode(r, n))
         /\ DOMAIN RemoveNode(r, n).node = DOMAIN r.node \ {n}
         /\ RemoveNode(r, n).dd = r.dd
<1>1. /\ DOMAIN r = {"entity", "node", "idx", "dd", "dds"}
      /\ r.entity \in [Entities -> [type : {"iscsi"}, nodes : SUBSET Names]]
      /\ DOMAIN r.node \subseteq Names
      /\ \A k \in DOMAIN r.node : IsNode(r.node[k])
      /\ DOMAIN r.dd \subseteq DDs
      /\ \A e \in Entities : \A k \in r.entity[e].nodes :
           k \in DOMAIN r.node /\ r.node[k].entity = e
  BY DEF Shape, Fields
<1>2. CASE n \in DOMAIN r.node
  <2> DEFINE h == r.node[n].entity
             entity == [r.entity EXCEPT ![h].nodes = @ \ {n}]
             idx == IF n \in DOMAIN r.idx /\ r.idx[n] = 0 THEN Drop(r.idx, n)
                    ELSE r.idx
             node == Drop(r.node, n)
             q == [r EXCEPT !.entity = entity, !.idx = idx, !.node = node]
  <2>1. h \in Entities
    BY <1>1, <1>2 DEF IsNode
  <2>2. RemoveNode(r, n) = q
    BY <1>1, <1>2, <2>1 DEF RemoveNode
  <2>3. DOMAIN node = DOMAIN r.node \ {n}
        /\ \A k \in DOMAIN node : node[k] = r.node[k]
    BY DEF Drop
  <2> HIDE DEF h
  <2>4. entity \in [Entities -> [type : {"iscsi"}, nodes : SUBSET Names]]
        /\ \A e \in Entities : entity[e].nodes =
             IF e = h THEN r.entity[e].nodes \ {n} ELSE r.entity[e].nodes
    <3> DEFINE x == [r.entity[h] EXCEPT !.nodes = @ \ {n}]
    <3>1. r.entity[h] \in [type : {"iscsi"}, nodes : SUBSET Names]
      BY <1>1, <2>1
    <3>2. x \in [type : {"iscsi"}, nodes : SUBSET Names]
          /\ x.nodes = r.entity[h].nodes \ {n}
      BY ONLY <3>1
    <3>3. entity = [r.entity EXCEPT ![h] = x]
      OBVIOUS
    <3> HIDE DEF x, entity
    <3> QED BY <1>1, <2>1, <3>2, <3>3
  <2>5. \A e \in Entities : \A k \in entity[e].nodes :
          k \in DOMAIN node /\ node[k].entity = e
    BY <1>1, <2>3, <2>4 DEF h
  <2> HIDE DEF entity, idx, node
  <2>6. /\ DOMAIN q = DOMAIN r /\ q.entity = entity /\ q.node = node
        /\ q.dd = r.dd
    BY <1>1
  <2> HIDE DEF q
  <2>7. Shape(q)
    BY <1>1, <2>3, <2>4, <2>5, <2>6 DEF Shape, Fields
  <2> QED BY <2>2, <2>3, <2>6, <2>7
<1>3. CASE n \notin DOMAIN r.node
  BY <1>3 DEF RemoveNode
<1> QED BY <1>2, <1>3

\* A node that knows no DD learns those that list it, or joins the default DD.
LEMMA ActivateMembershipIs ==
  ASSUME NEW r, Shape(r), NEW n \in DOMAIN r.node
  PROVE  /\ SameNodes(r, ActivateMembership(r, n))
         /\ r.node[n].dds = {} =>
              \/ DDsListing(ActivateMembership(r, n), n) = {}
              \/ DDsListing(ActivateMembership(r, n), n)
                   = ActivateMembership(r, n).node[n].dds
<1> DEFINE listing == DDsListing(r, n)
           default == {y \in DOMAIN r.dd : r.dd[y].sym = DefaultSym}
           d == CHOOSE y \in default : TRUE
           q == ActivateMembership(r, n)
<1>1. IsNode(r.node[n])
  BY DEF Shape
<1>2. /\ DOMAIN r.node[n] = {"entity", "active", "dds"}
      /\ r.node[n].entity \in Entities /\ r.node[n].dds \subseteq DDs
      /\ DOMAIN r = {"entity", "node", "idx", "dd", "dds"}
      /\ DOMAIN r.dd \subseteq DDs
  BY <1>1 DEF IsNode, Shape, Fields
<1>3. CASE listing # {}
  <2> DEFINE x == [r.node[n] EXCEPT !.dds = @ \cup listing,
                     !.active = @ \/ \E y \in listing : r.dd[y].active]
             t == [r EXCEPT !.node = [@ EXCEPT ![n] = x]]
  <2>1. q = t
    BY ONLY <1>2, <1>3, n \in DOMAIN r.node DEF ActivateMembership
  <2>2. listing \subseteq DOMAIN r.dd
    BY DEF DDsListing
  <2> HIDE DEF listing
  <2>3. /\ DOMAIN x = DOMAIN r.node[n] /\ x.entity = r.node[n].entity
        /\ x.dds = r.node[n].dds \cup listing
    BY ONLY <1>2
  <2> HIDE DEF x
  <2>4. IsNode(x)
    BY <1>2, <2>2, <2>3 DEF IsNode
  <2>5. SameNodes(r, t)
    BY <2>3, <2>4, NodeChanged
  <2>6. t.dd = r.dd /\ t.node[n] = x
    BY <1>2
  <2>7. DDsListing(t, n) = listing
    BY <2>6 DEF DDsListing, listing
  <2> HIDE DEF t, q
  <2>8. /\ SameNodes(r, q)
        /\ r.node[n].dds = {} => DDsListing(q, n) = q.node[n].dds
    BY <2>1, <2>3, <2>5, <2>6, <2>7
  <2> QED BY <2>8 DEF q
<1>4. CASE listing = {} /\ default = {}
  <2> DEFINE x == [r.node[n] EXCEPT !.active = TRUE]
             t == [r EXCEPT !.node = [@ EXCEPT ![n] = x]]
  <2>1. q = t
    BY <1>2, <1>4 DEF ActivateMembership
  <2>2. /\ DOMAIN x = DOMAIN r.node[n] /\ x.entity = r.node[n].entity
        /\ x.dds = r.node[n].dds
    BY ONLY <1>2
  <2> HIDE DEF x
  <2>3. IsNode(x)
    BY <1>2, <2>2 DEF IsNode
  <2>4. SameNodes(r, t)
    BY <2>2, <2>3, NodeChanged
  <2>5. t.dd = r.dd
    BY <1>2
  <2>6. DDsListing(t, n) = {}
    BY <1>4, <2>5 DEF DDsListing
  <2> HIDE DEF t, q
  <2> QED BY <2>1, <2>4, <2>6 DEF q
<1>5. CASE listing = {} /\ default # {}
  <2> DEFINE a == AddDDMember(r, d, n, TRUE)
             x == [a.node[n] EXCEPT !.dds = @ \cup {d}, !.active = TRUE]
             t == [a EXCEPT !.node = [@ EXCEPT ![n] = x]]
  <2>1. d \in DOMAIN r.dd
    BY <1>5
  <2> HIDE DEF d
  <2>2. /\ SameNodes(r, a) /\ DOMAIN a.dd = DOMAIN r.dd /\ a.node = r.node
        /\ \A y \in DOMAIN r.dd \ {d} : a.dd[y] = r.dd[y]
    <3>1. ASSUME NEW enabled \in BOOLEAN
          PROVE  /\ SameNodes(r, AddDDMember(r, d, n, enabled))
                 /\ DOMAIN AddDDMember(r, d, n, enabled).dd = DOMAIN r.dd
                 /\ AddDDMember(r, d, n, enabled).node = r.node
                 /\ \A y \in DOMAIN r.dd \ {d} :
                      AddDDMember(r, d, n, enabled).dd[y] = r.dd[y]
      BY AddDDMemberSame
    <3> QED BY <3>1
  <2>3. Shape(a) /\ DOMAIN a = {"entity", "node", "idx", "dd", "dds"}
    BY <2>2, SameNodesShape DEF SameNodes, Fields
  <2>4. q = [a EXCEPT !.node[n].dds = @ \cup {d}, !.node[n].active = TRUE]
    BY <1>5 DEF ActivateMembership, d
  <2> HIDE DEF a
  <2>5. q = t
    <3> HIDE DEF q
    <3> QED BY <1>2, <2>2, <2>3, <2>4
  <2>6. /\ DOMAIN x = DOMAIN r.node[n] /\ x.entity = r.node[n].entity
        /\ x.dds = r.node[n].dds \cup {d}
    BY ONLY <1>2, <2>2
  <2> HIDE DEF x
  <2>7. IsNode(x)
    BY <1>2, <2>1, <2>6 DEF IsNode
  <2>8. SameNodes(a, t)
    BY <2>2, <2>3, <2>6, <2>7, NodeChanged
  <2>9. t.dd = a.dd /\ t.node[n] = x
    BY <2>2, <2>3
  <2>10. \A y \in DOMAIN r.dd : n \notin MemberNames(r.dd[y].members)
    BY <1>5 DEF DDsListing
  <2>11. DDsListing(t, n) \subseteq {d}
    BY <2>2, <2>9, <2>10 DEF DDsListing
  <2> HIDE DEF t, q
  <2>12. SameNodes(r, q)
    BY <2>2, <2>5, <2>8, SameNodesTwice
  <2>13. r.node[n].dds = {} =>
           DDsListing(q, n) = {} \/ DDsListing(q, n) = q.node[n].dds
    BY <2>5, <2>6, <2>9, <2>11
  <2> QED BY <2>12, <2>13 DEF q
<1> QED BY <1>3, <1>4, <1>5

\* A registration adds at most the node itself; a node that is new knows the
\* DDs that list it and no other, or is listed nowhere.
LEMMA RegisterNodeIs ==
  ASSUME NEW r, Shape(r), NEW n \in Names, NEW e \in Entities,
         NEW replace \in BOOLEAN
  PROVE  /\ Shape(RegisterNode(r, n, e, replace))
         /\ DOMAIN RegisterNode(r, n, e, replace).node = DOMAIN r.node \cup {n}
         /\ replace \/ n \notin DOMAIN r.node =>
              \/ DDsListing(RegisterNode(r, n, e, replace), n) = {}
              \/ DDsListing(RegisterNode(r, n, e, replace), n)
                   = RegisterNode(r, n, e, replace).node[n].dds
<1> DEFINE q == RegisterNode(r, n, e, replace)
<1>1. CASE n \in DOMAIN r.node /\ ~replace
  <2>1. q = ActivateMembership(r, n)
    BY <1>1 DEF RegisterNode
  <2>2. SameNodes(r, ActivateMembership(r, n))
    BY <1>1, ActivateMembershipIs
  <2> HIDE DEF q
  <2>3. Shape(q) /\ DOMAIN q.node = DOMAIN r.node
    BY <2>1, <2>2, SameNodesShape DEF SameNodes
  <2> QED BY <1>1, <2>3 DEF q
<1>2. CASE ~(n \in DOMAIN r.node /\ ~replace)
  <2> DEFINE before  == IF replace THEN RemoveNode(r, n) ELSE r
             indexed == IF n \in DOMAIN before.idx THEN before
                        ELSE [before EXCEPT !.idx = Put(@, n, 0)]
             fresh   == [entity |-> e, active |-> FALSE, dds |-> {}]
             entity  == [indexed.entity EXCEPT ![e].nodes = @ \cup {n}]
             node    == Put(indexed.node, n, fresh)
             stored  == [indexed EXCEPT !.entity = entity, !.node = node]
  <2>1. e \in DOMAIN r.entity /\ r.entity[e].type = "iscsi"
    BY DEF Shape
  <2>2. q = ActivateMembership(
              [indexed EXCEPT !.entity[e].nodes = @ \cup {n},
                              !.node = Put(@, n, fresh)], n)
    BY <1>2, <2>1 DEF RegisterNode
  <2>3. /\ Shape(before) /\ DOMAIN before.node = DOMAIN r.node \ {n}
        /\ before.dd = r.dd
    BY <1>2, RemoveNodeShape
  <2> HIDE DEF before
  <2>4. /\ DOMAIN before = {"entity", "node", "idx", "dd", "dds"}
        /\ before.entity \in [Entities -> [type : {"iscsi"}, nodes : SUBSET Names]]
        /\ DOMAIN before.node \subseteq Names
        /\ \A k \in DOMAIN before.node : IsNode(before.node[k])
        /\ DOMAIN before.dd \subseteq DDs
        /\ \A f \in Entities : \A k \in before.entity[f].nodes :
             k \in DOMAIN before.node /\ before.node[k].entity = f
    BY <2>3 DEF Shape, Fields
  <2>5. /\ DOMAIN indexed = DOMAIN before /\ indexed.entity = before.entity
        /\ indexed.node = before.node /\ indexed.dd = before.dd
    BY <2>4
  <2> HIDE DEF q, indexed
  <2>6. q = ActivateMembership(stored, n)
    BY <2>2, <2>4, <2>5
  <2>7. entity \in [Entities -> [type : {"iscsi"}, nodes : SUBSET Names]]
        /\ \A f \in Entities : entity[f].nodes =
             IF f = e THEN before.entity[f].nodes \cup {n}
             ELSE before.entity[f].nodes
    <3> DEFINE x == [before.entity[e] EXCEPT !.nodes = @ \cup {n}]
    <3>1. before.entity[e] \in [type : {"iscsi"}, nodes : SUBSET Names]
      BY <2>4
    <3>2. x \in [type : {"iscsi"}, nodes : SUBSET Names]
          /\ x.nodes = before.entity[e].nodes \cup {n}
      BY ONLY <3>1, n \in Names
    <3>3. entity = [before.entity EXCEPT ![e] = x]
      BY <2>5
    <3> HIDE DEF x, entity
    <3> QED BY <2>4, <3>2, <3>3
  <2>8. DOMAIN node = DOMAIN r.node \cup {n} /\ node[n] = fresh
        /\ \A k \in DOMAIN before.node : k # n => node[k] = before.node[k]
    BY <2>3, <2>5 DEF Put
  <2>9. IsNode(fresh) /\ fresh.entity = e /\ fresh.dds = {}
    BY DEF IsNode
  <2> HIDE DEF entity, node, fresh
  <2>10. \A k \in DOMAIN node : IsNode(node[k])
    BY <2>3, <2>4, <2>8, <2>9
  <2>11. \A f \in Entities : \A k \in entity[f].nodes :
           k \in DOMAIN node /\ node[k].entity = f
    <3> SUFFICES ASSUME NEW f \in Entities, NEW k \in entity[f].nodes
                 PROVE  k \in DOMAIN node /\ node[k].entity = f
      OBVIOUS
    <3>1. CASE k \in before.entity[f].nodes
      BY <3>1, <2>3, <2>4, <2>8
    <3>2. CASE k \notin before.entity[f].nodes
      <4>1. f = e /\ k = n
        BY <3>2, <2>7
      <4> QED BY <4>1, <2>8, <2>9
    <3> QED BY <3>1, <3>2
  <2>12. /\ DOMAIN stored = DOMAIN before /\ stored.entity = entity
         /\ stored.node = node /\ stored.dd = before.dd
    BY <2>4, <2>5
  <2> HIDE DEF stored
  <2>13. Shape(stored)
    <3>1. DOMAIN node \subseteq Names
      BY <2>8 DEF Shape
    <3> QED BY <3>1, <2>4, <2>7, <2>10, <2>11, <2>12 DEF Shape, Fields
  <2>14. n \in DOMAIN stored.node /\ stored.node[n].dds = {}
    BY <2>8, <2>9, <2>12
  <2>15. /\ SameNodes(stored, q)
         /\ DDsListing(q, n) = {} \/ DDsListing(q, n) = q.node[n].dds
    BY <2>6, <2>13, <2>14, ActivateMembershipIs
  <2>16. Shape(q) /\ DOMAIN q.node = DOMAIN r.node \cup {n}
    BY <2>8, <2>12, <2>13, <2>15, SameNodesShape DEF SameNodes
  <2> QED BY <2>15, <2>16 DEF q
<1> QED BY <1>1, <1>2


(***************************************************************************)
(* Who is told.                                                            *)
(***************************************************************************)

\* A member that the walk finds is in an active DD of the list, is registered
\* and is not the node itself.
LEMMA ReceiversIn ==
  ASSUME NEW r, NEW ds \in Seq(DDs), NEW n, NEW m \in Receivers(r, ds, n)
  PROVE  /\ m \in DOMAIN r.node /\ m # n
         /\ \E d \in Range(ds) \cap DOMAIN r.dd :
              r.dd[d].active /\ m \in MemberNames(r.dd[d].members)
<1> DEFINE walked == Walked(r, ds)
           stops == {p \in walked : NameAt(r, ds, p) \notin DOMAIN r.node \cup {n}}
<1>1. Len(ds) \in Nat /\ DOMAIN ds = 1..Len(ds)
  BY LenProperties
<1>2. m # n /\ \E p \in walked \ stops : NameAt(r, ds, p) = m
  BY DEF Receivers
<1>3. PICK p \in walked \ stops : NameAt(r, ds, p) = m
  BY <1>2
<1>4. m \in DOMAIN r.node
  BY <1>2, <1>3
<1>5. PICK i \in DOMAIN ds :
        /\ \A h \in 1..i : ds[h] \in DOMAIN r.dd
        /\ r.dd[ds[i]].active
        /\ \E k \in DOMAIN r.dd[ds[i]].members : p = <<i, k>>
  BY <1>3 DEF Walked
<1>6. i \in 1..i
  BY <1>1
<1>7. ds[i] \in Range(ds) \cap DOMAIN r.dd
  BY <1>5, <1>6 DEF Range
<1>8. m \in MemberNames(r.dd[ds[i]].members)
  BY <1>3, <1>5 DEF NameAt, MemberNames
<1> QED BY <1>2, <1>4, <1>5, <1>7, <1>8

\* When every member of the node's DDs is registered the walk misses none.
LEMMA ReceiversAll ==
  ASSUME NEW r, NEW ds \in Seq(DDs), NEW n, Range(ds) \subseteq DOMAIN r.dd,
         \A d \in Range(ds) : MemberNames(r.dd[d].members) \subseteq DOMAIN r.node,
         NEW d \in Range(ds), r.dd[d].active,
         NEW m \in MemberNames(r.dd[d].members), m # n
  PROVE  m \in Receivers(r, ds, n)
<1> DEFINE walked == Walked(r, ds)
           stops == {p \in walked : NameAt(r, ds, p) \notin DOMAIN r.node \cup {n}}
<1>1. Len(ds) \in Nat /\ DOMAIN ds = 1..Len(ds)
  BY LenProperties
<1>2. PICK i \in DOMAIN ds : ds[i] = d
  BY DEF Range
<1>3. \A h \in 1..i : ds[h] \in DOMAIN r.dd
  BY <1>1, <1>2 DEF Range
<1>4. PICK k \in DOMAIN r.dd[d].members : r.dd[d].members[k].name = m
  BY DEF MemberNames
<1>5. <<i, k>> \in walked /\ NameAt(r, ds, <<i, k>>) = m
  <2>1. <<i, k>> \in walked
    BY <1>2, <1>3, <1>4 DEF Walked
  <2>2. <<i, k>>[1] = i /\ <<i, k>>[2] = k
    OBVIOUS
  <2>3. NameAt(r, ds, <<i, k>>) = r.dd[ds[i]].members[k].name
    BY <2>2 DEF NameAt
  <2> QED BY <1>2, <1>4, <2>1, <2>3
<1>6. stops = {}
  <2> SUFFICES ASSUME NEW p \in walked
               PROVE  NameAt(r, ds, p) \in DOMAIN r.node
    OBVIOUS
  <2>1. PICK j \in DOMAIN ds : \E l \in DOMAIN r.dd[ds[j]].members : p = <<j, l>>
    BY DEF Walked
  <2>2. ds[j] \in Range(ds)
    BY DEF Range
  <2>3. NameAt(r, ds, p) \in MemberNames(r.dd[ds[j]].members)
    BY <2>1 DEF NameAt, MemberNames
  <2> QED BY <2>2, <2>3
<1> HIDE DEF walked, stops
<1>7. m \in {NameAt(r, ds, p) :
               p \in {q \in walked \ stops : \A s \in stops : ~Before(s, q)}}
  BY <1>5, <1>6
<1> QED BY <1>7 DEF Receivers, walked, stops

\* What a notification does: some subscriptions are lost, and who is told is a
\* receiver that asks for the event on an open connection, all of them.
LEMMA NotifyIs ==
  ASSUME NEW x, DOMAIN x = {"scn", "owner", "told"},
         NEW r, NEW ds, NEW n, NEW event
  PROVE  LET y == Notify(x, r, ds, n, event)
             Client(m) == x.owner[x.scn[m].fd]
         IN /\ DOMAIN y = DOMAIN x /\ y.owner = x.owner
            /\ DOMAIN y.scn = DOMAIN x.scn
            /\ \A m \in DOMAIN x.scn :
                 y.scn[m] \in {x.scn[m], [x.scn[m] EXCEPT !.events = {}]}
            /\ x.told \subseteq y.told
            /\ \A t \in y.told \ x.told : \E m \in Receivers(r, ds, n) :
                 /\ event \in x.scn[m].events /\ Client(m) # Nobody
                 /\ t = <<Client(m), m, n, event>>
            /\ \A m \in Receivers(r, ds, n) :
                 event \in x.scn[m].events /\ Client(m) # Nobody =>
                   <<Client(m), m, n, event>> \in y.told
<1> DEFINE Client(m) == x.owner[x.scn[m].fd]
           asking == {m \in Receivers(r, ds, n) : event \in x.scn[m].events}
           lost == {m \in asking : Client(m) = Nobody}
           f == [m \in DOMAIN x.scn |->
                   IF m \in lost THEN [x.scn[m] EXCEPT !.events = {}]
                   ELSE x.scn[m]]
           new == {<<Client(m), m, n, event>> : m \in asking \ lost}
           y == [x EXCEPT !.scn = f, !.told = @ \cup new]
<1>1. Notify(x, r, ds, n, event) = y
  BY DEF Notify
<1>2. DOMAIN f = DOMAIN x.scn
      /\ \A m \in DOMAIN x.scn :
           f[m] \in {x.scn[m], [x.scn[m] EXCEPT !.events = {}]}
  OBVIOUS
<1>3. \A t \in new : \E m \in Receivers(r, ds, n) :
        /\ event \in x.scn[m].events /\ Client(m) # Nobody
        /\ t = <<Client(m), m, n, event>>
  OBVIOUS
<1>4. \A m \in Receivers(r, ds, n) :
        event \in x.scn[m].events /\ Client(m) # Nobody =>
          <<Client(m), m, n, event>> \in new
  OBVIOUS
<1> HIDE DEF f, new, Client
<1>5. /\ DOMAIN y = DOMAIN x /\ y.owner = x.owner /\ y.scn = f
      /\ y.told = x.told \cup new
  OBVIOUS
<1> HIDE DEF y
<1>6. /\ x.told \subseteq y.told /\ y.told \ x.told \subseteq new
      /\ new \subseteq y.told
  BY <1>5
<1>7. \A t \in y.told \ x.told : \E m \in Receivers(r, ds, n) :
        /\ event \in x.scn[m].events /\ Client(m) # Nobody
        /\ t = <<Client(m), m, n, event>>
  BY <1>3, <1>6
<1>8. \A m \in Receivers(r, ds, n) :
        event \in x.scn[m].events /\ Client(m) # Nobody =>
          <<Client(m), m, n, event>> \in y.told
  BY <1>4, <1>6
<1> QED BY <1>1, <1>2, <1>5, <1>6, <1>7, <1>8 DEF Client

Subscription(y) ==
  /\ y \in [events : SUBSET Events, fd : FDs \cup {0}]
  /\ y.events # {} => y.fd # 0

\* What a handler has sent so far, on behalf of the node n: the others have the
\* subscriptions they had, or have lost them.
Sending(x, r, n) ==
  /\ DOMAIN x = {"scn", "owner", "told"}
  /\ x.owner = owner
  /\ DOMAIN r.node \subseteq DOMAIN x.scn
  /\ \A m \in DOMAIN x.scn : Subscription(x.scn[m])
  /\ \A m \in DOMAIN x.scn \ {n} :
       /\ m \in DOMAIN scn
       /\ x.scn[m].fd = scn[m].fd /\ x.scn[m].events \subseteq scn[m].events
  /\ \A t \in x.told : Rightly(t, r)

LEMMA LostSubscription ==
  ASSUME NEW y, Subscription(y)
  PROVE  /\ Subscription([y EXCEPT !.events = {}])
         /\ [y EXCEPT !.events = {}].fd = y.fd
         /\ [y EXCEPT !.events = {}].events = {}
BY DEF Subscription

LEMMA NotifyRightly ==
  ASSUME TypeOK, NEW r, Shape(r), NEW n \in DOMAIN r.node, NEW event \in Events,
         NEW ds \in Seq(DDs), Range(ds) \subseteq r.node[n].dds,
         NEW x, Sending(x, r, n)
  PROVE  Sending(Notify(x, r, ds, n, event), r, n)
<1> DEFINE y == Notify(x, r, ds, n, event)
           Client(m) == x.owner[x.scn[m].fd]
<1>1. DOMAIN x = {"scn", "owner", "told"}
  BY DEF Sending
<1>2. /\ DOMAIN y = DOMAIN x /\ y.owner = x.owner
      /\ DOMAIN y.scn = DOMAIN x.scn
      /\ \A m \in DOMAIN x.scn :
           y.scn[m] \in {x.scn[m], [x.scn[m] EXCEPT !.events = {}]}
      /\ \A t \in y.told \ x.told : \E m \in Receivers(r, ds, n) :
           /\ event \in x.scn[m].events /\ Client(m) # Nobody
           /\ t = <<Client(m), m, n, event>>
  BY <1>1, NotifyIs
<1> HIDE DEF y
<1>3. /\ x.owner = owner /\ DOMAIN r.node \subseteq DOMAIN x.scn
      /\ \A m \in DOMAIN x.scn : Subscription(x.scn[m])
      /\ \A m \in DOMAIN x.scn \ {n} :
           /\ m \in DOMAIN scn
           /\ x.scn[m].fd = scn[m].fd /\ x.scn[m].events \subseteq scn[m].events
      /\ \A t \in x.told : Rightly(t, r)
  BY DEF Sending
<1>4. ASSUME NEW m \in DOMAIN x.scn
      PROVE  /\ Subscription(y.scn[m]) /\ y.scn[m].fd = x.scn[m].fd
             /\ y.scn[m].events \subseteq x.scn[m].events
  <2> DEFINE z == [x.scn[m] EXCEPT !.events = {}]
  <2>1. Subscription(x.scn[m])
    BY <1>3
  <2>2. Subscription(z) /\ z.fd = x.scn[m].fd /\ z.events = {}
    BY <2>1, LostSubscription
  <2>3. y.scn[m] = x.scn[m] \/ y.scn[m] = z
    BY <1>2
  <2> HIDE DEF z
  <2> QED BY <2>1, <2>2, <2>3
<1>5. ASSUME NEW t \in y.told
      PROVE  Rightly(t, r)
  <2>1. CASE t \in x.told
    BY <2>1, <1>3
  <2>2. CASE t \notin x.told
    <3>1. PICK m \in Receivers(r, ds, n) :
            /\ event \in x.scn[m].events /\ Client(m) # Nobody
            /\ t = <<Client(m), m, n, event>>
      BY <2>2, <1>2
    <3>2. /\ m \in DOMAIN r.node /\ m # n
          /\ \E d \in Range(ds) \cap DOMAIN r.dd :
               r.dd[d].active /\ m \in MemberNames(r.dd[d].members)
      BY ReceiversIn
    <3>3. /\ m \in DOMAIN scn /\ x.scn[m].fd = scn[m].fd
          /\ x.scn[m].events \subseteq scn[m].events
          /\ Subscription(x.scn[m])
      BY <3>2, <1>3
    <3>4. x.scn[m].fd \in FDs
      BY <3>1, <3>3 DEF Subscription
    <3>5. Client(m) = owner[scn[m].fd] /\ Client(m) \in Clients
      BY <3>1, <3>3, <3>4, <1>3 DEF TypeOK
    <3>6. m \in Names /\ n \in Names
      BY <3>2 DEF Shape
    <3>7. Shares(r, n, m)
      BY <3>2 DEF Shares
    <3> HIDE DEF Client
    <3>8. t \in Clients \X Names \X Names \X Events
      BY <3>1, <3>5, <3>6
    <3>9. t[1] = Client(m) /\ t[2] = m /\ t[3] = n /\ t[4] = event
      BY <3>1
    <3>10. event \in scn[m].events
      BY <3>1, <3>3
    <3> QED BY <3>2, <3>3, <3>5, <3>7, <3>8, <3>9, <3>10 DEF Rightly
  <2> QED BY <2>1, <2>2
<1>6. \A m \in DOMAIN y.scn : Subscription(y.scn[m])
  BY <1>2, <1>4
<1>7. \A m \in DOMAIN y.scn \ {n} :
        /\ m \in DOMAIN scn
        /\ y.scn[m].fd = scn[m].fd /\ y.scn[m].events \subseteq scn[m].events
  BY <1>2, <1>3, <1>4
<1>8. Sending(y, r, n)
  BY <1>1, <1>2, <1>3, <1>5, <1>6, <1>7 DEF Sending
<1> QED BY <1>8 DEF y


\* A node without DDs tells nobody.
LEMMA NotifyNobody ==
  ASSUME NEW x, DOMAIN x = {"scn", "owner", "told"}, x.told = {},
         NEW r, NEW n, NEW event
  PROVE  Notify(x, r, <<>>, n, event).told = {}
<1>1. <<>> \in Seq(DDs) /\ Range(<<>>) = {}
  BY EmptySeq DEF Range
<1>2. Receivers(r, <<>>, n) = {}
  BY <1>1, ReceiversIn
<1> QED BY <1>2, NotifyIs

\* The lists of DDs are lists.
Lists == \A n \in DOMAIN db.node : order[n] \in Seq(DDs)

\* The inductive invariant: what a step needs of the tables and of the lists.
ScnInv == TypeOK /\ Lists /\ Shape(db)

LEMMA NowSending ==
  ASSUME ScnInv, NEW r, DOMAIN r.node \subseteq DOMAIN db.node, NEW n
  PROVE  Sending(Now, r, n)
<1>1. /\ DOMAIN Now = {"scn", "owner", "told"}
      /\ Now.scn = scn /\ Now.owner = owner /\ Now.told = {}
  BY DEF Now
<1>2. DOMAIN scn = DOMAIN db.node /\ \A m \in DOMAIN scn : Subscription(scn[m])
  BY DEF ScnInv, TypeOK, Subscription
<1> QED BY <1>1, <1>2 DEF Sending

\* Sending depends on which nodes there are, their DDs, and the DDs.
LEMMA SendingSame ==
  ASSUME NEW r, NEW q, DOMAIN q.node = DOMAIN r.node, q.dd = r.dd,
         \A n \in DOMAIN r.node : q.node[n].dds = r.node[n].dds,
         NEW x, NEW n, Sending(x, r, n)
  PROVE  Sending(x, q, n)
<1>1. ASSUME NEW t, Rightly(t, r)
      PROVE  Rightly(t, q)
  BY <1>1 DEF Rightly, Shares
<1> QED BY <1>1 DEF Sending

LEMMA NotifyOfRightly ==
  ASSUME ScnInv, NEW S \in SUBSET DOMAIN db.node, NEW event \in Events, NEW n
  PROVE  Sending(NotifyOf(Now, db, S, event), db, n)
<1> DEFINE part(k) == Notify(Now, db, order[k], k, event)
           parts == {part(k) : k \in S}
           f == [m \in DOMAIN scn |->
                   IF \E p \in parts : p.scn[m] # scn[m]
                   THEN [scn[m] EXCEPT !.events = {}] ELSE scn[m]]
           all == UNION {p.told : p \in parts}
           y == [Now EXCEPT !.scn = f, !.told = all]
<1>1. /\ DOMAIN Now = {"scn", "owner", "told"}
      /\ Now.scn = scn /\ Now.owner = owner /\ Now.told = {}
  BY DEF Now
<1>2. NotifyOf(Now, db, S, event) = y
  BY <1>1 DEF NotifyOf
<1>3. TypeOK /\ Lists /\ Shape(db)
  BY DEF ScnInv
<1>4. DOMAIN scn = DOMAIN db.node /\ \A m \in DOMAIN scn : Subscription(scn[m])
  BY <1>3 DEF TypeOK, Subscription
<1>5. ASSUME NEW k \in S
      PROVE  \A t \in part(k).told : Rightly(t, db)
  <2>1. k \in DOMAIN db.node
    OBVIOUS
  <2>2. order[k] \in Seq(DDs) /\ Range(order[k]) \subseteq db.node[k].dds
    BY <1>3, <2>1 DEF Lists, TypeOK
  <2>3. Sending(Now, db, k)
    BY NowSending
  <2>4. Sending(part(k), db, k)
    BY <1>3, <2>1, <2>2, <2>3, NotifyRightly
  <2> QED BY <2>4 DEF Sending
<1> HIDE DEF part
<1>6. \A t \in all : Rightly(t, db)
  BY <1>5
<1>7. ASSUME NEW m \in DOMAIN scn
      PROVE  /\ Subscription(f[m]) /\ f[m].fd = scn[m].fd
             /\ f[m].events \subseteq scn[m].events
  <2> DEFINE z == [scn[m] EXCEPT !.events = {}]
  <2>1. Subscription(z) /\ z.fd = scn[m].fd /\ z.events = {}
    BY <1>4, LostSubscription
  <2>2. f[m] = scn[m] \/ f[m] = z
    OBVIOUS
  <2> HIDE DEF z, f
  <2> QED BY <1>4, <2>1, <2>2
<1>8. DOMAIN f = DOMAIN scn
  OBVIOUS
<1> HIDE DEF f, all
<1>9. DOMAIN y = {"scn", "owner", "told"} /\ y.scn = f /\ y.owner = owner
      /\ y.told = all
  BY <1>1
<1> HIDE DEF y
<1>10. Sending(y, db, n)
  BY <1>4, <1>6, <1>7, <1>8, <1>9 DEF Sending
<1> QED BY <1>2, <1>10

(***************************************************************************)
(* Steps.                                                                  *)
(***************************************************************************)

\* The tables after a step, and the list of DDs of each node.
LEMMA SetTablesIs ==
  ASSUME ScnInv, NEW r, Shape(r), NEW fresh, SetTables(r, fresh)
  PROVE  /\ Shape(db') /\ DOMAIN db'.node = DOMAIN r.node /\ db'.dd = r.dd
         /\ \A n \in DOMAIN r.node : db'.node[n].dds = r.node[n].dds
         /\ DOMAIN order' = DOMAIN r.node
         /\ \A n \in DOMAIN r.node :
              /\ order'[n] = Relist(IF n \in DOMAIN order \ fresh THEN order[n]
                                    ELSE <<>>, r.node[n].dds)
              /\ order'[n] \in Seq(DDs) /\ IsInjective(order'[n])
              /\ Range(order'[n]) = r.node[n].dds
<1> DEFINE node == [n \in DOMAIN r.node |-> [r.node[n] EXCEPT !.active = FALSE]]
           q == [r EXCEPT !.node = node]
<1>1. /\ DOMAIN r = {"entity", "node", "idx", "dd", "dds"}
      /\ \A n \in DOMAIN r.node : IsNode(r.node[n])
      /\ DOMAIN r.dd \subseteq DDs
  BY DEF Shape, Fields
<1>2. db' = q
  BY DEF SetTables
<1>3. DOMAIN node = DOMAIN r.node
  OBVIOUS
<1>4. ASSUME NEW n \in DOMAIN r.node
      PROVE  /\ IsNode(node[n]) /\ node[n].entity = r.node[n].entity
             /\ node[n].dds = r.node[n].dds
  <2>1. /\ DOMAIN r.node[n] = {"entity", "active", "dds"}
        /\ r.node[n].entity \in Entities /\ r.node[n].dds \subseteq DDs
    BY <1>1 DEF IsNode
  <2> DEFINE x == [r.node[n] EXCEPT !.active = FALSE]
  <2>2. /\ DOMAIN x = DOMAIN r.node[n] /\ x.entity = r.node[n].entity
        /\ x.dds = r.node[n].dds
    BY ONLY <2>1
  <2>3. node[n] = x
    OBVIOUS
  <2> HIDE DEF x, node
  <2> QED BY <2>1, <2>2, <2>3 DEF IsNode
<1> HIDE DEF node
<1>5. /\ DOMAIN q = DOMAIN r /\ q.node = node /\ q.entity = r.entity
      /\ q.dd = r.dd
  BY <1>1
<1> HIDE DEF q
<1>6. SameNodes(r, q)
  BY <1>1, <1>3, <1>4, <1>5 DEF SameNodes, Fields
<1>7. Shape(q)
  BY <1>6, SameNodesShape
<1>8. /\ Shape(db') /\ DOMAIN db'.node = DOMAIN r.node /\ db'.dd = r.dd
      /\ \A n \in DOMAIN r.node : db'.node[n].dds = r.node[n].dds
  BY <1>2, <1>3, <1>4, <1>5, <1>7
<1>9. /\ DOMAIN order' = DOMAIN r.node
      /\ \A n \in DOMAIN r.node :
           order'[n] = Relist(IF n \in DOMAIN order \ fresh THEN order[n]
                              ELSE <<>>, r.node[n].dds)
  BY DEF SetTables
<1>10. ASSUME NEW n \in DOMAIN r.node
       PROVE  /\ order'[n] \in Seq(DDs) /\ IsInjective(order'[n])
              /\ Range(order'[n]) = r.node[n].dds
  <2> DEFINE old == IF n \in DOMAIN order \ fresh THEN order[n] ELSE <<>>
  <2>1. <<>> \in Seq(DDs) /\ IsInjective(<<>>)
    BY EmptySeq DEF IsInjective
  <2>2. n \in DOMAIN order => order[n] \in Seq(DDs) /\ IsInjective(order[n])
    BY DEF ScnInv, TypeOK, Lists
  <2>3. old \in Seq(DDs) /\ IsInjective(old)
    BY <2>1, <2>2
  <2>4. r.node[n].dds \in SUBSET DDs
    BY <1>1 DEF IsNode
  <2>5. DDs \in SUBSET Nat /\ IsFiniteSet(DDs)
    BY IdAssumption
  <2>6. order'[n] = Relist(old, r.node[n].dds)
    BY <1>9
  <2> HIDE DEF old
  <2> QED BY <2>3, <2>4, <2>5, <2>6, RelistIs
<1> QED BY <1>8, <1>9, <1>10

\* A step that sets the tables and sends keeps the invariant, and sends rightly.
LEMMA SentRightly ==
  ASSUME ScnInv, NEW r, Shape(r), NEW fresh, SetTables(r, fresh),
         NEW x, NEW n, Sending(x, r, n), SetSent(x)
  PROVE  ScnInv' /\ \A t \in told' : Rightly(t, db')
<1>1. /\ Shape(db') /\ DOMAIN db'.node = DOMAIN r.node /\ db'.dd = r.dd
      /\ \A k \in DOMAIN r.node : db'.node[k].dds = r.node[k].dds
      /\ DOMAIN order' = DOMAIN r.node
      /\ \A k \in DOMAIN r.node :
           /\ order'[k] \in Seq(DDs) /\ IsInjective(order'[k])
           /\ Range(order'[k]) = r.node[k].dds
  BY SetTablesIs
<1>2. Sending(x, db', n)
  BY <1>1, SendingSame
<1>3. /\ \A m \in DOMAIN x.scn : Subscription(x.scn[m])
      /\ \A t \in x.told : Rightly(t, db')
  BY <1>2 DEF Sending
<1>4. /\ scn' = [m \in DOMAIN db'.node |->
                   IF m \in DOMAIN x.scn THEN x.scn[m] ELSE Nothing]
      /\ told' = x.told /\ owner' = owner
  BY DEF SetSent
<1>5. Subscription(Nothing)
  BY DEF Subscription, Nothing
<1>6. DOMAIN scn' = DOMAIN db'.node
      /\ \A m \in DOMAIN db'.node : Subscription(scn'[m])
  BY <1>3, <1>4, <1>5
<1>7. \A t \in told' : Rightly(t, db')
  BY <1>3, <1>4
<1>8. told' \subseteq Clients \X Names \X Names \X Events
  BY <1>7 DEF Rightly
<1>9. owner' \in [FDs -> Clients \cup {Nobody}]
  BY <1>4 DEF ScnInv, TypeOK
<1>10. TypeOK'
  BY <1>1, <1>6, <1>8, <1>9 DEF TypeOK, Subscription
<1>11. Lists' /\ Shape(db)'
  BY <1>1 DEF Lists
<1> QED BY <1>7, <1>10, <1>11 DEF ScnInv


LEMMA RegNodeRightly ==
  ASSUME ScnInv, RegNode
  PROVE  ScnInv' /\ \A t \in told' : Rightly(t, db')
<1>1. PICK n \in Names, e \in DOMAIN db.entity, f \in FDs,
           replace \in BOOLEAN, changed \in BOOLEAN,
           bits \in {{}} \cup {{b} : b \in Bitmaps} :
             RegNodeOf(n, e, f, replace, changed, bits)
  BY DEF RegNode
<1> DEFINE new   == replace \/ n \notin DOMAIN db.node
           after == RegisterNode(db, n, e, replace)
           ds    == Relist(IF new THEN <<>> ELSE order[n], after.node[n].dds)
           had   == IF new THEN Nothing ELSE scn[n]
           has   == [events |-> IF bits = {} THEN had.events
                                ELSE CHOOSE b \in bits : TRUE,
                     fd     |-> IF bits = {} THEN had.fd ELSE f]
           start == [Now EXCEPT !.scn = [m \in DOMAIN after.node |->
                                           IF m = n THEN has ELSE @[m]]]
           first == IF DDsListing(db, n) # {}
                    THEN Notify(start, after, ds, n, "added") ELSE start
           last  == IF new THEN Notify(first, after, ds, n, "added")
                    ELSE IF changed THEN Notify(first, after, ds, n, "updated")
                    ELSE first
<1>2. TypeOK /\ Lists /\ Shape(db)
  BY DEF ScnInv
<1>3. e \in Entities
  BY <1>2 DEF Shape
<1>4. Shape(after) /\ DOMAIN after.node = DOMAIN db.node \cup {n}
  BY <1>2, <1>3, RegisterNodeIs
<1>5. DOMAIN scn = DOMAIN db.node /\ DOMAIN order = DOMAIN db.node
      /\ \A m \in DOMAIN scn : Subscription(scn[m])
  BY <1>2 DEF TypeOK, Subscription
<1>6. ~new => n \in DOMAIN db.node
  OBVIOUS
<1>0. SetTables(after, IF new THEN {n} ELSE {}) /\ SetSent(last)
  BY <1>1 DEF RegNodeOf
<1> HIDE DEF new, after
<1>7. Subscription(has)
  <2>1. Subscription(had)
    BY <1>5, <1>6 DEF Subscription, Nothing
  <2>2. CASE bits = {}
    <3>1. has = [events |-> had.events, fd |-> had.fd]
      BY <2>2
    <3> HIDE DEF had, has
    <3> QED BY <2>1, <3>1 DEF Subscription
  <2>3. CASE bits # {}
    <3>1. PICK b \in Bitmaps : bits = {b}
      BY <2>3
    <3>2. has = [events |-> b, fd |-> f]
      BY <2>3, <3>1
    <3>3. b \subseteq Events /\ f \in FDs /\ f # 0
      BY ScnAssumption
    <3> HIDE DEF has
    <3> QED BY <3>2, <3>3 DEF Subscription
  <2> QED BY <2>2, <2>3
<1> HIDE DEF has
<1>8. Sending(start, after, n)
  <2>1. /\ DOMAIN Now = {"scn", "owner", "told"}
        /\ Now.scn = scn /\ Now.owner = owner /\ Now.told = {}
    BY DEF Now
  <2>2. /\ DOMAIN start = {"scn", "owner", "told"}
        /\ start.owner = owner /\ start.told = {}
        /\ start.scn = [m \in DOMAIN after.node |->
                          IF m = n THEN has ELSE scn[m]]
    BY <2>1
  <2> HIDE DEF start
  <2>3. DOMAIN start.scn = DOMAIN after.node
        /\ \A m \in DOMAIN after.node :
             start.scn[m] = IF m = n THEN has ELSE scn[m]
    BY <2>2
  <2> QED BY <1>4, <1>5, <1>7, <2>2, <2>3 DEF Sending
<1> HIDE DEF start
<1>9. SetTables(after, IF new THEN {n} ELSE {}) /\ SetSent(last)
  BY <1>0
<1>10. ds \in Seq(DDs) /\ Range(ds) \subseteq after.node[n].dds
  <2>1. n \in DOMAIN after.node
    BY <1>4
  <2> DEFINE fresh == IF new THEN {n} ELSE {}
             old == IF n \in DOMAIN order \ fresh THEN order[n] ELSE <<>>
  <2>2. /\ order'[n] = Relist(old, after.node[n].dds)
        /\ order'[n] \in Seq(DDs) /\ Range(order'[n]) = after.node[n].dds
    BY <1>4, <1>9, <2>1, SetTablesIs
  <2>3. old = IF new THEN <<>> ELSE order[n]
    BY <1>5, <1>6
  <2>4. ds = order'[n]
    BY <2>2, <2>3
  <2> HIDE DEF ds
  <2> QED BY <2>2, <2>4
<1> HIDE DEF ds
<1>11. n \in DOMAIN after.node /\ {"added", "updated"} \subseteq Events
  BY <1>4 DEF Events
<1>12. ASSUME NEW x, Sending(x, after, n), NEW event \in {"added", "updated"}
       PROVE  Sending(Notify(x, after, ds, n, event), after, n)
  BY <1>2, <1>4, <1>10, <1>11, <1>12, NotifyRightly
<1>13. Sending(first, after, n)
  BY <1>8, <1>12
<1> HIDE DEF first
<1>14. Sending(last, after, n)
  BY <1>12, <1>13
<1> HIDE DEF last
<1> QED BY <1>4, <1>9, <1>14, SentRightly

LEMMA DeregNodeRightly ==
  ASSUME ScnInv, DeregNode
  PROVE  ScnInv' /\ \A t \in told' : Rightly(t, db')
<1>1. PICK n \in DOMAIN db.node :
        /\ SetTables(RemoveNode(db, n), {})
        /\ SetSent(Notify(Now, db, <<>>, n, "removed"))
  BY DEF DeregNode
<1> DEFINE q == RemoveNode(db, n)
           x == Notify(Now, db, <<>>, n, "removed")
<1>2. TypeOK /\ Shape(db)
  BY DEF ScnInv
<1>3. Shape(q) /\ DOMAIN q.node = DOMAIN db.node \ {n}
  BY <1>2, RemoveNodeShape
<1>4. <<>> \in Seq(DDs) /\ Range(<<>>) = {}
  BY EmptySeq DEF Range
<1>5. Sending(Now, db, n)
  BY NowSending
<1>6. Sending(x, db, n)
  <2>1. "removed" \in Events /\ Range(<<>>) \subseteq db.node[n].dds
    BY <1>4 DEF Events
  <2> HIDE DEF x
  <2> QED BY <1>2, <1>4, <1>5, <2>1, NotifyRightly DEF x
<1>7. x.told = {}
  <2>1. DOMAIN Now = {"scn", "owner", "told"} /\ Now.told = {}
    BY DEF Now
  <2> QED BY <2>1, NotifyNobody
<1> HIDE DEF x, q
<1>8. Sending(x, q, n)
  BY <1>3, <1>6, <1>7 DEF Sending
<1> QED BY <1>1, <1>3, <1>8, SentRightly DEF q, x

\* A handler of domains that tells of one node, on the tables and lists after.
LEMMA TellRightly ==
  ASSUME ScnInv, NEW r, SameNodes(db, r), SetTables(r, {}),
         NEW n, NEW event \in Events,
         \/ SetSent(Now)
         \/ n \in DOMAIN db.node /\ SetSent(Notify(Now, r, order'[n], n, event))
         \/ n \in DOMAIN db.node /\ SetSent(Notify(Now, db', order'[n], n, event))
  PROVE  ScnInv' /\ \A t \in told' : Rightly(t, db')
<1>1. Shape(r) /\ DOMAIN r.node = DOMAIN db.node
  BY SameNodesShape DEF ScnInv, SameNodes
<1>2. /\ Shape(db') /\ DOMAIN db'.node = DOMAIN r.node /\ db'.dd = r.dd
      /\ \A k \in DOMAIN r.node : db'.node[k].dds = r.node[k].dds
      /\ \A k \in DOMAIN r.node :
           order'[k] \in Seq(DDs) /\ Range(order'[k]) = r.node[k].dds
  BY <1>1, SetTablesIs
<1>3. Sending(Now, r, n) /\ Sending(Now, db', n)
  BY <1>1, <1>2, NowSending
<1>4. CASE SetSent(Now)
  BY <1>1, <1>3, <1>4, SentRightly
<1>5. CASE n \in DOMAIN db.node /\ SetSent(Notify(Now, r, order'[n], n, event))
  <2>1. Sending(Notify(Now, r, order'[n], n, event), r, n)
    BY <1>1, <1>2, <1>3, <1>5, NotifyRightly DEF ScnInv
  <2> QED BY <1>1, <1>5, <2>1, SentRightly
<1>6. CASE n \in DOMAIN db.node /\ SetSent(Notify(Now, db', order'[n], n, event))
  <2>1. Sending(Notify(Now, db', order'[n], n, event), db', n)
    BY <1>1, <1>2, <1>3, <1>6, NotifyRightly DEF ScnInv
  <2>2. Sending(Notify(Now, db', order'[n], n, event), r, n)
    BY <1>2, <2>1, SendingSame
  <2> QED BY <1>1, <1>6, <2>2, SentRightly
<1> QED BY <1>4, <1>5, <1>6

LEMMA DomainStepRightly ==
  ASSUME ScnInv, RegDD \/ DeregDDMember \/ DeregDD \/ ChangeDDS
  PROVE  ScnInv' /\ \A t \in told' : Rightly(t, db')
<1>1. Shape(db) /\ {"added", "removed"} \subseteq Events
  BY DEF ScnInv, Events
<1>2. CASE RegDD
  <2>1. PICK m \in ScnDDReqs :
          LET n == AttrName(m.member[1])
          IN /\ SetTables(RegisterDD(db, m), {})
             /\ \/ SetSent(Now)
                \/ /\ n \in DOMAIN db.node
                   /\ SetSent(Notify(Now, RegisterDD(db, m), order'[n], n,
                                     "added"))
    BY <1>2 DEF RegDD
  <2>2. m \in DDRequests
    BY ScnAssumption
  <2>3. SameNodes(db, RegisterDD(db, m))
    BY <1>1, <2>2, RegisterDDSame
  <2> QED BY <1>1, <2>1, <2>3, TellRightly
<1>3. CASE DeregDDMember
  <2>1. PICK d \in DOMAIN db.dd, a \in MemberAttrs :
          LET n == AttrName(a)
          IN /\ SetTables(DeregisterDDMember(db, d, a), {})
             /\ \/ SetSent(Now)
                \/ /\ n \in DOMAIN db.node
                   /\ SetSent(Notify(Now, db', order'[n], n, "removed"))
    BY <1>3 DEF DeregDDMember
  <2>2. SameNodes(db, DeregisterDDMember(db, d, a))
    BY <1>1, DeregisterDDMemberSame
  <2> QED BY <1>1, <2>1, <2>2, TellRightly
<1>4. CASE DeregDD
  <2>1. PICK d \in DOMAIN db.dd :
          SetTables(DeregisterDD(db, d), {}) /\ SetSent(Now)
    BY <1>4 DEF DeregDD
  <2>2. SameNodes(db, DeregisterDD(db, d))
    BY <1>1, DeregisterDDSame
  <2> QED BY <1>1, <2>1, <2>2, TellRightly
<1>5. CASE ChangeDDS
  <2>1. PICK s \in DOMAIN db.dds, d \in DOMAIN db.dd :
          /\ \/ SetTables(AddDDSToDD(db, s, d, db.dds[s].status), {})
             \/ SetTables(DeregisterDDSMember(db, s, d), {})
          /\ SetSent(Now)
    BY <1>5 DEF ChangeDDS
  <2>2. /\ SameNodes(db, AddDDSToDD(db, s, d, db.dds[s].status))
        /\ SameNodes(db, DeregisterDDSMember(db, s, d))
    BY <1>1, AddDDSToDDSame, DeregisterDDSMemberSame
  <2> QED BY <1>1, <2>1, <2>2, TellRightly
<1> QED BY <1>2, <1>3, <1>4, <1>5

LEMMA ChangePortalRightly ==
  ASSUME ScnInv, ChangePortal
  PROVE  ScnInv' /\ \A t \in told' : Rightly(t, db')
<1>1. PICK e \in DOMAIN db.entity, event \in {"added", "removed"} :
        /\ SetTables(db, {})
        /\ SetSent(NotifyOf(Now, db, db.entity[e].nodes, event))
  BY DEF ChangePortal
<1>2. Shape(db) /\ event \in Events
  BY DEF ScnInv, Events
<1>3. db.entity[e].nodes \in SUBSET DOMAIN db.node
  BY <1>2 DEF Shape
<1>4. \A n : Sending(NotifyOf(Now, db, db.entity[e].nodes, event), db, n)
  BY <1>2, <1>3, NotifyOfRightly
<1> QED BY <1>1, <1>2, <1>4, SentRightly

\* The steps that change subscriptions and connections tell nobody.
LEMMA QuietStep ==
  ASSUME ScnInv, RegSCN \/ DeregSCN \/ Connect \/ Disconnect
  PROVE  ScnInv' /\ told' = {} /\ db' = db
<1>1. TypeOK /\ Lists /\ Shape(db)
  BY DEF ScnInv
<1>2. told' = {} /\ db' = db /\ order' = order
  BY DEF RegSCN, DeregSCN, Connect, Disconnect
<1>3. /\ DOMAIN order = DOMAIN db.node /\ DOMAIN scn = DOMAIN db.node
      /\ \A n \in DOMAIN db.node :
           /\ IsInjective(order[n]) /\ Range(order[n]) = db.node[n].dds
           /\ Subscription(scn[n])
      /\ owner \in [FDs -> Clients \cup {Nobody}]
  BY <1>1 DEF TypeOK, Subscription
<1>4. /\ DOMAIN scn' = DOMAIN db.node
      /\ \A n \in DOMAIN db.node : Subscription(scn'[n])
      /\ owner' \in [FDs -> Clients \cup {Nobody}]
  <2>1. CASE RegSCN
    <3>1. PICK n \in DOMAIN db.node, b \in Bitmaps, f \in FDs :
            scn' = [scn EXCEPT ![n] = [events |-> b, fd |-> f]]
      BY <2>1 DEF RegSCN
    <3>2. b \subseteq Events /\ f # 0
      BY ScnAssumption
    <3>3. Subscription([events |-> b, fd |-> f])
      BY <3>2 DEF Subscription
    <3>4. owner' = owner
      BY <2>1 DEF RegSCN
    <3> QED BY <1>3, <3>1, <3>3, <3>4
  <2>2. CASE DeregSCN
    <3>1. PICK n \in DOMAIN db.node : scn' = [scn EXCEPT ![n] = Nothing]
      BY <2>2 DEF DeregSCN
    <3>2. Subscription(Nothing)
      BY DEF Subscription, Nothing
    <3>3. owner' = owner
      BY <2>2 DEF DeregSCN
    <3> QED BY <1>3, <3>1, <3>2, <3>3
  <2>3. CASE Connect
    BY <2>3, <1>3 DEF Connect
  <2>4. CASE Disconnect
    BY <2>4, <1>3 DEF Disconnect
  <2> QED BY <2>1, <2>2, <2>3, <2>4
<1>5. TypeOK'
  BY <1>2, <1>3, <1>4 DEF TypeOK, Subscription
<1>6. Lists' /\ Shape(db)'
  BY <1>1, <1>2 DEF Lists
<1> QED BY <1>2, <1>5, <1>6 DEF ScnInv

LEMMA NextRightly ==
  ASSUME ScnInv, Next
  PROVE  ScnInv' /\ \A t \in told' : Rightly(t, db')
<1>1. CASE RegNode
  BY <1>1, RegNodeRightly
<1>2. CASE DeregNode
  BY <1>2, DeregNodeRightly
<1>3. CASE RegDD \/ DeregDDMember \/ DeregDD \/ ChangeDDS
  BY <1>3, DomainStepRightly
<1>4. CASE ChangePortal
  BY <1>4, ChangePortalRightly
<1>5. CASE RegSCN \/ DeregSCN \/ Connect \/ Disconnect
  BY <1>5, QuietStep
<1> QED BY <1>1, <1>2, <1>3, <1>4, <1>5 DEF Next


\* Types hold in the empty server, whose first identifiers are given out.
LEMMA InitInv ==
  ASSUME Init
  PROVE  ScnInv
<1> DEFINE d == Min(DDs)
           s == Min(DDSs)
           e == [f \in Entities |-> [type |-> "iscsi", nodes |-> {}]]
           dd == [x \in {d} |-> [sym |-> DefaultSym, active |-> TRUE,
                                members |-> <<>>, dds |-> <<s>>]]
           dds == [x \in {s} |-> [sym |-> DefaultDDSSym, status |-> TRUE,
                                 dds |-> <<d>>]]
<1>1. /\ db = [entity |-> e, node |-> <<>>, idx |-> <<>>, dd |-> dd, dds |-> dds]
      /\ order = <<>> /\ scn = <<>> /\ told = {}
      /\ owner = [f \in FDs |-> Nobody]
  BY DEF Init
<1>2. d \in DDs
  <2>1. DDs \in SUBSET Nat /\ IsFiniteSet(DDs) /\ DDs # {}
    BY IdAssumption, ScnAssumption
  <2>2. \E x \in DDs : \A y \in DDs : x <= y
    BY <2>1, Lowest
  <2> QED BY <2>2 DEF Min
<1>3. DOMAIN dd = {d}
  OBVIOUS
<1> HIDE DEF d, s, dd, dds
<1>4. /\ DOMAIN db = Fields /\ db.entity = e /\ db.node = <<>> /\ db.dd = dd
  BY <1>1 DEF Fields
<1>5. DOMAIN db.node = {}
  BY <1>4
<1>6. e \in [Entities -> [type : {"iscsi"}, nodes : SUBSET Names]]
      /\ \A f \in Entities : e[f].nodes = {}
  OBVIOUS
<1> HIDE DEF e
<1>7. Shape(db)
  BY <1>2, <1>3, <1>4, <1>5, <1>6 DEF Shape
<1>8. TypeOK
  BY <1>1, <1>5 DEF TypeOK
<1> QED BY <1>5, <1>7, <1>8 DEF ScnInv, Lists

\* The invariant holds throughout.
LEMMA ScnInvAlways == Spec => []ScnInv
<1>1. Init => ScnInv
  BY InitInv
<1>2. ScnInv /\ [Next]_vars => ScnInv'
  <2>1. ScnInv /\ Next => ScnInv'
    BY NextRightly
  <2>2. ScnInv /\ UNCHANGED vars => ScnInv'
    BY DEF ScnInv, TypeOK, Lists, Shape, IsNode, vars
  <2> QED BY <2>1, <2>2
<1> QED BY <1>1, <1>2, PTL DEF Spec

\* The list of DDs of each node has each of its DDs once, each node and no
\* other has a subscription, and what was told is a notification.
THEOREM ScnTypeCorrect == Spec => []TypeOK
<1>1. ScnInv => TypeOK
  BY DEF ScnInv
<1> QED BY <1>1, ScnInvAlways, PTL

\* Whatever the order of registrations, memberships, subscriptions and closed
\* connections, no node is told of one that shares no active DD with it.
THEOREM ToldRightlyAlways == Spec => ToldRightly
<1>1. ScnInv /\ [Next]_vars => [\A t \in told' : Rightly(t, db')]_vars
  BY NextRightly
<1> QED BY <1>1, ScnInvAlways, PTL DEF Spec, ToldRightly

(***************************************************************************)
(* New nodes.                                                              *)
(***************************************************************************)

\* Only the registration of a node adds one.
LEMMA NewNodeBy ==
  ASSUME ScnInv, [Next]_vars, NEW n \in DOMAIN db'.node \ DOMAIN db.node
  PROVE  RegNode
<1>1. TypeOK /\ Lists /\ Shape(db)
  BY DEF ScnInv
<1>2. ASSUME NEW r, NEW fresh, SetTables(r, fresh),
             DOMAIN r.node \subseteq DOMAIN db.node
      PROVE  FALSE
  <2>1. db' = [r EXCEPT !.node = [k \in DOMAIN @ |-> [@[k] EXCEPT !.active = FALSE]]]
    BY <1>2 DEF SetTables
  <2>2. DOMAIN db'.node \subseteq DOMAIN db.node
    BY <2>1, <1>2
  <2> QED BY <2>2
<1>3. ASSUME NEW r, NEW fresh, SetTables(r, fresh), SameNodes(db, r)
      PROVE  FALSE
  BY <1>2, <1>3 DEF SameNodes
<1>4. CASE DeregNode
  <2>1. PICK k \in DOMAIN db.node : SetTables(RemoveNode(db, k), {})
    BY <1>4 DEF DeregNode
  <2>2. DOMAIN RemoveNode(db, k).node \subseteq DOMAIN db.node
    BY <1>1, RemoveNodeShape
  <2> QED BY <1>2, <2>1, <2>2
<1>5. CASE RegDD
  <2>1. PICK m \in ScnDDReqs : SetTables(RegisterDD(db, m), {})
    BY <1>5 DEF RegDD
  <2>2. m \in DDRequests
    BY ScnAssumption
  <2> QED BY <1>1, <1>3, <2>1, <2>2, RegisterDDSame
<1>6. CASE DeregDDMember
  <2>1. PICK d \in DOMAIN db.dd, a \in MemberAttrs :
          SetTables(DeregisterDDMember(db, d, a), {})
    BY <1>6 DEF DeregDDMember
  <2> QED BY <1>1, <1>3, <2>1, DeregisterDDMemberSame
<1>7. CASE DeregDD
  <2>1. PICK d \in DOMAIN db.dd : SetTables(DeregisterDD(db, d), {})
    BY <1>7 DEF DeregDD
  <2> QED BY <1>1, <1>3, <2>1, DeregisterDDSame
<1>8. CASE ChangeDDS
  <2>1. PICK s \in DOMAIN db.dds, d \in DOMAIN db.dd :
          \/ SetTables(AddDDSToDD(db, s, d, db.dds[s].status), {})
          \/ SetTables(DeregisterDDSMember(db, s, d), {})
    BY <1>8 DEF ChangeDDS
  <2> QED BY <1>1, <1>3, <2>1, AddDDSToDDSame, DeregisterDDSMemberSame
<1>9. CASE ChangePortal
  <2>1. SetTables(db, {})
    BY <1>9 DEF ChangePortal
  <2> QED BY <1>2, <2>1
<1>10. CASE RegSCN \/ DeregSCN \/ Connect \/ Disconnect
  BY <1>10, QuietStep
<1>11. CASE UNCHANGED vars
  BY <1>11 DEF vars
<1> QED BY <1>4, <1>5, <1>6, <1>7, <1>8, <1>9, <1>10, <1>11 DEF Next

\* The registration of a new node tells every subscriber: the node knows all
\* the DDs that list it by then, and the walk meets no missing member.
LEMMA NewNodeTold ==
  ASSUME ScnInv, RegNode, NEW z \in DOMAIN db'.node \ DOMAIN db.node,
         AllRegistered(z)
  PROVE  Subscribers(z, "added") \subseteq ToldOf(z, "added")
<1>1. PICK n \in Names, e \in DOMAIN db.entity, f \in FDs,
           replace \in BOOLEAN, changed \in BOOLEAN,
           bits \in {{}} \cup {{b} : b \in Bitmaps} :
             RegNodeOf(n, e, f, replace, changed, bits)
  BY DEF RegNode
<1> DEFINE new   == replace \/ n \notin DOMAIN db.node
           after == RegisterNode(db, n, e, replace)
           ds    == Relist(IF new THEN <<>> ELSE order[n], after.node[n].dds)
           had   == IF new THEN Nothing ELSE scn[n]
           has   == [events |-> IF bits = {} THEN had.events
                                ELSE CHOOSE b \in bits : TRUE,
                     fd     |-> IF bits = {} THEN had.fd ELSE f]
           start == [Now EXCEPT !.scn = [m \in DOMAIN after.node |->
                                           IF m = n THEN has ELSE @[m]]]
           first == IF DDsListing(db, n) # {}
                    THEN Notify(start, after, ds, n, "added") ELSE start
           final == Notify(first, after, ds, n, "added")
<1>2. SetTables(after, IF new THEN {n} ELSE {}) /\ (new => SetSent(final))
  BY <1>1 DEF RegNodeOf
<1>3. TypeOK /\ Lists /\ Shape(db)
  BY DEF ScnInv
<1>4. e \in Entities
  BY <1>3 DEF Shape
<1>5. /\ Shape(after) /\ DOMAIN after.node = DOMAIN db.node \cup {n}
      /\ new => \/ DDsListing(after, n) = {}
                \/ DDsListing(after, n) = after.node[n].dds
  BY <1>3, <1>4, RegisterNodeIs
<1> HIDE DEF after
<1>6. /\ DOMAIN db'.node = DOMAIN after.node /\ db'.dd = after.dd
      /\ \A k \in DOMAIN after.node :
           /\ order'[k] = Relist(IF k \in DOMAIN order \ (IF new THEN {n} ELSE {})
                                 THEN order[k] ELSE <<>>, after.node[k].dds)
           /\ order'[k] \in Seq(DDs) /\ Range(order'[k]) = after.node[k].dds
  BY <1>2, <1>5, SetTablesIs
<1>7. z = n /\ n \notin DOMAIN db.node /\ new /\ n \in DOMAIN after.node
  BY <1>5, <1>6
<1>8. DOMAIN scn = DOMAIN db.node
  BY <1>3 DEF TypeOK
<1>9. ds \in Seq(DDs) /\ Range(ds) = after.node[n].dds
  <2>1. order'[n] = ds
    BY <1>6, <1>7
  <2> HIDE DEF ds
  <2> QED BY <1>6, <1>7, <2>1
<1> HIDE DEF ds, new, has, had
<1> SUFFICES ASSUME NEW m \in Subscribers(n, "added")
             PROVE  m \in ToldOf(n, "added")
  BY <1>7
<1>10. \A k : DDsListing(db', k) = DDsListing(after, k)
  BY <1>6 DEF DDsListing
<1>11. /\ m \in DOMAIN db.node /\ m # n
       /\ \E d \in DDsListing(db', n) \cap DDsListing(db', m) : db'.dd[d].active
       /\ "added" \in scn[m].events /\ owner[scn[m].fd] # Nobody
  BY DEF Subscribers
<1>12. PICK d \in DDsListing(after, n) \cap DDsListing(after, m) :
         after.dd[d].active
  BY <1>6, <1>10, <1>11
<1>13. DDsListing(after, n) = Range(ds)
  BY <1>5, <1>7, <1>9, <1>12
<1>14. \A x \in DDsListing(after, n) :
         /\ x \in DOMAIN after.dd
         /\ MemberNames(after.dd[x].members) \subseteq DOMAIN after.node
  BY <1>6, <1>7, <1>10 DEF AllRegistered, DDsListing
<1>15. m \in MemberNames(after.dd[d].members)
  BY <1>12 DEF DDsListing
<1>16. m \in Receivers(after, ds, n)
  <2>1. /\ Range(ds) \subseteq DOMAIN after.dd
        /\ \A x \in Range(ds) :
             MemberNames(after.dd[x].members) \subseteq DOMAIN after.node
    BY <1>13, <1>14
  <2>2. d \in Range(ds)
    BY <1>12, <1>13
  <2> QED BY <1>9, <1>11, <1>12, <1>15, <2>1, <2>2, ReceiversAll
<1>17. /\ DOMAIN start = {"scn", "owner", "told"}
       /\ start.owner = owner /\ start.scn[m] = scn[m]
  <2>1. /\ DOMAIN Now = {"scn", "owner", "told"}
        /\ Now.scn = scn /\ Now.owner = owner /\ Now.told = {}
    BY DEF Now
  <2>2. m \in DOMAIN after.node
    BY <1>5, <1>11
  <2> QED BY <1>11, <2>1, <2>2
<1> HIDE DEF start
<1> DEFINE t == <<owner[scn[m].fd], m, n, "added">>
           once == Notify(start, after, ds, n, "added")
<1>18. DOMAIN once = {"scn", "owner", "told"} /\ t \in once.told
  BY <1>11, <1>16, <1>17, NotifyIs
<1>19. t \in final.told
  <2>1. CASE DDsListing(db, n) # {}
    <3>1. first = once
      BY <2>1
    <3>2. first.told \subseteq final.told
      <4> HIDE DEF first
      <4>1. DOMAIN first = {"scn", "owner", "told"}
        BY <1>18, <3>1
      <4> QED BY <4>1, NotifyIs
    <3> HIDE DEF once, t, final
    <3> QED BY <1>18, <3>1, <3>2
  <2>2. CASE DDsListing(db, n) = {}
    <3>1. final = once
      BY <2>2
    <3> HIDE DEF once, t, final
    <3> QED BY <1>18, <3>1
  <2> QED BY <2>1, <2>2
<1> HIDE DEF final
<1>20. t \in told'
  BY <1>2, <1>7, <1>19 DEF SetSent
<1>21. t[2] = m /\ t[3] = n /\ t[4] = "added"
  OBVIOUS
<1> HIDE DEF t
<1> QED BY <1>20, <1>21 DEF ToldOf

\* A node that is registered is announced to every node that shares an active
\* DD with it and has asked for that, as long as no member of its DDs is missing.
THEOREM NewNodeAnnouncedAlways == Spec => NewNodeAnnounced
<1> DEFINE Announced ==
      \A n \in DOMAIN db'.node \ DOMAIN db.node :
        AllRegistered(n) => Subscribers(n, "added") \subseteq ToldOf(n, "added")
<1>1. ScnInv /\ [Next]_vars => [Announced]_vars
  BY NewNodeBy, NewNodeTold
<1> QED BY <1>1, ScnInvAlways, PTL DEF Spec, NewNodeAnnounced

=============================================================================
