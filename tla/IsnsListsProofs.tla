-------------------------- MODULE IsnsListsProofs --------------------------
(***************************************************************************)
(* Theorems about the lists and tables in memory, for any number of cells: *)
(* the pointers always form two queues, and for the handlers the lists are *)
(* those of IsnsChain.                                                     *)
(***************************************************************************)
EXTENDS IsnsLists, SequenceTheorems, FiniteSetTheorems, WellFoundedInduction,
        TLAPS

(***************************************************************************)
(* Induction.  A set of numbers has a least element: the intervals from 0  *)
(* to its members are subsets of a finite set, and the order of those is   *)
(* well founded.                                                           *)
(***************************************************************************)

LEMMA Least ==
  ASSUME NEW T, T \subseteq Nat, T # {}
  PROVE  \E x \in T : \A y \in T : x <= y
<1>1. PICK m \in T : TRUE
  OBVIOUS
<1> DEFINE S == 0 .. m
           U == {0 .. x : x \in {y \in T : y <= m}}
<1>2. IsFiniteSet(S)
  BY <1>1, FS_Interval
<1>3. IsWellFoundedOn(StrictSubsetOrdering(S), FiniteSubsetsOf(S))
  BY <1>2, FS_StrictSubsetOrderingWellFounded
<1>4. U \subseteq FiniteSubsetsOf(S) /\ U # {}
  <2>1. ASSUME NEW x \in T, x <= m
        PROVE  0 .. x \in FiniteSubsetsOf(S)
    BY <1>1, <2>1, FS_Interval DEF FiniteSubsetsOf
  <2> QED BY <1>1, <2>1
<1> HIDE DEF U
<1>5. \E u \in U : \A v \in U : ~(<<v, u>> \in StrictSubsetOrdering(S))
  BY <1>3, <1>4, WFMin
<1>6. PICK x \in T : x <= m /\ \A v \in U : ~(<<v, 0 .. x>> \in StrictSubsetOrdering(S))
  BY <1>5 DEF U
<1>7. ASSUME NEW y \in T, y < x
      PROVE  FALSE
  <2>1. x \in Nat /\ y \in Nat /\ m \in Nat /\ x <= m /\ y < x
    BY <1>1, <1>6, <1>7
  <2>2. 0 .. y \in U
    BY <2>1 DEF U
  <2>3. 0 .. y \subseteq 0 .. x /\ 0 .. x \subseteq S /\ x \in 0 .. x /\ x \notin 0 .. y
    BY <2>1
  <2>4. <<0 .. y, 0 .. x>> \in StrictSubsetOrdering(S)
    BY <2>3 DEF StrictSubsetOrdering
  <2> QED BY <1>6, <2>2, <2>4
<1>8. \A y \in T : x <= y
  BY <1>6, <1>7
<1> QED BY <1>6, <1>8

\* What holds of 0 and passes from each number to the next holds up to n.
LEMMA UpTo ==
  ASSUME NEW n \in Nat, NEW T, 0 \in T,
         \A i \in 0 .. n - 1 : i \in T => i + 1 \in T
  PROVE  0 .. n \subseteq T
<1> DEFINE F == {i \in 0 .. n : i \notin T}
<1>1. SUFFICES ASSUME F # {} PROVE FALSE
  OBVIOUS
<1>2. PICK m \in F : \A i \in F : m <= i
  <2>1. F \subseteq Nat
    OBVIOUS
  <2> HIDE DEF F
  <2> QED BY <1>1, <2>1, Least
<1>3. m \in 0 .. n /\ m \notin T /\ m # 0
  OBVIOUS
<1>4. m - 1 \in 0 .. n - 1 /\ m - 1 \in T
  BY <1>2, <1>3
<1> QED BY <1>3, <1>4

(***************************************************************************)
(* Following the pointers.                                                 *)
(***************************************************************************)

\* The i-th of the elements s, and what is before and behind them.
Nth(h, s, i) == IF i \in 1 .. Len(s) THEN s[i] ELSE h

\* The pointers dir lead from each of the cells s to the next and at last to h.
Leads(dir, h, s) ==
  \A i \in 1 .. Len(s) : dir[s[i]] = Nth(h, s, i + 1)

LEMMA CellsCount == Cardinality(Cells) \in Nat
BY CellsAssumption, FS_CardinalityType

LEMMA CountTo ==
  ASSUME NEW n \in Nat
  PROVE  IsFiniteSet(1 .. n) /\ Cardinality(1 .. n) = n
<1>1. /\ IsFiniteSet(1 .. n)
      /\ Cardinality(1 .. n) = IF 1 > n THEN 0 ELSE n - 1 + 1
  BY FS_Interval
<1>2. (IF 1 > n THEN 0 ELSE n - 1 + 1) = n
  OBVIOUS
<1> QED BY <1>1, <1>2

LEMMA SameLength ==
  ASSUME NEW m \in Nat, NEW n \in Nat, 1 .. m = 1 .. n
  PROVE  m = n
<1>1. Cardinality(1 .. m) = m /\ Cardinality(1 .. n) = n
  BY CountTo
<1> QED BY <1>1

LEMMA InjectiveLength ==
  ASSUME NEW s \in Seq(Cells), IsInjective(s)
  PROVE  /\ Len(s) \in Nat /\ DOMAIN s = 1 .. Len(s)
         /\ \A i \in 1 .. Len(s) : s[i] \in Cells
         /\ Len(s) <= Cardinality(Cells)
<1>1. /\ Len(s) \in Nat /\ DOMAIN s = 1 .. Len(s)
      /\ \A i \in 1 .. Len(s) : s[i] \in Cells
  BY LenProperties, ElementOfSeq
<1>2. s \in Injection(1 .. Len(s), Cells)
  <2>1. s \in [1 .. Len(s) -> Cells]
    BY <1>1, SeqDef
  <2> QED BY <1>1, <2>1 DEF Injection, IsInjective
<1>3. Cardinality(1 .. Len(s)) <= Cardinality(Cells)
  BY <1>2, CellsAssumption, FS_Injection
<1>4. Cardinality(1 .. Len(s)) = Len(s)
  BY <1>1, CountTo
<1> QED BY <1>1, <1>3, <1>4

LEMMA PathIs ==
  ASSUME NEW dir, NEW h, h \notin Cells, NEW s \in Seq(Cells), IsInjective(s),
         Leads(dir, h, s)
  PROVE  \A k \in 0 .. Cardinality(Cells) :
           Path(dir, Nth(h, s, 1))[k] = Nth(h, s, k + 1)
<1> DEFINE n == Cardinality(Cells)
           x == Nth(h, s, 1)
           Next1(f, k) == IF k = 0 THEN x
                          ELSE IF f[k - 1] \in Cells THEN dir[f[k - 1]] ELSE f[k - 1]
           Right(f) == f = [k \in 0 .. n |-> Next1(f, k)]
           g == [k \in 0 .. n |-> Nth(h, s, k + 1)]
           p == Path(dir, x)
<1>1. n \in Nat
  BY CellsCount
<1>2. /\ Len(s) \in Nat
      /\ \A i \in 1 .. Len(s) : s[i] \in Cells
  BY InjectiveLength
<1>3. \A k \in 1 .. n : /\ Nth(h, s, k) \in Cells => Nth(h, s, k + 1) = dir[Nth(h, s, k)]
                        /\ Nth(h, s, k) \notin Cells => Nth(h, s, k + 1) = Nth(h, s, k)
  <2> SUFFICES ASSUME NEW k \in 1 .. n
               PROVE  /\ Nth(h, s, k) \in Cells => Nth(h, s, k + 1) = dir[Nth(h, s, k)]
                      /\ Nth(h, s, k) \notin Cells => Nth(h, s, k + 1) = Nth(h, s, k)
    OBVIOUS
  <2>1. CASE k <= Len(s)
    <3>1. k \in 1 .. Len(s) /\ Nth(h, s, k) = s[k]
      BY <1>1, <1>2, <2>1 DEF Nth
    <3> QED BY <1>2, <3>1 DEF Leads
  <2>2. CASE k > Len(s)
    <3>1. Nth(h, s, k) = h /\ Nth(h, s, k + 1) = h
      BY <1>1, <1>2, <2>2 DEF Nth
    <3> QED BY <3>1
  <2> QED BY <1>1, <1>2, <2>1, <2>2
<1>4. Right(g)
  <2>1. ASSUME NEW k \in 0 .. n
        PROVE  g[k] = Next1(g, k)
    <3>1. CASE k = 0
      BY <1>1, <3>1
    <3>2. CASE k # 0
      <4>1. k \in 1 .. n /\ k - 1 \in 0 .. n /\ (k - 1) + 1 = k
        BY <1>1, <3>2
      <4>2. g[k - 1] = Nth(h, s, k) /\ g[k] = Nth(h, s, k + 1)
        BY <4>1
      <4> HIDE DEF g, x
      <4> QED BY <1>3, <3>2, <4>1, <4>2
    <3> QED BY <3>1, <3>2
  <2> QED BY <2>1
<1>5. p = CHOOSE f : Right(f)
  BY DEF Path
<1>6. Right(p)
  <2> HIDE DEF p, g, Right
  <2> QED BY <1>4, <1>5
<1> DEFINE T == {k \in 0 .. n : p[k] = g[k]}
<1>7. 0 \in T
  <2> HIDE DEF p
  <2> QED BY <1>1, <1>6
<1>8. ASSUME NEW k \in 0 .. n - 1, k \in T
      PROVE  k + 1 \in T
  <2>1. k + 1 \in 0 .. n /\ (k + 1) - 1 = k /\ k + 1 # 0
    BY <1>1
  <2>2. p[k] = g[k]
    BY <1>8
  <2>3. p[k + 1] = Next1(p, k + 1) /\ g[k + 1] = Next1(g, k + 1)
    <3> HIDE DEF p, g, Next1
    <3> QED BY <1>4, <1>6, <2>1
  <2> HIDE DEF p, g, x
  <2>4. Next1(p, k + 1) = Next1(g, k + 1)
    BY <2>1, <2>2
  <2> QED BY <2>1, <2>3, <2>4
<1>9. 0 .. n \subseteq T
  <2> HIDE DEF T
  <2> QED BY <1>1, <1>7, <1>8, UpTo
<1> QED BY <1>9

\* The cells that the pointers lead over are s.
LEMMA AlongIs ==
  ASSUME NEW dir, NEW h, h \notin Cells, NEW s \in Seq(Cells), IsInjective(s),
         Leads(dir, h, s)
  PROVE  Along(dir, Nth(h, s, 1)) = s
<1> DEFINE n   == Cardinality(Cells)
           p   == Path(dir, Nth(h, s, 1))
           met == {k \in 1 .. n : p[k - 1] \in Cells}
<1>1. n \in Nat
  BY CellsCount
<1>2. /\ Len(s) \in Nat /\ DOMAIN s = 1 .. Len(s) /\ Len(s) <= n
      /\ \A i \in 1 .. Len(s) : s[i] \in Cells
  BY InjectiveLength
<1>3. \A k \in 1 .. n : p[k - 1] = Nth(h, s, k)
  <2>1. \A k \in 0 .. n : p[k] = Nth(h, s, k + 1)
    BY PathIs
  <2> HIDE DEF p, n
  <2>2. \A k \in 1 .. n : k - 1 \in 0 .. n /\ (k - 1) + 1 = k
    BY <1>1
  <2> QED BY <2>1, <2>2
<1> HIDE DEF p
<1>4. met = 1 .. Len(s)
  BY <1>1, <1>2, <1>3 DEF Nth
<1>5. Cardinality(met) = Len(s)
  BY <1>2, <1>4, CountTo
<1>6. Along(dir, Nth(h, s, 1)) = [k \in 1 .. Cardinality(met) |-> p[k - 1]]
  BY DEF Along, p
<1>7. \A k \in 1 .. Len(s) : p[k - 1] = s[k]
  BY <1>1, <1>2, <1>3 DEF Nth
<1>8. s = [k \in 1 .. Len(s) |-> s[k]]
  BY <1>2, SeqDef
<1> HIDE DEF met
<1> QED BY <1>5, <1>6, <1>7, <1>8

\* From the i-th of the cells on.
Rest(s, i) == SubSeq(s, i, Len(s))

LEMMA RestIs ==
  ASSUME NEW S, NEW s \in Seq(S), NEW i \in 1 .. Len(s) + 1
  PROVE  /\ Rest(s, i) \in Seq(S) /\ Len(Rest(s, i)) = Len(s) + 1 - i
         /\ \A k \in 1 .. Len(s) + 1 - i : Rest(s, i)[k] = s[k + i - 1]
<1>1. Len(s) \in Nat /\ DOMAIN s = 1 .. Len(s)
  BY LenProperties
<1> QED BY <1>1, SubSeqProperties DEF Rest

LEMMA AlongRest ==
  ASSUME NEW dir, NEW h, h \notin Cells, NEW s \in Seq(Cells), IsInjective(s),
         Leads(dir, h, s), NEW i \in 1 .. Len(s) + 1
  PROVE  Along(dir, Nth(h, s, i)) = Rest(s, i)
<1> DEFINE t == Rest(s, i)
<1>1. Len(s) \in Nat /\ DOMAIN s = 1 .. Len(s)
  BY LenProperties
<1>2. /\ t \in Seq(Cells) /\ Len(t) = Len(s) + 1 - i
      /\ \A k \in 1 .. Len(s) + 1 - i : t[k] = s[k + i - 1]
  BY RestIs
<1>3. Len(t) \in Nat /\ DOMAIN t = 1 .. Len(t)
  BY <1>2, LenProperties
<1> HIDE DEF t
<1>4. \A k \in 1 .. Len(t) + 1 : Nth(h, t, k) = Nth(h, s, k + i - 1)
  <2> SUFFICES ASSUME NEW k \in 1 .. Len(t) + 1
               PROVE  Nth(h, t, k) = Nth(h, s, k + i - 1)
    OBVIOUS
  <2>1. CASE k <= Len(t)
    <3>1. k \in 1 .. Len(t) /\ k + i - 1 \in 1 .. Len(s)
      BY <1>1, <1>2, <1>3, <2>1
    <3> QED BY <1>2, <3>1 DEF Nth
  <2>2. CASE k > Len(t)
    <3>1. k \notin 1 .. Len(t) /\ k + i - 1 \notin 1 .. Len(s)
      BY <1>1, <1>2, <1>3, <2>2
    <3> QED BY <3>1 DEF Nth
  <2> QED BY <1>3, <2>1, <2>2
<1>5. IsInjective(t)
  <2> SUFFICES ASSUME NEW k \in 1 .. Len(t), NEW l \in 1 .. Len(t), t[k] = t[l]
               PROVE  k = l
    BY <1>3 DEF IsInjective
  <2>1. /\ k + i - 1 \in 1 .. Len(s) /\ l + i - 1 \in 1 .. Len(s)
        /\ s[k + i - 1] = s[l + i - 1]
    BY <1>1, <1>2, <1>3
  <2>2. k + i - 1 = l + i - 1
    BY <1>1, <2>1 DEF IsInjective
  <2> QED BY <1>1, <1>3, <2>2
<1>6. Leads(dir, h, t)
  <2> SUFFICES ASSUME NEW k \in 1 .. Len(t)
               PROVE  dir[t[k]] = Nth(h, t, k + 1)
    BY DEF Leads
  <2>1. k + i - 1 \in 1 .. Len(s) /\ t[k] = s[k + i - 1]
    BY <1>1, <1>2, <1>3
  <2>2. dir[t[k]] = Nth(h, s, (k + i - 1) + 1)
    BY <2>1 DEF Leads
  <2>3. k + 1 \in 1 .. Len(t) + 1 /\ (k + 1) + i - 1 = (k + i - 1) + 1
    BY <1>1, <1>3
  <2> QED BY <1>4, <2>2, <2>3
<1>7. Nth(h, t, 1) = Nth(h, s, i)
  BY <1>1, <1>3, <1>4
<1>8. Along(dir, Nth(h, t, 1)) = t
  BY <1>2, <1>5, <1>6, AlongIs
<1> QED BY <1>7, <1>8 DEF t

(***************************************************************************)
(* Queues.                                                                 *)
(***************************************************************************)

\* The pointers c are of the right kind.
ChainTyped(c) ==
  c \in [next : [Cells \cup Heads -> Pointers],
         prev : [Cells \cup Heads -> Pointers]]

\* The cells s are the queue behind the head h.
Queue(c, h, s) ==
  /\ s \in Seq(Cells) /\ IsInjective(s)
  /\ \A i \in 0 .. Len(s) :
       /\ c.next[Nth(h, s, i)] = Nth(h, s, i + 1)
       /\ c.prev[Nth(h, s, i + 1)] = Nth(h, s, i)

LEMMA HeadsApart ==
  /\ List \notin Cells /\ Table \notin Cells /\ List # Table
  /\ Null \notin Cells \cup Heads /\ NotExist \notin Cells \cup Heads
  /\ Null # NotExist
<1>1. {List, Table, Null, NotExist} \cap Cells = {}
  BY HeadsAssumption
<1>2. /\ List # Table /\ List # Null /\ List # NotExist
      /\ Table # Null /\ Table # NotExist /\ Null # NotExist
  <2>1. ASSUME NEW a, NEW b, NEW c PROVE Cardinality({a, b, c}) \in 0 .. 3
    <3>1. Cardinality({}) = 0 /\ IsFiniteSet({})
      BY FS_EmptySet
    <3>2. {a} = {} \cup {a} /\ {a, b} = {a} \cup {b} /\ {a, b, c} = {a, b} \cup {c}
      OBVIOUS
    <3>3. IsFiniteSet({a}) /\ Cardinality({a}) \in 0 .. 1
      BY <3>1, <3>2, FS_AddElement
    <3>4. IsFiniteSet({a, b}) /\ Cardinality({a, b}) \in 0 .. 2
      BY <3>2, <3>3, FS_AddElement
    <3> QED BY <3>2, <3>4, FS_AddElement
  <2>2. Cardinality({List, Table, Null, NotExist}) = 4
    BY HeadsAssumption
  <2>3. ASSUME NEW a, NEW b, NEW c, {List, Table, Null, NotExist} = {a, b, c}
        PROVE  FALSE
    <3>1. Cardinality({a, b, c}) \in 0 .. 3
      BY <2>1
    <3>2. Cardinality({a, b, c}) = 4
      BY <2>2, <2>3
    <3>3. 4 \in 0 .. 3
      BY <3>1, <3>2
    <3> QED BY <3>3
  <2>4. List # Table
    BY <2>3
  <2>5. List # Null
    BY <2>3
  <2>6. List # NotExist
    BY <2>3
  <2>7. Table # Null
    BY <2>3
  <2>8. Table # NotExist
    BY <2>3
  <2>9. Null # NotExist
    BY <2>3
  <2> QED BY <2>4, <2>5, <2>6, <2>7, <2>8, <2>9
<1> QED BY <1>1, <1>2 DEF Heads

\* What is known of the cells s behind the head h.
CellsOf(h, s) ==
  /\ s \in Seq(Cells) /\ IsInjective(s) /\ h \notin Cells
  /\ Len(s) \in Nat /\ DOMAIN s = 1 .. Len(s)
  /\ \A i \in 1 .. Len(s) : s[i] \in Cells /\ Nth(h, s, i) = s[i]
  /\ \A i : i \notin 1 .. Len(s) => Nth(h, s, i) = h
  /\ \A i, j \in 1 .. Len(s) : s[i] = s[j] => i = j

LEMMA QueueTypes ==
  ASSUME NEW c, NEW h \in Heads, NEW s, Queue(c, h, s)
  PROVE  CellsOf(h, s)
BY InjectiveLength, HeadsApart DEF Queue, Nth, Heads, IsInjective, CellsOf

\* A place of the queue is the head or a cell, and no place occurs twice.
LEMMA Places ==
  ASSUME NEW c, NEW h \in Heads, NEW s, Queue(c, h, s)
  PROVE  /\ \A i \in Int : Nth(h, s, i) \in Cells \cup {h}
         /\ \A i, j \in 0 .. Len(s) : Nth(h, s, i) = Nth(h, s, j) => i = j
         /\ \A i, j \in 1 .. Len(s) + 1 : Nth(h, s, i) = Nth(h, s, j) => i = j
<1>1. CellsOf(h, s)
  BY QueueTypes
<1> USE DEF CellsOf
<1>2. \A i \in Int : Nth(h, s, i) \in Cells \cup {h}
  BY <1>1
<1>3. ASSUME NEW i \in Int, NEW j \in Int, Nth(h, s, i) = Nth(h, s, j)
      PROVE  i \in 1 .. Len(s) <=> j \in 1 .. Len(s)
  BY <1>1, <1>3
<1>4. \A i, j \in 0 .. Len(s) : Nth(h, s, i) = Nth(h, s, j) => i = j
  <2> SUFFICES ASSUME NEW i \in 0 .. Len(s), NEW j \in 0 .. Len(s),
                      Nth(h, s, i) = Nth(h, s, j)
               PROVE  i = j
    OBVIOUS
  <2>1. i \in 1 .. Len(s) <=> j \in 1 .. Len(s)
    BY <1>1, <1>3
  <2>2. CASE i \in 1 .. Len(s)
    BY <1>1, <2>1, <2>2
  <2>3. CASE i \notin 1 .. Len(s)
    BY <1>1, <2>1, <2>3
  <2> QED BY <2>2, <2>3
<1>5. \A i, j \in 1 .. Len(s) + 1 : Nth(h, s, i) = Nth(h, s, j) => i = j
  <2> SUFFICES ASSUME NEW i \in 1 .. Len(s) + 1, NEW j \in 1 .. Len(s) + 1,
                      Nth(h, s, i) = Nth(h, s, j)
               PROVE  i = j
    OBVIOUS
  <2>1. i \in 1 .. Len(s) <=> j \in 1 .. Len(s)
    BY <1>1, <1>3
  <2>2. CASE i \in 1 .. Len(s)
    BY <1>1, <2>1, <2>2
  <2>3. CASE i \notin 1 .. Len(s)
    BY <1>1, <2>1, <2>3
  <2> QED BY <2>2, <2>3
<1> QED BY <1>2, <1>4, <1>5

\* What one meets going through a queue, in either direction.
LEMMA QueueLeads ==
  ASSUME NEW c, NEW h \in Heads, NEW s, Queue(c, h, s)
  PROVE  /\ Leads(c.next, h, s)
         /\ c.next[h] = Nth(h, s, 1)
         /\ c.prev[h] = Nth(h, s, Len(s))
<1>1. CellsOf(h, s)
  BY QueueTypes
<1> USE DEF CellsOf
<1>2. /\ \A i \in 0 .. Len(s) : c.next[Nth(h, s, i)] = Nth(h, s, i + 1)
      /\ \A i \in 0 .. Len(s) : c.prev[Nth(h, s, i + 1)] = Nth(h, s, i)
  BY DEF Queue
<1>3. Leads(c.next, h, s)
  BY <1>1, <1>2 DEF Leads
<1>4. c.next[h] = Nth(h, s, 1)
  <2>1. 0 \in 0 .. Len(s) /\ Nth(h, s, 0) = h /\ 0 + 1 = 1
    BY <1>1
  <2> QED BY <1>2, <2>1
<1>5. c.prev[h] = Nth(h, s, Len(s))
  <2>1. Len(s) \in 0 .. Len(s) /\ Nth(h, s, Len(s) + 1) = h
    BY <1>1
  <2> QED BY <1>2, <2>1
<1> QED BY <1>3, <1>4, <1>5

LEMMA ForwardIs ==
  ASSUME NEW c, NEW h \in Heads, NEW s, Queue(c, h, s)
  PROVE  /\ Along(c.next, c.next[h]) = s
         /\ \A i \in 1 .. Len(s) : Along(c.next, s[i]) = Rest(s, i)
         /\ \A i \in 1 .. Len(s) : Along(c.next, c.next[s[i]]) = Rest(s, i + 1)
<1>1. CellsOf(h, s)
  BY QueueTypes
<1> USE DEF CellsOf
<1>2. Leads(c.next, h, s) /\ c.next[h] = Nth(h, s, 1)
  BY QueueLeads
<1>3. Along(c.next, c.next[h]) = s
  BY <1>1, <1>2, AlongIs
<1>4. \A i \in 1 .. Len(s) + 1 : Along(c.next, Nth(h, s, i)) = Rest(s, i)
  BY <1>1, <1>2, AlongRest
<1>5. \A i \in 1 .. Len(s) : i \in 1 .. Len(s) + 1 /\ i + 1 \in 1 .. Len(s) + 1
  BY <1>1
<1>6. \A i \in 1 .. Len(s) : c.next[s[i]] = Nth(h, s, i + 1)
  BY <1>2 DEF Leads
<1> QED BY <1>1, <1>3, <1>4, <1>5, <1>6

LEMMA BackwardIs ==
  ASSUME NEW c, NEW h \in Heads, NEW s, Queue(c, h, s)
  PROVE  Along(c.prev, c.prev[h]) = Reversed(s)
<1> DEFINE t == Reversed(s)
<1>1. CellsOf(h, s)
  BY QueueTypes
<1> USE DEF CellsOf
<1>2. \A i \in 1 .. Len(s) : Len(s) + 1 - i \in 1 .. Len(s)
  BY <1>1
<1>3. t = [i \in 1 .. Len(s) |-> s[Len(s) + 1 - i]]
  BY DEF Reversed
<1>4. t \in Seq(Cells) /\ Len(t) = Len(s) /\ DOMAIN t = 1 .. Len(s)
  <2>1. t \in [1 .. Len(s) -> Cells]
    BY <1>1, <1>2, <1>3
  <2> HIDE DEF t
  <2>2. t \in Seq(Cells)
    BY <1>1, <2>1, SeqDef
  <2>3. DOMAIN t = 1 .. Len(s) /\ DOMAIN t = 1 .. Len(t) /\ Len(t) \in Nat
    BY <2>1, <2>2, LenProperties
  <2> QED BY <1>1, <2>2, <2>3
<1>5. IsInjective(t)
  <2> SUFFICES ASSUME NEW i \in 1 .. Len(s), NEW j \in 1 .. Len(s), t[i] = t[j]
               PROVE  i = j
    BY <1>4 DEF IsInjective
  <2>1. s[Len(s) + 1 - i] = s[Len(s) + 1 - j]
    BY <1>3
  <2>2. Len(s) + 1 - i = Len(s) + 1 - j
    BY <1>1, <1>2, <2>1
  <2> QED BY <1>1, <2>2
<1>6. \A i \in 1 .. Len(s) : t[i] = s[Len(s) + 1 - i]
  BY <1>3
<1> HIDE DEF t
<1>7. \A i \in 1 .. Len(s) + 1 : Nth(h, t, i) = Nth(h, s, Len(s) + 1 - i)
  <2> SUFFICES ASSUME NEW i \in 1 .. Len(s) + 1
               PROVE  Nth(h, t, i) = Nth(h, s, Len(s) + 1 - i)
    OBVIOUS
  <2>1. CASE i \in 1 .. Len(s)
    BY <1>1, <1>2, <1>4, <1>6, <2>1 DEF Nth
  <2>2. CASE i \notin 1 .. Len(s)
    <3>1. Len(s) + 1 - i \notin 1 .. Len(s)
      BY <1>1, <2>2
    <3> QED BY <1>4, <2>2, <3>1 DEF Nth
  <2> QED BY <2>1, <2>2
<1>8. Leads(c.prev, h, t)
  <2> SUFFICES ASSUME NEW i \in 1 .. Len(s)
               PROVE  c.prev[t[i]] = Nth(h, t, i + 1)
    BY <1>4 DEF Leads
  <2> DEFINE k == Len(s) - i
  <2>1. k \in 0 .. Len(s) /\ k + 1 = Len(s) + 1 - i /\ k = Len(s) + 1 - (i + 1)
        /\ i + 1 \in 1 .. Len(s) + 1
    <3>1. Len(s) \in Nat /\ i \in 1 .. Len(s)
      BY <1>1
    <3> QED BY ONLY <3>1
  <2>2. c.prev[Nth(h, s, k + 1)] = Nth(h, s, k)
    BY <2>1 DEF Queue
  <2>3. t[i] = Nth(h, s, k + 1)
    BY <1>1, <1>2, <1>6, <2>1
  <2> HIDE DEF k
  <2> QED BY <1>7, <2>1, <2>2, <2>3
<1>9. c.prev[h] = Nth(h, t, 1)
  <2>1. 1 \in 1 .. Len(s) + 1 /\ Len(s) + 1 - 1 = Len(s)
    BY <1>1
  <2> QED BY <1>7, <2>1, QueueLeads
<1>10. Along(c.prev, c.prev[h]) = t
  BY <1>1, <1>4, <1>5, <1>8, <1>9, AlongIs
<1> QED BY <1>10 DEF t

\* A queue is the same where its pointers are.
LEMMA QueueSame ==
  ASSUME NEW c, NEW d, NEW h \in Heads, NEW s, Queue(c, h, s),
         \A x \in Range(s) \cup {h} : d.next[x] = c.next[x] /\ d.prev[x] = c.prev[x]
  PROVE  Queue(d, h, s)
<1>1. CellsOf(h, s)
  BY QueueTypes
<1> USE DEF CellsOf
<1>2. \A i \in 0 .. Len(s) + 1 : Nth(h, s, i) \in Range(s) \cup {h}
  BY <1>1 DEF Range
<1>3. \A i \in 0 .. Len(s) : i \in 0 .. Len(s) + 1 /\ i + 1 \in 0 .. Len(s) + 1
  BY <1>1
<1> QED BY <1>2, <1>3 DEF Queue

LEMMA EmptyQueue ==
  ASSUME NEW c, NEW h \in Heads, c.next[h] = h, c.prev[h] = h
  PROVE  Queue(c, h, <<>>)
<1>1. <<>> \in Seq(Cells) /\ Len(<<>>) = 0 /\ IsInjective(<<>>)
  BY DEF IsInjective
<1>2. \A i : Nth(h, <<>>, i) = h
  BY <1>1 DEF Nth
<1> QED BY <1>1, <1>2 DEF Queue

(***************************************************************************)
(* Changes of a queue.                                                     *)
(***************************************************************************)

\* The cells without the i-th, and with x as the i-th.
Cut(s, i) == [j \in 1 .. Len(s) - 1 |-> IF j < i THEN s[j] ELSE s[j + 1]]

Put(s, i, x) ==
  [j \in 1 .. Len(s) + 1 |->
     IF j < i THEN s[j] ELSE IF j = i THEN x ELSE s[j - 1]]

LEMMA CutIs ==
  ASSUME NEW S, NEW s \in Seq(S), IsInjective(s), NEW i \in 1 .. Len(s)
  PROVE  /\ Cut(s, i) \in Seq(S) /\ IsInjective(Cut(s, i))
         /\ Len(s) \in Nat /\ Len(Cut(s, i)) = Len(s) - 1
         /\ \A j \in 1 .. Len(s) - 1 :
              Cut(s, i)[j] = IF j < i THEN s[j] ELSE s[j + 1]
         /\ Range(Cut(s, i)) = Range(s) \ {s[i]}
<1> DEFINE t == Cut(s, i)
<1>1. Len(s) \in Nat /\ DOMAIN s = 1 .. Len(s) /\ \A j \in 1 .. Len(s) : s[j] \in S
  BY LenProperties, ElementOfSeq
<1>2. \A j, k \in 1 .. Len(s) : s[j] = s[k] => j = k
  BY <1>1 DEF IsInjective
<1> DEFINE from(j) == IF j < i THEN j ELSE j + 1
<1>3. \A j \in 1 .. Len(s) - 1 : from(j) \in 1 .. Len(s) /\ from(j) # i
  BY <1>1
<1>4. t = [j \in 1 .. Len(s) - 1 |-> IF j < i THEN s[j] ELSE s[j + 1]]
  BY DEF Cut
<1>5. /\ DOMAIN t = 1 .. Len(s) - 1
      /\ \A j \in 1 .. Len(s) - 1 : t[j] = IF j < i THEN s[j] ELSE s[j + 1]
  BY <1>4
<1>6. \A j \in 1 .. Len(s) - 1 : t[j] = s[from(j)]
  BY <1>5
<1>7. t \in Seq(S) /\ Len(t) = Len(s) - 1
  <2>1. t = [j \in 1 .. Len(s) - 1 |-> t[j]]
    BY <1>4
  <2>2. \A j \in 1 .. Len(s) - 1 : t[j] \in S
    BY <1>1, <1>3, <1>6
  <2> HIDE DEF t
  <2>3. t \in [1 .. Len(s) - 1 -> S] /\ Len(s) - 1 \in Nat
    BY <1>1, <2>1, <2>2
  <2>4. t \in Seq(S)
    BY <2>3, SeqDef
  <2>5. DOMAIN t = 1 .. Len(t) /\ Len(t) \in Nat
    BY <2>4, LenProperties
  <2>6. 1 .. Len(t) = 1 .. Len(s) - 1
    BY <1>5, <2>5
  <2>7. Len(t) = Len(s) - 1
    BY ONLY <2>3, <2>5, <2>6, SameLength
  <2> QED BY <2>4, <2>7
<1> HIDE DEF t
<1>8. IsInjective(t)
  <2> SUFFICES ASSUME NEW j \in 1 .. Len(s) - 1, NEW k \in 1 .. Len(s) - 1, t[j] = t[k]
               PROVE  j = k
    BY <1>5 DEF IsInjective
  <2>1. from(j) = from(k)
    <3> HIDE DEF from
    <3> QED BY <1>2, <1>3, <1>6
  <2> QED BY <1>1, <2>1
<1>9. Range(t) = Range(s) \ {s[i]}
  <2>1. ASSUME NEW j \in 1 .. Len(s) - 1
        PROVE  t[j] \in Range(s) \ {s[i]}
    <3> HIDE DEF from
    <3> QED BY <1>1, <1>2, <1>3, <1>6 DEF Range
  <2>2. ASSUME NEW j \in 1 .. Len(s), s[j] # s[i]
        PROVE  s[j] \in Range(t)
    <3>1. CASE j < i
      <4>1. j \in 1 .. Len(s) - 1 /\ t[j] = s[j]
        BY <1>1, <1>5, <3>1
      <4> QED BY <1>5, <4>1 DEF Range
    <3>2. CASE j > i
      <4>1. j - 1 \in 1 .. Len(s) - 1 /\ ~(j - 1 < i) /\ (j - 1) + 1 = j
        BY <1>1, <3>2
      <4>2. t[j - 1] = s[j]
        BY <1>5, <4>1
      <4> QED BY <1>5, <4>1, <4>2 DEF Range
    <3> QED BY <1>1, <2>2, <3>1, <3>2
  <2> QED BY <1>1, <1>5, <2>1, <2>2 DEF Range
<1> QED BY <1>1, <1>5, <1>7, <1>8, <1>9 DEF t

LEMMA PutIs ==
  ASSUME NEW S, NEW s \in Seq(S), IsInjective(s), NEW i \in 1 .. Len(s) + 1,
         NEW x \in S, x \notin Range(s)
  PROVE  /\ Put(s, i, x) \in Seq(S) /\ IsInjective(Put(s, i, x))
         /\ Len(s) \in Nat /\ Len(Put(s, i, x)) = Len(s) + 1
         /\ \A j \in 1 .. Len(s) + 1 : Put(s, i, x)[j] =
              IF j < i THEN s[j] ELSE IF j = i THEN x ELSE s[j - 1]
         /\ Range(Put(s, i, x)) = Range(s) \cup {x}
<1> DEFINE t == Put(s, i, x)
<1>1. Len(s) \in Nat /\ DOMAIN s = 1 .. Len(s) /\ \A j \in 1 .. Len(s) : s[j] \in S
  BY LenProperties, ElementOfSeq
<1>2. /\ \A j, k \in 1 .. Len(s) : s[j] = s[k] => j = k
      /\ \A j \in 1 .. Len(s) : s[j] # x
  BY <1>1 DEF IsInjective, Range
<1> DEFINE from(j) == IF j < i THEN j ELSE j - 1
<1>3. \A j \in 1 .. Len(s) + 1 : j # i => from(j) \in 1 .. Len(s)
  BY <1>1
<1>4. t = [j \in 1 .. Len(s) + 1 |->
             IF j < i THEN s[j] ELSE IF j = i THEN x ELSE s[j - 1]]
  BY DEF Put
<1>5. /\ DOMAIN t = 1 .. Len(s) + 1
      /\ \A j \in 1 .. Len(s) + 1 :
           t[j] = IF j < i THEN s[j] ELSE IF j = i THEN x ELSE s[j - 1]
  BY <1>4
<1>6. /\ \A j \in 1 .. Len(s) + 1 : j # i => t[j] = s[from(j)]
      /\ t[i] = x
  BY <1>1, <1>5
<1>7. t \in Seq(S) /\ Len(t) = Len(s) + 1
  <2>1. t = [j \in 1 .. Len(s) + 1 |-> t[j]]
    BY <1>4
  <2>2. \A j \in 1 .. Len(s) + 1 : t[j] \in S
    BY <1>1, <1>3, <1>6
  <2> HIDE DEF t
  <2>3. t \in [1 .. Len(s) + 1 -> S] /\ Len(s) + 1 \in Nat
    BY <1>1, <2>1, <2>2
  <2>4. t \in Seq(S)
    BY <2>3, SeqDef
  <2>5. DOMAIN t = 1 .. Len(t) /\ Len(t) \in Nat
    BY <2>4, LenProperties
  <2> QED BY <1>1, <1>5, <2>3, <2>4, <2>5
<1> HIDE DEF t
<1>8. IsInjective(t)
  <2> SUFFICES ASSUME NEW j \in 1 .. Len(s) + 1, NEW k \in 1 .. Len(s) + 1, t[j] = t[k]
               PROVE  j = k
    BY <1>5 DEF IsInjective
  <2>1. CASE j # i /\ k # i
    <3>1. from(j) = from(k)
      <4> HIDE DEF from
      <4> QED BY <1>2, <1>3, <1>6, <2>1
    <3> QED BY <1>1, <2>1, <3>1
  <2>2. CASE j = i /\ k # i
    <3> HIDE DEF from
    <3> QED BY <1>2, <1>3, <1>6, <2>2
  <2>3. CASE j # i /\ k = i
    <3> HIDE DEF from
    <3> QED BY <1>2, <1>3, <1>6, <2>3
  <2> QED BY <2>1, <2>2, <2>3
<1>9. Range(t) = Range(s) \cup {x}
  <2>1. ASSUME NEW j \in 1 .. Len(s) + 1
        PROVE  t[j] \in Range(s) \cup {x}
    <3> HIDE DEF from
    <3> QED BY <1>1, <1>3, <1>6 DEF Range
  <2>2. ASSUME NEW j \in 1 .. Len(s)
        PROVE  s[j] \in Range(t)
    <3>1. CASE j < i
      <4>1. j \in 1 .. Len(s) + 1 /\ t[j] = s[j]
        BY <1>1, <1>5, <3>1
      <4> QED BY <1>5, <4>1 DEF Range
    <3>2. CASE j >= i
      <4>1. /\ j + 1 \in 1 .. Len(s) + 1 /\ ~(j + 1 < i) /\ j + 1 # i
            /\ (j + 1) - 1 = j
        BY <1>1, <3>2
      <4>2. t[j + 1] = s[j]
        BY <1>5, <4>1
      <4> QED BY <1>5, <4>1, <4>2 DEF Range
    <3> QED BY <1>1, <3>1, <3>2
  <2>3. x \in Range(t)
    BY <1>1, <1>5, <1>6 DEF Range
  <2> QED BY <1>1, <1>5, <2>1, <2>2, <2>3 DEF Range
<1> QED BY <1>1, <1>5, <1>7, <1>8, <1>9 DEF t

\* The pointers after a removal.
Removed(c, x) == Freed(DTQ_Del(c, x), {x})

LEMMA RemovedIs ==
  ASSUME NEW c, ChainTyped(c), NEW h \in Heads, NEW s, Queue(c, h, s),
         NEW i \in 1 .. Len(s)
  PROVE  LET x == s[i]  a == Nth(h, s, i - 1)  b == Nth(h, s, i + 1)
             d == Removed(c, x)
         IN /\ ChainTyped(d)
            /\ \A y \in Cells \cup Heads :
                 /\ d.next[y] = IF y = x THEN Null ELSE IF y = a THEN b ELSE c.next[y]
                 /\ d.prev[y] = IF y = x THEN Null ELSE IF y = b THEN a ELSE c.prev[y]
<1> DEFINE x == s[i]
           a == Nth(h, s, i - 1)
           b == Nth(h, s, i + 1)
           d == Removed(c, x)
           D == Cells \cup Heads
<1>1. CellsOf(h, s)
  BY QueueTypes
<1>2. Nth(h, s, i) = x /\ x \in Cells
  BY <1>1 DEF CellsOf
<1>3. c.prev[x] = a /\ c.next[x] = b
  <2>1. i - 1 \in 0 .. Len(s) /\ (i - 1) + 1 = i /\ i \in 0 .. Len(s)
    BY <1>1 DEF CellsOf
  <2> QED BY <1>2, <2>1 DEF Queue
<1>4. a \in Cells \cup {h} /\ b \in Cells \cup {h}
  BY <1>1, Places DEF CellsOf
<1>5. a \in D /\ b \in D /\ x \in D /\ D \subseteq Pointers
  BY <1>2, <1>4 DEF Pointers
<1>6. c.next \in [D -> Pointers] /\ c.prev \in [D -> Pointers]
  BY DEF ChainTyped
<1> DEFINE n == [c.next EXCEPT ![a] = b]
           p == [c.prev EXCEPT ![b] = a]
<1>7. DTQ_Del(c, x) = [next |-> n, prev |-> p]
  BY <1>3 DEF DTQ_Del
<1>8. n \in [D -> Pointers] /\ p \in [D -> Pointers]
  BY <1>5, <1>6
<1>9. \A y \in D : /\ n[y] = IF y = a THEN b ELSE c.next[y]
                   /\ p[y] = IF y = b THEN a ELSE c.prev[y]
  BY <1>5, <1>6
<1> HIDE DEF n, p
<1>10. d = [next |-> [y \in D |-> IF y \in {x} THEN Null ELSE n[y]],
            prev |-> [y \in D |-> IF y \in {x} THEN Null ELSE p[y]]]
  BY <1>7, <1>8 DEF Removed, Freed
<1> HIDE DEF d, x, a, b
<1>11. \A y \in D : /\ d.next[y] = IF y = x THEN Null ELSE n[y]
                    /\ d.prev[y] = IF y = x THEN Null ELSE p[y]
  BY <1>10
<1>12. ChainTyped(d)
  <2>1. Null \in Pointers
    BY DEF Pointers
  <2> QED BY <1>8, <1>10, <2>1 DEF ChainTyped
<1>13. \A y \in D :
         /\ d.next[y] = IF y = x THEN Null ELSE IF y = a THEN b ELSE c.next[y]
         /\ d.prev[y] = IF y = x THEN Null ELSE IF y = b THEN a ELSE c.prev[y]
  BY <1>9, <1>11
<1> QED BY <1>12, <1>13 DEF d, x, a, b

LEMMA RemovedQueue ==
  ASSUME NEW c, ChainTyped(c), NEW h \in Heads, NEW s, Queue(c, h, s),
         NEW i \in 1 .. Len(s)
  PROVE  Queue(Removed(c, s[i]), h, Cut(s, i))
<1> DEFINE x == s[i]
           a == Nth(h, s, i - 1)
           b == Nth(h, s, i + 1)
           d == Removed(c, x)
           t == Cut(s, i)
<1>1. CellsOf(h, s)
  BY QueueTypes
<1> USE DEF CellsOf
<1>2. /\ t \in Seq(Cells) /\ IsInjective(t) /\ Len(t) = Len(s) - 1
      /\ \A j \in 1 .. Len(s) - 1 : t[j] = IF j < i THEN s[j] ELSE s[j + 1]
  BY <1>1, CutIs
<1>3. \A y \in Cells \cup Heads :
        /\ d.next[y] = IF y = x THEN Null ELSE IF y = a THEN b ELSE c.next[y]
        /\ d.prev[y] = IF y = x THEN Null ELSE IF y = b THEN a ELSE c.prev[y]
  BY RemovedIs
<1>4. /\ \A j \in Int : Nth(h, s, j) \in Cells \cup Heads
      /\ \A j, k \in 0 .. Len(s) : Nth(h, s, j) = Nth(h, s, k) => j = k
      /\ \A j, k \in 1 .. Len(s) + 1 : Nth(h, s, j) = Nth(h, s, k) => j = k
  BY Places
<1>5. x = Nth(h, s, i)
  BY <1>1
<1>6. /\ \A j \in 0 .. Len(s) : c.next[Nth(h, s, j)] = Nth(h, s, j + 1)
      /\ \A j \in 0 .. Len(s) : c.prev[Nth(h, s, j + 1)] = Nth(h, s, j)
  BY DEF Queue
<1> HIDE DEF d, t
<1>7. \A j \in 0 .. Len(s) :
        Nth(h, t, j) = IF j < i THEN Nth(h, s, j) ELSE Nth(h, s, j + 1)
  <2> SUFFICES ASSUME NEW j \in 0 .. Len(s)
               PROVE  Nth(h, t, j) = IF j < i THEN Nth(h, s, j) ELSE Nth(h, s, j + 1)
    OBVIOUS
  <2>1. CASE j \in 1 .. Len(s) - 1
    <3>1. j \in 1 .. Len(t) /\ j \in 1 .. Len(s) /\ j + 1 \in 1 .. Len(s)
      BY <1>1, <1>2, <2>1
    <3> QED BY <1>2, <2>1, <3>1 DEF Nth
  <2>2. CASE j = 0
    <3>1. j \notin 1 .. Len(t) /\ j \notin 1 .. Len(s) /\ j < i
      BY <1>1, <1>2, <2>2
    <3> QED BY <3>1 DEF Nth
  <2>3. CASE j = Len(s)
    <3>1. j \notin 1 .. Len(t) /\ j + 1 \notin 1 .. Len(s) /\ ~(j < i)
      BY <1>1, <1>2, <2>3
    <3> QED BY <3>1 DEF Nth
  <2>4. j \in 1 .. Len(s) - 1 \/ j = 0 \/ j = Len(s)
    <3>1. Len(s) \in Nat /\ j \in 0 .. Len(s)
      BY <1>1
    <3> QED BY ONLY <3>1
  <2> QED BY <2>1, <2>2, <2>3, <2>4
<1>8. ASSUME NEW j \in 0 .. Len(s) - 1
      PROVE  d.next[Nth(h, t, j)] = Nth(h, t, j + 1)
  <2>1. j \in 0 .. Len(s) /\ j + 1 \in 0 .. Len(s) /\ i - 1 \in 0 .. Len(s)
        /\ i \in 0 .. Len(s)
    BY <1>1
  <2>2. CASE j + 1 < i
    <3>1. Nth(h, t, j) = Nth(h, s, j) /\ Nth(h, t, j + 1) = Nth(h, s, j + 1)
      BY <1>7, <2>1, <2>2
    <3>2. j # i /\ j # i - 1 /\ j \in Int
      BY <2>1, <2>2
    <3>3. Nth(h, s, j) # x /\ Nth(h, s, j) # a
      BY <1>4, <1>5, <2>1, <3>2
    <3> HIDE DEF x, a, b
    <3> QED BY <1>3, <1>4, <1>6, <2>1, <3>1, <3>2, <3>3
  <2>3. CASE j + 1 = i
    <3>1. Nth(h, t, j) = a /\ Nth(h, t, j + 1) = b
      <4>1. j < i /\ ~(j + 1 < i) /\ j = i - 1 /\ (j + 1) + 1 = i + 1
        BY <2>1, <2>3
      <4> QED BY <1>7, <2>1, <4>1
    <3>2. a # x
      <4>1. i - 1 # i
        BY <2>1
      <4> QED BY <1>4, <1>5, <2>1, <4>1
    <3>3. a \in Cells \cup Heads
      BY <1>4, <2>1
    <3> HIDE DEF x, a, b
    <3> QED BY <1>3, <3>1, <3>2, <3>3
  <2>4. CASE j + 1 > i
    <3>1. ~(j < i) /\ ~(j + 1 < i) /\ j + 1 # i /\ j + 1 # i - 1 /\ j + 1 \in Int
      BY <2>1, <2>4
    <3>2. Nth(h, t, j) = Nth(h, s, j + 1) /\ Nth(h, t, j + 1) = Nth(h, s, (j + 1) + 1)
      BY <1>7, <2>1, <3>1
    <3>3. Nth(h, s, j + 1) # x /\ Nth(h, s, j + 1) # a
      BY <1>4, <1>5, <2>1, <3>1
    <3> HIDE DEF x, a, b
    <3> QED BY <1>3, <1>4, <1>6, <2>1, <3>1, <3>2, <3>3
  <2> QED BY <2>1, <2>2, <2>3, <2>4
<1>9. ASSUME NEW j \in 0 .. Len(s) - 1
      PROVE  d.prev[Nth(h, t, j + 1)] = Nth(h, t, j)
  <2>1. /\ j \in 0 .. Len(s) /\ j + 1 \in 0 .. Len(s) /\ j + 1 \in 1 .. Len(s) + 1
        /\ (j + 1) + 1 \in 1 .. Len(s) + 1
        /\ i \in 1 .. Len(s) + 1 /\ i + 1 \in 1 .. Len(s) + 1
    BY <1>1
  <2>2. CASE j + 1 < i
    <3>1. Nth(h, t, j) = Nth(h, s, j) /\ Nth(h, t, j + 1) = Nth(h, s, j + 1)
      BY <1>7, <2>1, <2>2
    <3>2. j + 1 # i /\ j + 1 # i + 1 /\ j + 1 \in Int
      BY <2>1, <2>2
    <3>3. Nth(h, s, j + 1) # x /\ Nth(h, s, j + 1) # b
      BY <1>4, <1>5, <2>1, <3>2
    <3> HIDE DEF x, a, b
    <3> QED BY <1>3, <1>4, <1>6, <2>1, <3>1, <3>2, <3>3
  <2>3. CASE j + 1 = i
    <3>1. Nth(h, t, j) = a /\ Nth(h, t, j + 1) = b
      <4>1. j < i /\ ~(j + 1 < i) /\ j = i - 1 /\ (j + 1) + 1 = i + 1
        BY <2>1, <2>3
      <4> QED BY <1>7, <2>1, <4>1
    <3>2. b # x
      <4>1. i + 1 # i
        BY <2>1
      <4> QED BY <1>4, <1>5, <2>1, <4>1
    <3>3. b \in Cells \cup Heads
      BY <1>4, <2>1
    <3> HIDE DEF x, a, b
    <3> QED BY <1>3, <3>1, <3>2, <3>3
  <2>4. CASE j + 1 > i
    <3>1. /\ ~(j < i) /\ ~(j + 1 < i) /\ (j + 1) + 1 # i /\ (j + 1) + 1 # i + 1
          /\ (j + 1) + 1 \in Int
      BY <2>1, <2>4
    <3>2. Nth(h, t, j) = Nth(h, s, j + 1) /\ Nth(h, t, j + 1) = Nth(h, s, (j + 1) + 1)
      BY <1>7, <2>1, <3>1
    <3>3. Nth(h, s, (j + 1) + 1) # x /\ Nth(h, s, (j + 1) + 1) # b
      BY <1>4, <1>5, <2>1, <3>1
    <3> HIDE DEF x, a, b
    <3> QED BY <1>3, <1>4, <1>6, <2>1, <3>1, <3>2, <3>3
  <2> QED BY <2>1, <2>2, <2>3, <2>4
<1>10. 0 .. Len(t) = 0 .. Len(s) - 1
  BY <1>2
<1>11. Queue(d, h, t)
  BY <1>2, <1>8, <1>9, <1>10 DEF Queue
<1> QED BY <1>11 DEF d, t

\* The other queue does not notice.
LEMMA RemovedOther ==
  ASSUME NEW c, ChainTyped(c), NEW h \in Heads, NEW s, Queue(c, h, s),
         NEW i \in 1 .. Len(s), NEW g \in Heads, g # h, NEW t, Queue(c, g, t),
         Range(s) \cap Range(t) = {}
  PROVE  Queue(Removed(c, s[i]), g, t)
<1> DEFINE x == s[i]
           a == Nth(h, s, i - 1)
           b == Nth(h, s, i + 1)
           d == Removed(c, x)
<1>1. CellsOf(h, s) /\ CellsOf(g, t)
  BY QueueTypes
<1>2. x \in Range(s) /\ {a, b} \subseteq Range(s) \cup {h}
  BY <1>1 DEF CellsOf, Nth, Range
<1>3. Range(t) \subseteq Cells /\ Range(s) \subseteq Cells /\ h \notin Cells /\ g \notin Cells
  BY <1>1 DEF CellsOf, Range
<1>4. \A y \in Cells \cup Heads :
        /\ d.next[y] = IF y = x THEN Null ELSE IF y = a THEN b ELSE c.next[y]
        /\ d.prev[y] = IF y = x THEN Null ELSE IF y = b THEN a ELSE c.prev[y]
  BY RemovedIs
<1> HIDE DEF a, b, x, d
<1>5. \A y \in Range(t) \cup {g} :
        y \in Cells \cup Heads /\ y # x /\ y # a /\ y # b
  BY <1>2, <1>3
<1>6. \A y \in Range(t) \cup {g} : d.next[y] = c.next[y] /\ d.prev[y] = c.prev[y]
  BY <1>4, <1>5
<1>7. Queue(d, g, t)
  BY <1>6, QueueSame
<1> QED BY <1>7 DEF d, x

\* The pointers after x was put before p.
LEMMA AddedIs ==
  ASSUME NEW c, ChainTyped(c), NEW h \in Heads, NEW s, Queue(c, h, s),
         NEW i \in 1 .. Len(s) + 1, NEW x \in Cells, x \notin Range(s)
  PROVE  LET a == Nth(h, s, i - 1)  p == Nth(h, s, i)
             d == DTQ_AddBefore(c, p, x)
         IN /\ ChainTyped(d)
            /\ \A y \in Cells \cup Heads :
                 /\ d.next[y] = IF y = a THEN x ELSE IF y = x THEN p ELSE c.next[y]
                 /\ d.prev[y] = IF y = p THEN x ELSE IF y = x THEN a ELSE c.prev[y]
<1> DEFINE a == Nth(h, s, i - 1)
           p == Nth(h, s, i)
           d == DTQ_AddBefore(c, p, x)
           D == Cells \cup Heads
<1>1. CellsOf(h, s)
  BY QueueTypes
<1>2. c.prev[p] = a
  <2>1. i - 1 \in 0 .. Len(s) /\ (i - 1) + 1 = i
    BY <1>1 DEF CellsOf
  <2> QED BY <2>1 DEF Queue
<1>3. a \in Range(s) \cup {h} /\ p \in Range(s) \cup {h}
  BY <1>1 DEF CellsOf, Range, Nth
<1>4. Range(s) \subseteq Cells /\ h \in Heads /\ h \notin Cells
  BY <1>1 DEF CellsOf, Range
<1>5. a \in D /\ p \in D /\ x \in D /\ D \subseteq Pointers /\ a # x /\ p # x
  BY <1>3, <1>4 DEF Pointers
<1>6. c.next \in [D -> Pointers] /\ c.prev \in [D -> Pointers]
  BY DEF ChainTyped
<1> DEFINE n1 == [c.next EXCEPT ![x] = p]
           p1 == [c.prev EXCEPT ![x] = a]
           n2 == [n1 EXCEPT ![a] = x]
           p2 == [p1 EXCEPT ![p] = x]
<1>7. n1[x] = p /\ p1[x] = a
  BY <1>5, <1>6
<1>8. d = [next |-> n2, prev |-> p2]
  <2> DEFINE set == [next |-> n1, prev |-> p1]
  <2>1. d = [next |-> [set.next EXCEPT ![set.prev[x]] = x],
             prev |-> [set.prev EXCEPT ![set.next[x]] = x]]
    BY <1>2 DEF DTQ_AddBefore
  <2>2. set.next = n1 /\ set.prev = p1
    OBVIOUS
  <2> HIDE DEF set, n1, p1, d
  <2> QED BY <1>7, <2>1, <2>2
<1>9. n1 \in [D -> Pointers] /\ p1 \in [D -> Pointers]
  BY <1>5, <1>6
<1>10. \A y \in D : /\ n1[y] = IF y = x THEN p ELSE c.next[y]
                    /\ p1[y] = IF y = x THEN a ELSE c.prev[y]
  BY <1>5, <1>6
<1> HIDE DEF n1, p1
<1>11. n2 \in [D -> Pointers] /\ p2 \in [D -> Pointers]
  BY <1>5, <1>9
<1>12. \A y \in D : /\ n2[y] = IF y = a THEN x ELSE n1[y]
                    /\ p2[y] = IF y = p THEN x ELSE p1[y]
  BY <1>5, <1>9
<1> HIDE DEF n2, p2, d, a, p
<1>13. ChainTyped(d)
  BY <1>8, <1>11 DEF ChainTyped
<1>14. \A y \in D :
         /\ d.next[y] = IF y = a THEN x ELSE IF y = x THEN p ELSE c.next[y]
         /\ d.prev[y] = IF y = p THEN x ELSE IF y = x THEN a ELSE c.prev[y]
  BY <1>8, <1>10, <1>12
<1> QED BY <1>13, <1>14 DEF d, a, p

LEMMA AddedQueue ==
  ASSUME NEW c, ChainTyped(c), NEW h \in Heads, NEW s, Queue(c, h, s),
         NEW i \in 1 .. Len(s) + 1, NEW x \in Cells, x \notin Range(s)
  PROVE  Queue(DTQ_AddBefore(c, Nth(h, s, i), x), h, Put(s, i, x))
<1> DEFINE a == Nth(h, s, i - 1)
           p == Nth(h, s, i)
           d == DTQ_AddBefore(c, p, x)
           t == Put(s, i, x)
<1>1. CellsOf(h, s)
  BY QueueTypes
<1> USE DEF CellsOf
<1>2. /\ t \in Seq(Cells) /\ IsInjective(t) /\ Len(t) = Len(s) + 1
      /\ \A j \in 1 .. Len(s) + 1 :
           t[j] = IF j < i THEN s[j] ELSE IF j = i THEN x ELSE s[j - 1]
  BY <1>1, PutIs
<1>3. \A y \in Cells \cup Heads :
        /\ d.next[y] = IF y = a THEN x ELSE IF y = x THEN p ELSE c.next[y]
        /\ d.prev[y] = IF y = p THEN x ELSE IF y = x THEN a ELSE c.prev[y]
  BY AddedIs
<1>4. /\ \A j \in Int : Nth(h, s, j) \in Cells \cup Heads
      /\ \A j, k \in 0 .. Len(s) : Nth(h, s, j) = Nth(h, s, k) => j = k
      /\ \A j, k \in 1 .. Len(s) + 1 : Nth(h, s, j) = Nth(h, s, k) => j = k
  BY Places
<1>5. \A j \in Int : Nth(h, s, j) # x
  BY <1>1 DEF Nth, Range
<1>6. /\ \A j \in 0 .. Len(s) : c.next[Nth(h, s, j)] = Nth(h, s, j + 1)
      /\ \A j \in 0 .. Len(s) : c.prev[Nth(h, s, j + 1)] = Nth(h, s, j)
  BY DEF Queue
<1> HIDE DEF d, t
<1>7. \A j \in 0 .. Len(s) + 2 :
        Nth(h, t, j) = IF j < i THEN Nth(h, s, j)
                       ELSE IF j = i THEN x ELSE Nth(h, s, j - 1)
  <2> SUFFICES ASSUME NEW j \in 0 .. Len(s) + 2
               PROVE  Nth(h, t, j) = IF j < i THEN Nth(h, s, j)
                                     ELSE IF j = i THEN x ELSE Nth(h, s, j - 1)
    OBVIOUS
  <2>1. CASE j \in 1 .. Len(s) + 1
    <3>1. j \in 1 .. Len(t)
      BY <1>1, <1>2, <2>1
    <3>2. Nth(h, t, j) = t[j]
      BY <3>1 DEF Nth
    <3>3. j < i => j \in 1 .. Len(s)
      BY <1>1, <2>1
    <3>4. ~(j < i) /\ j # i => j - 1 \in 1 .. Len(s)
      BY <1>1, <2>1
    <3> QED BY <1>2, <2>1, <3>2, <3>3, <3>4 DEF Nth
  <2>2. CASE j = 0
    <3>1. j \notin 1 .. Len(t) /\ j \notin 1 .. Len(s) /\ j < i
      BY <1>1, <1>2, <2>2
    <3> QED BY <3>1 DEF Nth
  <2>3. CASE j = Len(s) + 2
    <3>1. j \notin 1 .. Len(t) /\ j - 1 \notin 1 .. Len(s) /\ ~(j < i) /\ j # i
      BY <1>1, <1>2, <2>3
    <3> QED BY <3>1 DEF Nth
  <2>4. j \in 1 .. Len(s) + 1 \/ j = 0 \/ j = Len(s) + 2
    <3>1. Len(s) \in Nat /\ j \in 0 .. Len(s) + 2
      BY <1>1
    <3> QED BY ONLY <3>1
  <2> QED BY <2>1, <2>2, <2>3, <2>4
<1>8. ASSUME NEW j \in 0 .. Len(s) + 1
      PROVE  /\ d.next[Nth(h, t, j)] = Nth(h, t, j + 1)
             /\ d.prev[Nth(h, t, j + 1)] = Nth(h, t, j)
  <2>1. /\ j \in 0 .. Len(s) + 2 /\ j + 1 \in 0 .. Len(s) + 2 /\ j \in Int
        /\ i \in 1 .. Len(s) + 1 /\ i - 1 \in 0 .. Len(s) /\ Len(s) \in Nat
    BY <1>1
  <2>2. CASE j + 1 < i
    <3>1. /\ j < i /\ j \in 0 .. Len(s) /\ j # i - 1 /\ j + 1 # i
          /\ j + 1 \in 1 .. Len(s) + 1
      BY <2>1, <2>2
    <3>2. Nth(h, t, j) = Nth(h, s, j) /\ Nth(h, t, j + 1) = Nth(h, s, j + 1)
      BY <1>7, <2>1, <2>2, <3>1
    <3>3. Nth(h, s, j) # a /\ Nth(h, s, j + 1) # p
      BY <1>4, <2>1, <3>1
    <3>4. /\ Nth(h, s, j) \in Cells \cup Heads /\ Nth(h, s, j + 1) \in Cells \cup Heads
          /\ Nth(h, s, j) # x /\ Nth(h, s, j + 1) # x
      BY <1>4, <1>5, <2>1
    <3> HIDE DEF a, p
    <3> QED BY <1>3, <1>6, <3>1, <3>2, <3>3, <3>4
  <2>3. CASE j + 1 = i
    <3>1. j < i /\ j = i - 1 /\ ~(j + 1 < i)
      BY <2>1, <2>3
    <3>2. Nth(h, t, j) = a /\ Nth(h, t, j + 1) = x
      BY <1>7, <2>1, <2>3, <3>1
    <3>3. a \in Cells \cup Heads /\ a # x /\ p # x
      BY <1>4, <1>5, <2>1
    <3> HIDE DEF a, p
    <3> QED BY <1>3, <3>2, <3>3
  <2>4. CASE j = i
    <3>1. ~(j < i) /\ ~(j + 1 < i) /\ j + 1 # i /\ (j + 1) - 1 = i
      BY <2>1, <2>4
    <3>2. Nth(h, t, j) = x /\ Nth(h, t, j + 1) = p
      BY <1>7, <2>1, <2>4, <3>1
    <3>3. p \in Cells \cup Heads /\ a # x /\ p # x
      BY <1>4, <1>5, <2>1
    <3> HIDE DEF a, p
    <3> QED BY <1>3, <3>2, <3>3
  <2>5. CASE j > i
    <3>1. /\ ~(j < i) /\ j # i /\ ~(j + 1 < i) /\ j + 1 # i /\ (j + 1) - 1 = (j - 1) + 1
          /\ j - 1 \in 0 .. Len(s) /\ j - 1 # i - 1 /\ (j - 1) + 1 # i
          /\ (j - 1) + 1 \in 1 .. Len(s) + 1 /\ j - 1 \in Int /\ (j - 1) + 1 \in Int
      BY <2>1, <2>5
    <3>2. Nth(h, t, j) = Nth(h, s, j - 1) /\ Nth(h, t, j + 1) = Nth(h, s, (j - 1) + 1)
      BY <1>7, <2>1, <2>5, <3>1
    <3>3. Nth(h, s, j - 1) # a /\ Nth(h, s, (j - 1) + 1) # p
      BY <1>4, <2>1, <3>1
    <3>4. /\ Nth(h, s, j - 1) \in Cells \cup Heads
          /\ Nth(h, s, (j - 1) + 1) \in Cells \cup Heads
          /\ Nth(h, s, j - 1) # x /\ Nth(h, s, (j - 1) + 1) # x
      BY <1>4, <1>5, <3>1
    <3> HIDE DEF a, p
    <3> QED BY <1>3, <1>6, <3>1, <3>2, <3>3, <3>4
  <2> QED BY <2>1, <2>2, <2>3, <2>4, <2>5
<1>9. 0 .. Len(t) = 0 .. Len(s) + 1
  BY <1>2
<1>10. Queue(d, h, t)
  BY <1>2, <1>8, <1>9 DEF Queue
<1> QED BY <1>10 DEF d, t

LEMMA AddedOther ==
  ASSUME NEW c, ChainTyped(c), NEW h \in Heads, NEW s, Queue(c, h, s),
         NEW i \in 1 .. Len(s) + 1, NEW x \in Cells, x \notin Range(s),
         NEW g \in Heads, g # h, NEW t, Queue(c, g, t),
         x \notin Range(t), Range(s) \cap Range(t) = {}
  PROVE  Queue(DTQ_AddBefore(c, Nth(h, s, i), x), g, t)
<1> DEFINE a == Nth(h, s, i - 1)
           p == Nth(h, s, i)
           d == DTQ_AddBefore(c, p, x)
<1>1. CellsOf(h, s) /\ CellsOf(g, t)
  BY QueueTypes
<1>2. {a, p} \subseteq Range(s) \cup {h}
  BY <1>1 DEF CellsOf, Nth, Range
<1>3. Range(t) \subseteq Cells /\ Range(s) \subseteq Cells /\ h \notin Cells /\ g \notin Cells
  BY <1>1 DEF CellsOf, Range
<1>4. \A y \in Cells \cup Heads :
        /\ d.next[y] = IF y = a THEN x ELSE IF y = x THEN p ELSE c.next[y]
        /\ d.prev[y] = IF y = p THEN x ELSE IF y = x THEN a ELSE c.prev[y]
  BY AddedIs
<1> HIDE DEF a, p, d
<1>5. \A y \in Range(t) \cup {g} :
        y \in Cells \cup Heads /\ y # x /\ y # a /\ y # p
  BY <1>2, <1>3
<1>6. \A y \in Range(t) \cup {g} : d.next[y] = c.next[y] /\ d.prev[y] = c.prev[y]
  BY <1>4, <1>5
<1>7. Queue(d, g, t)
  BY <1>6, QueueSame
<1> QED BY <1>7 DEF d, p

\* The pointers after a whole queue was given back.
Emptied(c, h, cells) ==
  Freed([next |-> [c.next EXCEPT ![h] = h], prev |-> [c.prev EXCEPT ![h] = h]],
        cells)

LEMMA EmptiedIs ==
  ASSUME NEW c, ChainTyped(c), NEW h \in Heads, NEW s, Queue(c, h, s)
  PROVE  /\ ChainTyped(Emptied(c, h, Range(s)))
         /\ Queue(Emptied(c, h, Range(s)), h, <<>>)
         /\ \A t : \A g \in Heads \ {h} :
              Queue(c, g, t) /\ Range(s) \cap Range(t) = {}
                => Queue(Emptied(c, h, Range(s)), g, t)
<1> DEFINE d == Emptied(c, h, Range(s))
           D == Cells \cup Heads
           n == [c.next EXCEPT ![h] = h]
           p == [c.prev EXCEPT ![h] = h]
<1>1. c.next \in [D -> Pointers] /\ c.prev \in [D -> Pointers]
  BY DEF ChainTyped
<1>2. h \in D /\ D \subseteq Pointers /\ Null \in Pointers
  BY DEF Pointers
<1>3. n \in [D -> Pointers] /\ p \in [D -> Pointers]
  BY <1>1, <1>2
<1>4. \A y \in D : /\ n[y] = IF y = h THEN h ELSE c.next[y]
                   /\ p[y] = IF y = h THEN h ELSE c.prev[y]
  BY <1>1, <1>2
<1>5. CellsOf(h, s)
  BY QueueTypes
<1>6. Range(s) \subseteq Cells /\ h \notin Cells
  BY <1>5 DEF CellsOf, Range
<1> HIDE DEF n, p
<1>7. d = [next |-> [y \in D |-> IF y \in Range(s) THEN Null ELSE n[y]],
           prev |-> [y \in D |-> IF y \in Range(s) THEN Null ELSE p[y]]]
  BY <1>3 DEF Emptied, Freed, n, p
<1> HIDE DEF d
<1>8. ChainTyped(d)
  BY <1>2, <1>3, <1>7 DEF ChainTyped
<1>9. \A y \in D :
        /\ d.next[y] = IF y \in Range(s) THEN Null ELSE n[y]
        /\ d.prev[y] = IF y \in Range(s) THEN Null ELSE p[y]
  BY <1>7
<1>10. Queue(d, h, <<>>)
  BY <1>2, <1>4, <1>6, <1>9, EmptyQueue
<1>11. ASSUME NEW g \in Heads \ {h}, NEW t, Queue(c, g, t),
              Range(s) \cap Range(t) = {}
       PROVE  Queue(d, g, t)
  <2>1. CellsOf(g, t)
    BY <1>11, QueueTypes
  <2>2. \A y \in Range(t) \cup {g} : y \in D /\ y \notin Range(s) /\ y # h
    BY <1>6, <1>11, <2>1 DEF CellsOf, Range
  <2>3. \A y \in Range(t) \cup {g} : d.next[y] = c.next[y] /\ d.prev[y] = c.prev[y]
    BY <1>4, <1>9, <2>2
  <2> QED BY <1>11, <2>3, QueueSame
<1> QED BY <1>8, <1>10, <1>11 DEF d

(***************************************************************************)
(* What a handler finds in a queue.                                        *)
(***************************************************************************)

LEMMA FirstOfIs ==
  ASSUME NEW h \in Heads, NEW s, Queue(chain, h, s), NEW cells
  PROVE  \/ FirstOf(h, cells) = Null /\ Range(s) \cap cells = {}
         \/ \E i \in 1 .. Len(s) :
              /\ FirstOf(h, cells) = s[i] /\ s[i] \in cells
              /\ \A j \in 1 .. i - 1 : s[j] \notin cells
<1> DEFINE hits == {i \in DOMAIN s : s[i] \in cells}
<1>1. CellsOf(h, s)
  BY QueueTypes
<1>2. Forward(h) = s
  BY ForwardIs DEF Forward
<1>3. FirstOf(h, cells) = IF hits = {} THEN Null ELSE s[Min(hits)]
  BY <1>2 DEF FirstOf
<1>4. CASE hits = {}
  BY <1>3, <1>4 DEF Range
<1>5. CASE hits # {}
  <2>1. hits \subseteq Nat /\ hits \subseteq 1 .. Len(s)
    BY <1>1 DEF CellsOf
  <2> DEFINE i == Min(hits)
  <2>2. \E x \in hits : \A y \in hits : x <= y
    BY <1>5, <2>1, Least
  <2>3. i \in hits /\ \A y \in hits : i <= y
    <3> HIDE DEF hits
    <3> QED BY <2>2 DEF Min
  <2>4. i \in 1 .. Len(s) /\ s[i] \in cells
    <3> HIDE DEF i
    <3> QED BY <2>1, <2>3
  <2> HIDE DEF i
  <2>5. ASSUME NEW j \in 1 .. i - 1
        PROVE  s[j] \notin cells
    <3>1. j \in 1 .. Len(s) /\ ~(i <= j)
      BY <1>1, <2>4 DEF CellsOf
    <3> QED BY <1>1, <2>3, <3>1 DEF CellsOf
  <2>6. FirstOf(h, cells) = s[i]
    BY <1>3, <1>5 DEF i
  <2> QED BY <2>4, <2>5, <2>6
<1> QED BY <1>4, <1>5

LEMMA FollowingIs ==
  ASSUME NEW h \in Heads, NEW s, Queue(chain, h, s), NEW i \in 0 .. Len(s)
  PROVE  Following(h, Nth(h, s, i)) = IF i < Len(s) THEN s[i + 1] ELSE Null
<1>1. CellsOf(h, s)
  BY QueueTypes
<1>2. chain.next[Nth(h, s, i)] = Nth(h, s, i + 1)
  BY DEF Queue
<1>3. CASE i < Len(s)
  <2>1. i + 1 \in 1 .. Len(s)
    BY <1>1, <1>3 DEF CellsOf
  <2>2. Nth(h, s, i + 1) = s[i + 1] /\ s[i + 1] # h
    BY <1>1, <2>1 DEF CellsOf
  <2> QED BY <1>2, <1>3, <2>2 DEF Following
<1>4. CASE ~(i < Len(s))
  <2>1. i + 1 \notin 1 .. Len(s)
    BY <1>1, <1>4 DEF CellsOf
  <2> QED BY <1>1, <1>2, <1>4, <2>1 DEF Following, CellsOf
<1> QED BY <1>3, <1>4

(***************************************************************************)
(* The inductive invariant.                                                *)
(***************************************************************************)

\* The allocated cells are those of the list and those of the table.
Queues(c, lv, s, t) ==
  /\ ChainTyped(c) /\ Queue(c, List, s) /\ Queue(c, Table, t)
  /\ Range(s) \cap Range(t) = {} /\ Range(s) \cup Range(t) = lv

Filled(dt, lv) ==
  dt \in [Cells -> Datas \cup {None}] /\ \A x \in lv : dt[x] \in Datas

Sorted(dt, s) == \A i, j \in 1 .. Len(s) : i < j => dt[s[i]] < dt[s[j]]

Memory ==
  /\ Queues(chain, live, Forward(List), Forward(Table))
  /\ Filled(data, live)
  /\ Sorted(data, Forward(Table))

\* A drain has stored the cell behind the one whose data it copied.
Draining(w, dt, s) ==
  /\ w.taken # None => w.at # Null
  /\ w.taken # None /\ w.at \in Cells =>
       \E i, j \in 1 .. Len(s) :
         j < i /\ w.at = s[i] /\ dt[s[j]] = w.taken

Scanning(w, dt) ==
  /\ w.at # NotExist
  /\ w.at = Null => w.taken = None
  /\ w.at \in Cells => w.taken = dt[w.at]

TakingFirst(w, dt, s) ==
  /\ w.taken = None => w.at = Null
  /\ w.taken # None => s # <<>> /\ w.at = s[1] /\ w.taken = dt[s[1]]

\* The walk holds on to cells that are still in the list.
Walking(w, dt, s) ==
  /\ w.at \in Cells => w.at \in Range(s)
  /\ w.kind = "none" => w = NoWalk
  /\ w.kind = "drain" => Draining(w, dt, s)
  /\ w.kind = "scan" => Scanning(w, dt)
  /\ w.kind = "first" => TakingFirst(w, dt, s)

Handles ==
  [kind : {"none", "drain", "scan", "first"},
   at : Cells \cup {Null, NotExist},
   taken : Datas \cup {None}]

Answers ==
  {NoAnswer} \cup
    [of : Heads, after : Datas \cup {0}, is : Datas \cup {None}]

Inv ==
  /\ Memory
  /\ fresh \subseteq Range(Forward(List))
  /\ walk \in Handles /\ Walking(walk, data, Forward(List))
  /\ answer \in Answers

\* The queues that the pointers form can be read off them.
LEMMA Found ==
  ASSUME NEW c, NEW lv, NEW s, NEW t, Queues(c, lv, s, t)
  PROVE  Along(c.next, c.next[List]) = s /\ Along(c.next, c.next[Table]) = t
<1>1. Queue(c, List, s) /\ Queue(c, Table, t) /\ List \in Heads /\ Table \in Heads
  BY DEF Queues, Heads
<1> QED BY <1>1, ForwardIs

LEMMA MemoryParts ==
  ASSUME Memory
  PROVE  /\ ChainTyped(chain)
         /\ List \in Heads /\ Table \in Heads /\ List # Table
         /\ Queue(chain, List, Forward(List)) /\ Queue(chain, Table, Forward(Table))
         /\ CellsOf(List, Forward(List)) /\ CellsOf(Table, Forward(Table))
         /\ Range(Forward(List)) \cap Range(Forward(Table)) = {}
         /\ Range(Forward(List)) \cup Range(Forward(Table)) = live
         /\ live \subseteq Cells
<1>1. List \in Heads /\ Table \in Heads /\ List # Table
  BY HeadsApart DEF Heads
<1>2. Queue(chain, List, Forward(List)) /\ Queue(chain, Table, Forward(Table))
  BY DEF Memory, Queues
<1>3. CellsOf(List, Forward(List)) /\ CellsOf(Table, Forward(Table))
  BY <1>1, <1>2, QueueTypes
<1>4. Range(Forward(List)) \cup Range(Forward(Table)) = live
  BY DEF Memory, Queues
<1>5. live \subseteq Cells
  BY <1>3, <1>4 DEF CellsOf, Range
<1> QED BY <1>1, <1>2, <1>3, <1>4, <1>5 DEF Memory, Queues

LEMMA RangeOf ==
  ASSUME NEW h, NEW s, CellsOf(h, s)
  PROVE  /\ Range(s) = {s[i] : i \in 1 .. Len(s)} /\ Range(s) \subseteq Cells
         /\ s = <<>> <=> Len(s) = 0
BY DEF CellsOf, Range

\* The memory after a step, if its queues are known.
LEMMA MemoryStep ==
  ASSUME NEW s, NEW t, Queues(chain', live', s, t),
         Filled(data', live'), Sorted(data', t)
  PROVE  Memory' /\ Forward(List)' = s /\ Forward(Table)' = t
<1>1. Along(chain'.next, chain'.next[List]) = s /\ Along(chain'.next, chain'.next[Table]) = t
  BY Found
<1>2. Forward(List)' = s /\ Forward(Table)' = t
  BY <1>1 DEF Forward
<1> QED BY <1>2 DEF Memory

\* What holds of the data after some cells were given back.
LEMMA FreedData ==
  ASSUME Memory, NEW cells, NEW c, Free(c, cells)
  PROVE  /\ Filled(data', live')
         /\ live' = live \ cells
         /\ \A x \in Cells \ cells : data'[x] = data[x]
<1>1. data \in [Cells -> Datas \cup {None}] /\ \A x \in live : data[x] \in Datas
  BY DEF Memory, Filled
<1>2. live \subseteq Cells
  BY MemoryParts
<1>3. /\ data' = [x \in Cells |-> IF x \in cells THEN None ELSE data[x]]
      /\ live' = live \ cells
  BY DEF Free
<1>4. \A x \in Cells : data'[x] = IF x \in cells THEN None ELSE data[x]
  BY <1>3
<1>5. data' \in [Cells -> Datas \cup {None}]
  BY <1>1, <1>3
<1> QED BY <1>1, <1>2, <1>3, <1>4, <1>5 DEF Filled

LEMMA SortedCut ==
  ASSUME NEW dt, NEW du, NEW h, NEW s, CellsOf(h, s), Sorted(dt, s),
         NEW i \in 1 .. Len(s), \A x \in Range(s) \ {s[i]} : du[x] = dt[x]
  PROVE  Sorted(du, Cut(s, i))
<1> DEFINE t == Cut(s, i)
<1> USE DEF CellsOf
<1>1. /\ Len(t) = Len(s) - 1 /\ Len(s) \in Nat /\ i \in Int
      /\ \A j \in 1 .. Len(s) - 1 : t[j] = IF j < i THEN s[j] ELSE s[j + 1]
  <2>1. s \in Seq(Cells) /\ IsInjective(s) /\ Len(s) \in Nat
    OBVIOUS
  <2> QED BY ONLY <2>1, i \in 1 .. Len(s), CutIs
<1> HIDE DEF t
<1>2. \A j \in 1 .. Len(s) : j # i => s[j] \in Range(s) \ {s[i]}
  BY DEF Range
<1>3. \A j, k \in 1 .. Len(s) : j < k => dt[s[j]] < dt[s[k]]
  BY DEF Sorted
<1> DEFINE from(j) == IF j < i THEN j ELSE j + 1
<1>4. \A j \in 1 .. Len(s) - 1 :
        from(j) \in 1 .. Len(s) /\ from(j) # i /\ t[j] = s[from(j)]
  BY <1>1
<1>5. \A j, k \in 1 .. Len(s) - 1 : j < k => from(j) < from(k)
  BY <1>1
<1> HIDE DEF from
<1>6. \A j \in 1 .. Len(s) - 1 : du[t[j]] = dt[s[from(j)]]
  BY <1>2, <1>4
<1>7. \A j, k \in 1 .. Len(s) - 1 : j < k => dt[s[from(j)]] < dt[s[from(k)]]
  BY <1>3, <1>4, <1>5
<1>8. \A j, k \in 1 .. Len(s) - 1 : j < k => du[t[j]] < du[t[k]]
  BY <1>6, <1>7
<1>9. Sorted(du, t)
  BY <1>1, <1>8 DEF Sorted
<1> QED BY <1>9 DEF t

\* Removal of one cell of the list, or of the table.
LEMMA UnlinkMemory ==
  ASSUME Memory, NEW i \in 1 .. Len(Forward(List)),
         Free(DTQ_Del(chain, Forward(List)[i]), {Forward(List)[i]})
  PROVE  /\ Memory'
         /\ Forward(List)' = Cut(Forward(List), i)
         /\ Forward(Table)' = Forward(Table)
<1> DEFINE s == Forward(List)
           t == Forward(Table)
           x == s[i]
<1>1. /\ ChainTyped(chain) /\ List \in Heads /\ Table \in Heads /\ List # Table
      /\ Queue(chain, List, s) /\ Queue(chain, Table, t)
      /\ CellsOf(List, s) /\ CellsOf(Table, t)
      /\ Range(s) \cap Range(t) = {} /\ Range(s) \cup Range(t) = live
      /\ i \in 1 .. Len(s)
  BY MemoryParts
<1>2. Sorted(data, t)
  BY DEF Memory
<1>3. chain' = Removed(chain, x)
  BY DEF Free, Removed
<1>4. Filled(data', live') /\ live' = live \ {x} /\ \A y \in Cells \ {x} : data'[y] = data[y]
  BY FreedData
<1> HIDE DEF s, t
<1>5. x \in Range(s) /\ x \notin Range(t) /\ Range(t) \subseteq Cells
  BY <1>1, RangeOf
<1>6. Range(Cut(s, i)) = Range(s) \ {x}
  <2>1. s \in Seq(Cells) /\ IsInjective(s) /\ i \in 1 .. Len(s)
    BY <1>1 DEF CellsOf
  <2> QED BY ONLY <2>1, CutIs
<1>7. Queue(chain', List, Cut(s, i))
  BY <1>1, <1>3, RemovedQueue DEF s
<1>8. Queue(chain', Table, t)
  BY <1>1, <1>3, RemovedOther DEF s
<1>9. ChainTyped(chain')
  BY <1>1, <1>3, RemovedIs DEF s
<1>10. Queues(chain', live', Cut(s, i), t)
  BY <1>1, <1>4, <1>5, <1>6, <1>7, <1>8, <1>9 DEF Queues
<1>11. Sorted(data', t)
  <2>1. \A k \in 1 .. Len(t) : t[k] \in Cells \ {x}
    BY <1>1, <1>5, RangeOf
  <2> QED BY <1>2, <1>4, <2>1 DEF Sorted
<1> QED BY <1>4, <1>10, <1>11, MemoryStep DEF s, t

LEMMA DeleteMemory ==
  ASSUME Memory, NEW i \in 1 .. Len(Forward(Table)),
         Free(DTQ_Del(chain, Forward(Table)[i]), {Forward(Table)[i]})
  PROVE  /\ Memory'
         /\ Forward(List)' = Forward(List)
         /\ Forward(Table)' = Cut(Forward(Table), i)
<1> DEFINE s == Forward(List)
           t == Forward(Table)
           x == t[i]
<1>1. /\ ChainTyped(chain) /\ List \in Heads /\ Table \in Heads /\ List # Table
      /\ Queue(chain, List, s) /\ Queue(chain, Table, t)
      /\ CellsOf(List, s) /\ CellsOf(Table, t)
      /\ Range(s) \cap Range(t) = {} /\ Range(s) \cup Range(t) = live
      /\ i \in 1 .. Len(t)
  BY MemoryParts
<1>2. Sorted(data, t)
  BY DEF Memory
<1>3. chain' = Removed(chain, x)
  BY DEF Free, Removed
<1>4. Filled(data', live') /\ live' = live \ {x} /\ \A y \in Cells \ {x} : data'[y] = data[y]
  BY FreedData
<1> HIDE DEF s, t
<1>5. x \in Range(t) /\ x \notin Range(s) /\ Range(t) \subseteq Cells
  BY <1>1, RangeOf
<1>6. Range(Cut(t, i)) = Range(t) \ {x}
  <2>1. t \in Seq(Cells) /\ IsInjective(t) /\ i \in 1 .. Len(t)
    BY <1>1 DEF CellsOf
  <2> QED BY ONLY <2>1, CutIs
<1>7. Queue(chain', Table, Cut(t, i))
  BY <1>1, <1>3, RemovedQueue DEF t
<1>8. Queue(chain', List, s)
  BY <1>1, <1>3, RemovedOther DEF t
<1>9. ChainTyped(chain')
  BY <1>1, <1>3, RemovedIs DEF t
<1>10. Queues(chain', live', s, Cut(t, i))
  BY <1>1, <1>4, <1>5, <1>6, <1>7, <1>8, <1>9 DEF Queues
<1>11. Sorted(data', Cut(t, i))
  BY <1>1, <1>2, <1>4, <1>5, SortedCut DEF t
<1> QED BY <1>4, <1>10, <1>11, MemoryStep DEF s, t

LEMMA DeleteListMemory ==
  ASSUME Memory, DeleteList
  PROVE  /\ Memory'
         /\ Forward(List)' = <<>> /\ Forward(Table)' = Forward(Table)
         /\ \A y \in Range(Forward(Table)) : data'[y] = data[y]
<1> DEFINE s == Forward(List)
           t == Forward(Table)
<1>1. /\ ChainTyped(chain) /\ List \in Heads /\ Table \in Heads /\ List # Table
      /\ Queue(chain, List, s) /\ Queue(chain, Table, t)
      /\ CellsOf(List, s) /\ CellsOf(Table, t)
      /\ Range(s) \cap Range(t) = {} /\ Range(s) \cup Range(t) = live
  BY MemoryParts
<1>2. Sorted(data, t)
  BY DEF Memory
<1>3. chain' = Emptied(chain, List, Range(s))
  BY DEF DeleteList, Free, Emptied
<1>4. /\ Filled(data', live') /\ live' = live \ Range(s)
      /\ \A y \in Cells \ Range(s) : data'[y] = data[y]
  BY FreedData DEF DeleteList
<1> HIDE DEF s, t
<1>5. /\ ChainTyped(chain') /\ Queue(chain', List, <<>>) /\ Queue(chain', Table, t)
  BY <1>1, <1>3, EmptiedIs
<1>6. Range(<<>>) = {}
  BY DEF Range
<1>7. Queues(chain', live', <<>>, t)
  BY <1>1, <1>4, <1>5, <1>6 DEF Queues
<1>8. Range(t) \subseteq Cells \ Range(s)
  BY <1>1, RangeOf
<1>9. Sorted(data', t)
  <2>1. \A k \in 1 .. Len(t) : t[k] \in Cells \ Range(s)
    BY <1>1, <1>8, RangeOf
  <2> QED BY <1>2, <1>4, <2>1 DEF Sorted
<1> QED BY <1>4, <1>7, <1>8, <1>9, MemoryStep DEF s, t

LEMMA AllocatedData ==
  ASSUME Memory, NEW x \in Cells \ live, NEW v \in Datas, Allocate(x, v)
  PROVE  /\ Filled(data', live')
         /\ live' = live \cup {x} /\ data'[x] = v
         /\ \A y \in Cells \ {x} : data'[y] = data[y]
<1>1. data \in [Cells -> Datas \cup {None}] /\ \A y \in live : data[y] \in Datas
  BY DEF Memory, Filled
<1>2. live \subseteq Cells
  BY MemoryParts
<1>3. data' = [data EXCEPT ![x] = v] /\ live' = live \cup {x}
  BY DEF Allocate
<1>4. /\ data' \in [Cells -> Datas \cup {None}]
      /\ \A y \in Cells : data'[y] = IF y = x THEN v ELSE data[y]
  BY <1>1, <1>3
<1> QED BY <1>1, <1>2, <1>3, <1>4 DEF Filled

LEMMA SortedPut ==
  ASSUME NEW dt, NEW du, NEW h, NEW s, CellsOf(h, s), Sorted(dt, s),
         NEW i \in 1 .. Len(s) + 1, NEW x \in Cells, x \notin Range(s),
         \A y \in Range(s) : du[y] = dt[y],
         \A j \in 1 .. i - 1 : dt[s[j]] < du[x],
         \A j \in i .. Len(s) : du[x] < dt[s[j]]
  PROVE  Sorted(du, Put(s, i, x))
<1> DEFINE t == Put(s, i, x)
<1> USE DEF CellsOf
<1>1. /\ Len(t) = Len(s) + 1 /\ Len(s) \in Nat /\ i \in Int
      /\ \A j \in 1 .. Len(s) + 1 : t[j] =
           IF j < i THEN s[j] ELSE IF j = i THEN x ELSE s[j - 1]
  <2>1. s \in Seq(Cells) /\ IsInjective(s) /\ Len(s) \in Nat
    OBVIOUS
  <2> QED BY ONLY <2>1, i \in 1 .. Len(s) + 1, x \in Cells, x \notin Range(s), PutIs
<1> HIDE DEF t
<1>2. \A j \in 1 .. Len(s) : s[j] \in Range(s) /\ du[s[j]] = dt[s[j]]
  BY DEF Range
<1>3. \A j, k \in 1 .. Len(s) : j < k => dt[s[j]] < dt[s[k]]
  BY DEF Sorted
<1> DEFINE from(j) == IF j < i THEN j ELSE j - 1
<1>4. \A j \in 1 .. Len(s) + 1 :
        j # i => from(j) \in 1 .. Len(s) /\ t[j] = s[from(j)]
  BY <1>1
<1>5. t[i] = x
  BY <1>1
<1> SUFFICES ASSUME NEW j \in 1 .. Len(s) + 1, NEW k \in 1 .. Len(s) + 1, j < k
             PROVE  du[t[j]] < du[t[k]]
  BY <1>1 DEF Sorted, t
<1>6. CASE j # i /\ k # i
  <2>1. from(j) < from(k)
    BY <1>1, <1>6
  <2> HIDE DEF from
  <2> QED BY <1>2, <1>3, <1>4, <1>6, <2>1
<1>7. CASE j = i
  <2>1. k # i /\ from(k) \in i .. Len(s)
    BY <1>1, <1>7
  <2> HIDE DEF from
  <2> QED BY <1>2, <1>4, <1>5, <1>7, <2>1
<1>8. CASE k = i
  <2>1. j # i /\ from(j) \in 1 .. i - 1
    BY <1>1, <1>8
  <2> HIDE DEF from
  <2> QED BY <1>2, <1>4, <1>5, <1>8, <2>1
<1> QED BY <1>6, <1>7, <1>8

\* A new cell at the end of the list.
LEMMA AddMemory ==
  ASSUME Memory, NEW x \in Cells \ live, NEW v \in Datas, Allocate(x, v),
         chain' = DTQ_AddTail(chain, List, x)
  PROVE  /\ Memory'
         /\ Forward(List)' = Put(Forward(List), Len(Forward(List)) + 1, x)
         /\ Forward(Table)' = Forward(Table)
<1> DEFINE s == Forward(List)
           t == Forward(Table)
           i == Len(s) + 1
<1>1. /\ ChainTyped(chain) /\ List \in Heads /\ Table \in Heads /\ List # Table
      /\ Queue(chain, List, s) /\ Queue(chain, Table, t)
      /\ CellsOf(List, s) /\ CellsOf(Table, t)
      /\ Range(s) \cap Range(t) = {} /\ Range(s) \cup Range(t) = live
  BY MemoryParts
<1>2. Sorted(data, t)
  BY DEF Memory
<1>3. Filled(data', live') /\ live' = live \cup {x} /\ \A y \in Cells \ {x} : data'[y] = data[y]
  BY AllocatedData
<1> HIDE DEF s, t
<1>4. i \in 1 .. Len(s) + 1 /\ i \notin 1 .. Len(s)
  BY <1>1 DEF CellsOf
<1>5. chain' = DTQ_AddBefore(chain, Nth(List, s, i), x)
  <2>1. Nth(List, s, i) = List
    BY <1>1, <1>4 DEF CellsOf
  <2> QED BY <2>1 DEF DTQ_AddTail
<1>6. x \in Cells /\ x \notin Range(s) /\ x \notin Range(t) /\ Range(t) \subseteq Cells
  BY <1>1, RangeOf
<1> HIDE DEF i
<1>7. Range(Put(s, i, x)) = Range(s) \cup {x}
  <2>1. s \in Seq(Cells) /\ IsInjective(s)
    BY <1>1 DEF CellsOf
  <2> QED BY ONLY <1>4, <1>6, <2>1, PutIs
<1>8. Queue(chain', List, Put(s, i, x))
  BY <1>1, <1>4, <1>5, <1>6, AddedQueue
<1>9. Queue(chain', Table, t)
  BY <1>1, <1>4, <1>5, <1>6, AddedOther
<1>10. ChainTyped(chain')
  BY <1>1, <1>4, <1>5, <1>6, AddedIs
<1>11. Queues(chain', live', Put(s, i, x), t)
  BY <1>1, <1>3, <1>6, <1>7, <1>8, <1>9, <1>10 DEF Queues
<1>12. Sorted(data', t)
  <2>1. \A k \in 1 .. Len(t) : t[k] \in Cells \ {x}
    BY <1>1, <1>6, RangeOf
  <2> QED BY <1>2, <1>3, <2>1 DEF Sorted
<1> QED BY <1>3, <1>11, <1>12, MemoryStep DEF s, t, i

\* A new cell in the table, at the place of its key.
LEMMA InsertMemory ==
  ASSUME Memory, NEW x \in Cells \ live, NEW v \in Datas, Allocate(x, v),
         NEW i \in 1 .. Len(Forward(Table)) + 1,
         chain' = DTQ_AddBefore(chain, Nth(Table, Forward(Table), i), x),
         \A j \in 1 .. i - 1 : data[Forward(Table)[j]] < v,
         \A j \in i .. Len(Forward(Table)) : v < data[Forward(Table)[j]]
  PROVE  /\ Memory'
         /\ Forward(List)' = Forward(List)
         /\ Forward(Table)' = Put(Forward(Table), i, x)
<1> DEFINE s == Forward(List)
           t == Forward(Table)
<1>1. /\ ChainTyped(chain) /\ List \in Heads /\ Table \in Heads /\ List # Table
      /\ Queue(chain, List, s) /\ Queue(chain, Table, t)
      /\ CellsOf(List, s) /\ CellsOf(Table, t)
      /\ Range(s) \cap Range(t) = {} /\ Range(s) \cup Range(t) = live
      /\ i \in 1 .. Len(t) + 1
      /\ chain' = DTQ_AddBefore(chain, Nth(Table, t, i), x)
      /\ \A j \in 1 .. i - 1 : data[t[j]] < v
      /\ \A j \in i .. Len(t) : v < data[t[j]]
  BY MemoryParts
<1>2. Sorted(data, t)
  BY DEF Memory
<1>3. /\ Filled(data', live') /\ live' = live \cup {x}
      /\ data'[x] = v /\ \A y \in Cells \ {x} : data'[y] = data[y]
  BY AllocatedData
<1> HIDE DEF s, t
<1>4. x \in Cells /\ x \notin Range(s) /\ x \notin Range(t) /\ Range(t) \subseteq Cells
  BY <1>1, RangeOf
<1>5. Range(Put(t, i, x)) = Range(t) \cup {x}
  <2>1. t \in Seq(Cells) /\ IsInjective(t) /\ i \in 1 .. Len(t) + 1
    BY <1>1 DEF CellsOf
  <2> QED BY ONLY <1>4, <2>1, PutIs
<1>6. Queue(chain', Table, Put(t, i, x))
  BY <1>1, <1>4, AddedQueue
<1>7. Queue(chain', List, s)
  BY <1>1, <1>4, AddedOther
<1>8. ChainTyped(chain')
  BY <1>1, <1>4, AddedIs
<1>9. Queues(chain', live', s, Put(t, i, x))
  BY <1>1, <1>3, <1>4, <1>5, <1>6, <1>7, <1>8 DEF Queues
<1>10. Sorted(data', Put(t, i, x))
  <2>1. /\ \A y \in Range(t) : data'[y] = data[y]
        /\ \A j \in 1 .. i - 1 : data[t[j]] < data'[x]
        /\ \A j \in i .. Len(t) : data'[x] < data[t[j]]
    BY <1>1, <1>3, <1>4
  <2> QED BY <1>1, <1>2, <1>4, <2>1, SortedPut
<1> QED BY <1>3, <1>9, <1>10, MemoryStep DEF s, t

LEMMA SameMemory ==
  ASSUME Memory, UNCHANGED <<chain, data, live>>
  PROVE  Memory' /\ Forward(List)' = Forward(List) /\ Forward(Table)' = Forward(Table)
BY DEF Memory, Forward

LEMMA LookUp ==
  ASSUME Memory, NEW v
  PROVE  \/ /\ FindNode(v) = Null
            /\ \A i \in 1 .. Len(Forward(List)) : data[Forward(List)[i]] # v
         \/ \E i \in 1 .. Len(Forward(List)) :
              /\ FindNode(v) = Forward(List)[i] /\ data[Forward(List)[i]] = v
              /\ Forward(List)[i] # Null
              /\ \A j \in 1 .. i - 1 : data[Forward(List)[j]] # v
<1> DEFINE s == Forward(List)
           held == Holding({v})
<1>1. List \in Heads /\ Queue(chain, List, s) /\ CellsOf(List, s)
  BY MemoryParts
<1>2. FindNode(v) = FirstOf(List, held)
  BY DEF FindNode
<1> HIDE DEF s
<1>3. \A i \in 1 .. Len(s) : (s[i] \in held <=> data[s[i]] = v) /\ s[i] # Null
  BY <1>1, HeadsApart DEF CellsOf, Holding
<1>4. \/ FirstOf(List, held) = Null /\ Range(s) \cap held = {}
      \/ \E i \in 1 .. Len(s) :
           /\ FirstOf(List, held) = s[i] /\ s[i] \in held
           /\ \A j \in 1 .. i - 1 : s[j] \notin held
  BY <1>1, FirstOfIs
<1> HIDE DEF held
<1>5. CASE FirstOf(List, held) = Null /\ Range(s) \cap held = {}
  <2>1. \A i \in 1 .. Len(s) : s[i] \in Range(s)
    BY <1>1, RangeOf
  <2> QED BY <1>2, <1>3, <1>5, <2>1 DEF s
<1>6. CASE \E i \in 1 .. Len(s) :
             /\ FirstOf(List, held) = s[i] /\ s[i] \in held
             /\ \A j \in 1 .. i - 1 : s[j] \notin held
  <2>1. PICK i \in 1 .. Len(s) :
          /\ FirstOf(List, held) = s[i] /\ s[i] \in held
          /\ \A j \in 1 .. i - 1 : s[j] \notin held
    BY <1>6
  <2>2. \A j \in 1 .. i - 1 : j \in 1 .. Len(s)
    BY <1>1 DEF CellsOf
  <2> QED BY <1>2, <1>3, <2>1, <2>2 DEF s
<1> QED BY <1>4, <1>5, <1>6

\* The cell behind a cell of the list, and the first one.
After(s, i) == IF i < Len(s) THEN s[i + 1] ELSE Null

LEMMA NextIs ==
  ASSUME Memory
  PROVE  /\ Following(List, List) = After(Forward(List), 0)
         /\ GetNextNode(Null) = After(Forward(List), 0)
         /\ \A i \in 1 .. Len(Forward(List)) :
              /\ Following(List, Forward(List)[i]) = After(Forward(List), i)
              /\ GetNextNode(Forward(List)[i]) = After(Forward(List), i)
<1> DEFINE s == Forward(List)
<1>1. List \in Heads /\ Queue(chain, List, s) /\ CellsOf(List, s)
  BY MemoryParts
<1> HIDE DEF s
<1>2. \A i \in 0 .. Len(s) : Following(List, Nth(List, s, i)) = After(s, i)
  BY <1>1, FollowingIs DEF After
<1>3. Following(List, List) = After(s, 0)
  <2>1. 0 \in 0 .. Len(s) /\ Nth(List, s, 0) = List
    BY <1>1 DEF CellsOf
  <2> QED BY <1>2, <2>1
<1>4. GetNextNode(Null) = Following(List, List)
  BY DEF GetNextNode
<1>5. ASSUME NEW i \in 1 .. Len(s)
      PROVE  Following(List, s[i]) = After(s, i) /\ GetNextNode(s[i]) = After(s, i)
  <2>1. i \in 0 .. Len(s) /\ Nth(List, s, i) = s[i] /\ s[i] # Null
    BY <1>1, HeadsApart DEF CellsOf
  <2>2. Following(List, s[i]) = After(s, i)
    BY <1>2, <2>1
  <2>3. FindNode(data[s[i]]) # Null
    BY LookUp DEF s
  <2> QED BY <2>1, <2>2, <2>3 DEF GetNextNode
<1> QED BY <1>3, <1>4, <1>5 DEF s

LEMMA AfterIs ==
  ASSUME NEW h, NEW s, CellsOf(h, s), NEW i \in 0 .. Len(s)
  PROVE  /\ After(s, i) = Null <=> i = Len(s)
         /\ After(s, i) # Null =>
              i + 1 \in 1 .. Len(s) /\ After(s, i) = s[i + 1] /\ s[i + 1] \in Cells
<1>1. Len(s) \in Nat /\ i \in Int /\ 0 <= i /\ i <= Len(s)
  BY DEF CellsOf
<1>2. CASE i < Len(s)
  <2>1. i + 1 \in 1 .. Len(s) /\ i # Len(s)
    BY ONLY <1>1, <1>2
  <2>2. s[i + 1] \in Cells /\ s[i + 1] # Null
    BY <2>1, HeadsApart DEF CellsOf
  <2> QED BY <1>2, <2>1, <2>2 DEF After
<1>3. CASE ~(i < Len(s))
  <2>1. i = Len(s)
    BY ONLY <1>1, <1>3
  <2> QED BY <1>3, <2>1 DEF After
<1> QED BY <1>2, <1>3

LEMMA NotWalking ==
  ASSUME NEW dt, NEW s
  PROVE  NoWalk \in Handles /\ Walking(NoWalk, dt, s)
BY HeadsApart DEF NoWalk, Handles, Walking

\* A walk does not notice what happens to other cells.
LEMMA WalkingSame ==
  ASSUME NEW w, NEW dt, NEW du, NEW s, CellsOf(List, s), Walking(w, dt, s),
         \A x \in Range(s) : du[x] = dt[x]
  PROVE  Walking(w, du, s)
<1>1. \A i \in 1 .. Len(s) : s[i] \in Range(s) /\ du[s[i]] = dt[s[i]]
  BY RangeOf
<1>2. w.at \in Cells => w.at \in Range(s)
  BY DEF Walking
<1>3. s # <<>> => 1 \in 1 .. Len(s)
  BY RangeOf DEF CellsOf
<1>4. w.kind = "drain" => Draining(w, du, s)
  BY <1>1 DEF Walking, Draining
<1>5. w.kind = "scan" => Scanning(w, du)
  BY <1>2 DEF Walking, Scanning
<1>6. w.kind = "first" => TakingFirst(w, du, s)
  BY <1>1, <1>3 DEF Walking, TakingFirst
<1> QED BY <1>2, <1>4, <1>5, <1>6 DEF Walking

LEMMA InvParts ==
  ASSUME Inv
  PROVE  /\ Memory /\ CellsOf(List, Forward(List)) /\ CellsOf(Table, Forward(Table))
         /\ \A i \in 1 .. Len(Forward(List)) : data[Forward(List)[i]] \in Datas
         /\ \A i \in 1 .. Len(Forward(Table)) : data[Forward(Table)[i]] \in Datas
         /\ fresh \subseteq Range(Forward(List))
         /\ walk \in Handles /\ Walking(walk, data, Forward(List))
         /\ answer \in Answers /\ None \notin Datas
<1>1. Memory
  BY DEF Inv
<1>2. /\ CellsOf(List, Forward(List)) /\ CellsOf(Table, Forward(Table))
      /\ Range(Forward(List)) \cup Range(Forward(Table)) = live
  BY <1>1, MemoryParts
<1>3. \A x \in live : data[x] \in Datas
  BY <1>1 DEF Memory, Filled
<1>4. \A i \in 1 .. Len(Forward(List)) : data[Forward(List)[i]] \in Datas
  BY <1>2, <1>3, RangeOf
<1>5. \A i \in 1 .. Len(Forward(Table)) : data[Forward(Table)[i]] \in Datas
  BY <1>2, <1>3, RangeOf
<1> QED BY <1>1, <1>2, <1>4, <1>5, DatasAssumption DEF Inv

(***************************************************************************)
(* Every step preserves it.                                                *)
(***************************************************************************)

LEMMA InitInv == Init => Inv
<1> SUFFICES ASSUME Init PROVE Inv
  OBVIOUS
<1> DEFINE D == Cells \cup Heads
           own == [x \in D |-> IF x \in Heads THEN x ELSE Null]
<1>1. chain = [next |-> own, prev |-> own]
  BY DEF Init
<1>2. ChainTyped(chain)
  BY <1>1 DEF ChainTyped, Pointers
<1>3. \A h \in Heads : chain.next[h] = h /\ chain.prev[h] = h
  BY <1>1
<1>4. List \in Heads /\ Table \in Heads
  BY DEF Heads
<1>5. Queue(chain, List, <<>>) /\ Queue(chain, Table, <<>>)
  BY <1>3, <1>4, EmptyQueue
<1>6. Range(<<>>) = {}
  BY DEF Range
<1>7. Queues(chain, live, <<>>, <<>>)
  BY <1>2, <1>5, <1>6 DEF Queues, Init
<1>8. Forward(List) = <<>> /\ Forward(Table) = <<>>
  BY <1>7, Found DEF Forward
<1>9. Filled(data, live) /\ Sorted(data, <<>>)
  BY DEF Filled, Sorted, Init
<1>10. Memory
  BY <1>7, <1>8, <1>9 DEF Memory
<1>11. fresh = {} /\ walk = NoWalk /\ answer \in Answers
  BY DEF Init, Answers
<1> QED BY <1>10, <1>11, NotWalking DEF Inv

\* A removal from the list, whatever becomes of the walk.
LEMMA UnlinkStep ==
  ASSUME Inv, NEW i \in 1 .. Len(Forward(List)), Unlink(Forward(List)[i])
  PROVE  /\ Memory' /\ fresh' = {}
         /\ Forward(List)' = Cut(Forward(List), i)
         /\ Forward(Table)' = Forward(Table)
         /\ Range(Forward(List)') = Range(Forward(List)) \ {Forward(List)[i]}
<1> DEFINE s == Forward(List)
<1>1. Memory /\ CellsOf(List, s)
  BY InvParts
<1>2. Free(DTQ_Del(chain, s[i]), {s[i]}) /\ fresh' = {}
  BY DEF Unlink
<1>3. /\ Memory' /\ Forward(List)' = Cut(s, i)
      /\ Forward(Table)' = Forward(Table)
  BY <1>1, <1>2, UnlinkMemory
<1> HIDE DEF s
<1>4. Range(Cut(s, i)) = Range(s) \ {s[i]}
  <2>1. s \in Seq(Cells) /\ IsInjective(s) /\ i \in 1 .. Len(s)
    BY <1>1 DEF CellsOf, s
  <2> QED BY ONLY <2>1, CutIs
<1> QED BY <1>2, <1>3, <1>4 DEF s

LEMMA AddNodeInv ==
  ASSUME Inv, AddNode
  PROVE  Inv'
<1> DEFINE s == Forward(List)
<1>1. Memory /\ CellsOf(List, s)
  BY InvParts
<1>2. PICK v \in Datas, x \in Cells \ live :
        /\ Allocate(x, v) /\ fresh' = {x}
        /\ chain' = DTQ_AddTail(chain, List, x)
  BY DEF AddNode
<1>3. walk = NoWalk /\ walk' = walk /\ answer' = NoAnswer
  BY DEF AddNode
<1>4. Memory' /\ Forward(List)' = Put(s, Len(s) + 1, x)
  BY <1>1, <1>2, AddMemory
<1>5. Range(s) \subseteq live
  BY <1>1, MemoryParts
<1> HIDE DEF s
<1>6. Range(Put(s, Len(s) + 1, x)) = Range(s) \cup {x}
  <2>1. s \in Seq(Cells) /\ IsInjective(s) /\ Len(s) + 1 \in 1 .. Len(s) + 1
    BY <1>1 DEF CellsOf
  <2>2. x \in Cells /\ x \notin Range(s)
    BY <1>2, <1>5
  <2> QED BY ONLY <2>1, <2>2, PutIs
<1>7. fresh' \subseteq Range(Forward(List)')
  BY <1>2, <1>4, <1>6
<1>8. answer' \in Answers
  BY <1>3 DEF Answers
<1> QED BY <1>3, <1>4, <1>7, <1>8, NotWalking DEF Inv

LEMMA RemoveNodeInv ==
  ASSUME Inv, RemoveNode
  PROVE  Inv'
<1>1. Memory
  BY InvParts
<1>2. PICK v \in Datas : FindNode(v) # Null /\ Unlink(FindNode(v))
  BY DEF RemoveNode
<1>3. walk = NoWalk /\ walk' = walk /\ answer' = NoAnswer
  BY DEF RemoveNode
<1>4. PICK i \in 1 .. Len(Forward(List)) : FindNode(v) = Forward(List)[i]
  BY <1>1, <1>2, LookUp
<1>5. Memory' /\ fresh' = {}
  BY <1>2, <1>4, UnlinkStep
<1>6. answer' \in Answers
  BY <1>3 DEF Answers
<1> QED BY <1>3, <1>5, <1>6, NotWalking DEF Inv

\* Steps that change no pointer.
LEMMA StillInv ==
  ASSUME Inv, UNCHANGED <<chain, data, live>>,
         fresh' \subseteq Range(Forward(List)),
         walk' \in Handles, Walking(walk', data, Forward(List)),
         answer' \in Answers
  PROVE  Inv'
<1>1. Memory' /\ Forward(List)' = Forward(List)
  BY InvParts, SameMemory
<1>2. data' = data
  OBVIOUS
<1> QED BY <1>1, <1>2 DEF Inv

LEMMA AskNextInv ==
  ASSUME Inv, AskNext
  PROVE  Inv'
<1> DEFINE s == Forward(List)
<1>1. /\ Memory /\ CellsOf(List, s) /\ fresh \subseteq Range(s)
      /\ walk \in Handles /\ Walking(walk, data, s)
      /\ \A i \in 1 .. Len(s) : data[s[i]] \in Datas
  BY InvParts
<1>2. PICK v \in Datas :
        LET x == FindNode(v)  y == GetNextNode(x) IN
          /\ x # Null
          /\ answer' = [of |-> List, after |-> v,
                        is |-> IF y = Null THEN None ELSE data[y]]
          /\ fresh' = fresh \cup ({y} \ {Null})
  BY DEF AskNext
<1>3. UNCHANGED <<chain, data, live, walk>>
  BY DEF AskNext
<1>4. PICK i \in 1 .. Len(s) : FindNode(v) = s[i]
  BY <1>1, <1>2, LookUp
<1> DEFINE y == After(s, i)
<1>5. GetNextNode(FindNode(v)) = y
  BY <1>1, <1>4, NextIs
<1> HIDE DEF s
<1>6. y = Null \/ (y \in Range(s) /\ data[y] \in Datas)
  <2>1. i \in 0 .. Len(s)
    OBVIOUS
  <2>2. y # Null => i + 1 \in 1 .. Len(s) /\ y = s[i + 1]
    BY <1>1, <2>1, AfterIs
  <2> QED BY <1>1, <2>2, RangeOf
<1> HIDE DEF y
<1>7. fresh' \subseteq Range(s)
  BY <1>1, <1>2, <1>5, <1>6
<1>8. answer' \in Answers
  <2> DEFINE is == IF y = Null THEN None ELSE data[y]
  <2>1. is \in Datas \cup {None}
    BY <1>6
  <2>2. answer' = [of |-> List, after |-> v, is |-> is]
    BY <1>2, <1>5
  <2> HIDE DEF is
  <2> QED BY <2>1, <2>2 DEF Answers, Heads
<1> QED BY <1>1, <1>3, <1>7, <1>8, StillInv DEF s

LEMMA StartWalkInv ==
  ASSUME Inv, StartWalk
  PROVE  Inv'
<1>1. PICK k \in {"drain", "scan", "first"} : walk' = [NoWalk EXCEPT !.kind = k]
  BY DEF StartWalk
<1>2. walk' = [kind |-> k, at |-> Null, taken |-> None]
  BY <1>1 DEF NoWalk
<1>3. UNCHANGED mem /\ answer' \in Answers
  BY DEF StartWalk, Answers
<1>4. walk' \in Handles
  BY <1>2 DEF Handles
<1>5. Walking(walk', data, Forward(List))
  BY <1>2, HeadsApart DEF Walking, Draining, Scanning, TakingFirst
<1> QED BY <1>3, <1>4, <1>5, InvParts, StillInv DEF mem

\* The cell that GetNextData copies: the stored one, or the first.
LEMMA CopiedCell ==
  ASSUME Inv, walk.kind = "drain", HasNextData
  PROVE  \E i \in 1 .. Len(Forward(List)) :
           /\ Forward(List)[i] = IF walk.at = Null THEN Following(List, List)
                                 ELSE walk.at
           /\ walk.at = Null => i = 1
           /\ walk.at = Null \/ walk.at = Forward(List)[i]
<1> DEFINE s == Forward(List)
<1>1. Memory /\ CellsOf(List, s) /\ walk \in Handles /\ Walking(walk, data, s)
  BY InvParts
<1>2. Following(List, List) = After(s, 0)
  BY <1>1, NextIs
<1> HIDE DEF s
<1>3. CASE walk.at = Null
  <2>1. 0 \in 0 .. Len(s) /\ After(s, 0) # Null
    BY <1>1, <1>2 DEF HasNextData, CellsOf
  <2>2. 1 \in 1 .. Len(s) /\ After(s, 0) = s[1]
    BY <1>1, <2>1, AfterIs
  <2> QED BY <1>2, <1>3, <2>2 DEF s
<1>4. CASE walk.at # Null
  <2>1. walk.at \in Cells
    BY <1>1, <1>4 DEF HasNextData, Handles
  <2>2. walk.at \in Range(s)
    BY <1>1, <2>1 DEF Walking
  <2>3. PICK i \in 1 .. Len(s) : walk.at = s[i]
    BY <1>1, <2>2, RangeOf
  <2> QED BY <1>4, <2>3 DEF s
<1> QED BY <1>3, <1>4

LEMMA GetNextDataInv ==
  ASSUME Inv, GetNextData
  PROVE  Inv'
<1> DEFINE s == Forward(List)
<1>1. /\ Memory /\ CellsOf(List, s) /\ fresh \subseteq Range(s)
      /\ walk \in Handles /\ Walking(walk, data, s)
      /\ \A i \in 1 .. Len(s) : data[s[i]] \in Datas
  BY InvParts
<1>2. /\ walk.kind = "drain" /\ HasNextData
      /\ UNCHANGED <<chain, data, live>> /\ answer' \in Answers
  BY DEF GetNextData, Answers
<1>3. PICK i \in 1 .. Len(s) :
        s[i] = IF walk.at = Null THEN Following(List, List) ELSE walk.at
  BY <1>2, CopiedCell
<1> DEFINE y  == After(s, i)
           at == IF y = Null THEN NotExist ELSE y
<1>4. Following(List, s[i]) = y
  BY <1>1, NextIs
<1>5. /\ walk' = [walk EXCEPT !.at = at, !.taken = data[s[i]]]
      /\ fresh' = fresh \cup ({y} \ {Null})
  BY <1>3, <1>4 DEF GetNextData, Step
<1>6. i \in 0 .. Len(s) /\ i \in 1 .. Len(s)
  OBVIOUS
<1> HIDE DEF s
<1>7. y # Null => i + 1 \in 1 .. Len(s) /\ y = s[i + 1] /\ y \in Cells
  BY <1>1, <1>6, AfterIs
<1>8. y # Null => y \in Range(s)
  BY <1>1, <1>7, RangeOf
<1>9. walk' = [kind |-> "drain", at |-> at, taken |-> data[s[i]]]
  BY <1>1, <1>2, <1>5 DEF Handles
<1> HIDE DEF y
<1>10. at \in Cells \cup {NotExist} /\ at # Null /\ (at \in Cells => y # Null /\ at = y)
  BY <1>7, HeadsApart
<1>11. walk' \in Handles
  BY <1>1, <1>6, <1>9, <1>10 DEF Handles
<1>12. Draining(walk', data, s)
  <2>1. at \in Cells => i < i + 1 /\ i + 1 \in 1 .. Len(s) /\ at = s[i + 1]
    BY <1>6, <1>7, <1>10
  <2> HIDE DEF at
  <2> QED BY <1>6, <1>9, <1>10, <2>1 DEF Draining
<1>13. Walking(walk', data, s)
  <2>1. at \in Cells => at \in Range(s)
    BY <1>8, <1>10
  <2> HIDE DEF at
  <2> QED BY <1>9, <1>12, <2>1 DEF Walking
<1>14. fresh' \subseteq Range(s)
  BY <1>1, <1>5, <1>8
<1> QED BY <1>2, <1>11, <1>13, <1>14, StillInv DEF s

LEMMA DrainBodyInv ==
  ASSUME Inv, DrainBody
  PROVE  Inv'
<1> DEFINE s == Forward(List)
<1>1. /\ Memory /\ CellsOf(List, s) /\ fresh \subseteq Range(s)
      /\ walk \in Handles /\ Walking(walk, data, s)
  BY InvParts
<1>2. /\ walk.kind = "drain" /\ walk.taken # None /\ answer' \in Answers
      /\ walk' = [walk EXCEPT !.at = walk.at, !.taken = None]
  BY DEF DrainBody, Step, Answers
<1>3. walk' = [kind |-> "drain", at |-> walk.at, taken |-> None]
  BY <1>1, <1>2 DEF Handles
<1>4. walk' \in Handles
  BY <1>1, <1>3 DEF Handles
<1>5. \A dt, t : Draining(walk', dt, t)
  BY <1>3 DEF Draining
<1>6. walk.at \in Cells => walk.at \in Range(s)
  BY <1>1 DEF Walking
<1>7. CASE UNCHANGED mem
  <2>1. Walking(walk', data, s)
    BY <1>3, <1>5, <1>6 DEF Walking
  <2> QED BY <1>1, <1>2, <1>4, <1>7, <2>1, StillInv DEF mem
<1>8. CASE FindNode(walk.taken) # Null /\ Unlink(FindNode(walk.taken))
  <2>1. PICK i \in 1 .. Len(s) :
          /\ FindNode(walk.taken) = s[i]
          /\ \A j \in 1 .. i - 1 : data[s[j]] # walk.taken
    BY <1>1, <1>8, LookUp
  <2>2. /\ Memory' /\ fresh' = {}
        /\ Range(Forward(List)') = Range(s) \ {s[i]}
    BY <1>8, <2>1, UnlinkStep
  <2> HIDE DEF s
  <2>3. walk.at \in Cells => walk.at # s[i]
    <3>1. SUFFICES ASSUME walk.at \in Cells, walk.at = s[i] PROVE FALSE
      OBVIOUS
    <3>2. PICK k, j \in 1 .. Len(s) :
            j < k /\ walk.at = s[k] /\ data[s[j]] = walk.taken
      BY <1>1, <1>2, <3>1 DEF Walking, Draining
    <3>3. k = i
      BY <1>1, <3>1, <3>2 DEF CellsOf
    <3>4. j \in 1 .. i - 1
      <4>1. j \in Int /\ 1 <= j /\ i \in Int /\ j < i
        BY <3>2, <3>3
      <4> QED BY ONLY <4>1
    <3> QED BY <2>1, <3>2, <3>4
  <2>4. Walking(walk', data', Forward(List)')
    BY <1>3, <1>5, <1>6, <2>2, <2>3 DEF Walking
  <2> QED BY <1>2, <1>4, <2>2, <2>4 DEF Inv
<1> QED BY <1>7, <1>8 DEF DrainBody

\* The end of a walk with the list deleted.
LEMMA DeletedInv ==
  ASSUME Inv, DeleteList, walk' = NoWalk, answer' = NoAnswer
  PROVE  Inv'
<1>1. Memory' /\ fresh' = {}
  BY InvParts, DeleteListMemory DEF DeleteList
<1>2. answer' \in Answers
  BY DEF Answers
<1> QED BY <1>1, <1>2, NotWalking DEF Inv

\* The end of a walk with the list left as it is.
LEMMA LeftInv ==
  ASSUME Inv, UNCHANGED mem, walk' = NoWalk, answer' = NoAnswer
  PROVE  Inv'
<1>1. answer' \in Answers
  BY DEF Answers
<1> QED BY <1>1, NotWalking, InvParts, StillInv DEF mem

LEMMA ScanNextInv ==
  ASSUME Inv, ScanNext
  PROVE  Inv'
<1> DEFINE s == Forward(List)
<1>1. /\ Memory /\ CellsOf(List, s) /\ fresh \subseteq Range(s)
      /\ walk \in Handles /\ Walking(walk, data, s)
      /\ \A i \in 1 .. Len(s) : data[s[i]] \in Datas
  BY InvParts
<1> DEFINE y == GetNextNode(walk.at)
<1>2. /\ walk.kind = "scan" /\ y # Null /\ fresh' = fresh \cup {y}
      /\ walk' = [walk EXCEPT !.at = y, !.taken = data[y]]
      /\ UNCHANGED <<chain, data, live>> /\ answer' \in Answers
  BY DEF ScanNext, Step, Answers
<1>3. PICK i \in 0 .. Len(s) : y = After(s, i)
  <2>1. walk.at = Null \/ walk.at \in Range(s)
    BY <1>1, <1>2 DEF Handles, Walking, Scanning
  <2>2. CASE walk.at = Null
    <3>1. y = After(s, 0) /\ 0 \in 0 .. Len(s)
      BY <1>1, <2>2, NextIs DEF CellsOf
    <3> QED BY <3>1
  <2>3. CASE walk.at \in Range(s)
    <3>1. PICK i \in 1 .. Len(s) : walk.at = s[i]
      BY <1>1, <2>3, RangeOf
    <3>2. y = After(s, i) /\ i \in 0 .. Len(s)
      BY <1>1, <3>1, NextIs
    <3> QED BY <3>2
  <2> QED BY <2>1, <2>2, <2>3
<1> HIDE DEF s, y
<1>4. i + 1 \in 1 .. Len(s) /\ y = s[i + 1] /\ y \in Cells
  BY <1>1, <1>2, <1>3, AfterIs
<1>5. y \in Range(s) /\ data[y] \in Datas
  BY <1>1, <1>4, RangeOf
<1>6. walk' = [kind |-> "scan", at |-> y, taken |-> data[y]]
  BY <1>1, <1>2 DEF Handles
<1>7. walk' \in Handles
  BY <1>4, <1>5, <1>6 DEF Handles
<1>8. Walking(walk', data, s)
  BY <1>4, <1>5, <1>6, HeadsApart DEF Walking, Scanning
<1> QED BY <1>1, <1>2, <1>5, <1>7, <1>8, StillInv DEF s

LEMMA FirstNextInv ==
  ASSUME Inv, FirstNext
  PROVE  Inv'
<1> DEFINE s == Forward(List)
<1>1. /\ Memory /\ CellsOf(List, s) /\ fresh \subseteq Range(s)
      /\ walk \in Handles /\ None \notin Datas
      /\ \A i \in 1 .. Len(s) : data[s[i]] \in Datas
  BY InvParts
<1> DEFINE y == GetNextNode(Null)
<1>2. /\ walk.kind = "first" /\ y # Null /\ fresh' = fresh \cup {y}
      /\ walk' = [walk EXCEPT !.at = y, !.taken = data[y]]
      /\ UNCHANGED <<chain, data, live>> /\ answer' \in Answers
  BY DEF FirstNext, Step, Answers
<1>3. y = After(s, 0) /\ 0 \in 0 .. Len(s)
  BY <1>1, NextIs DEF CellsOf
<1> HIDE DEF s, y
<1>4. 0 + 1 \in 1 .. Len(s) /\ y = s[0 + 1] /\ y \in Cells
  BY <1>1, <1>2, <1>3, AfterIs
<1>5. y \in Range(s) /\ data[y] \in Datas /\ y = s[1] /\ s # <<>>
  BY <1>1, <1>4, RangeOf
<1>6. walk' = [kind |-> "first", at |-> y, taken |-> data[y]]
  BY <1>1, <1>2 DEF Handles
<1>7. walk' \in Handles
  BY <1>4, <1>5, <1>6 DEF Handles
<1>8. Walking(walk', data, s)
  BY <1>1, <1>4, <1>5, <1>6 DEF Walking, TakingFirst
<1> QED BY <1>1, <1>2, <1>5, <1>7, <1>8, StillInv DEF s

LEMMA FirstTaken ==
  ASSUME Inv, walk.kind = "first", walk.taken # None
  PROVE  /\ 1 \in 1 .. Len(Forward(List)) /\ walk.at = Forward(List)[1]
         /\ walk.taken = data[Forward(List)[1]]
<1>1. CellsOf(List, Forward(List)) /\ Walking(walk, data, Forward(List))
  BY InvParts
<1>2. /\ Forward(List) # <<>> /\ walk.at = Forward(List)[1]
      /\ walk.taken = data[Forward(List)[1]]
  BY <1>1 DEF Walking, TakingFirst
<1> QED BY <1>1, <1>2, RangeOf DEF CellsOf

LEMMA FirstBodyInv ==
  ASSUME Inv, FirstBody
  PROVE  Inv'
<1>1. /\ walk.kind = "first" /\ walk.taken # None /\ Unlink(walk.at)
      /\ walk' = [walk EXCEPT !.at = Null, !.taken = None]
      /\ answer' \in Answers /\ walk \in Handles
  BY InvParts DEF FirstBody, Step, Answers
<1>2. 1 \in 1 .. Len(Forward(List)) /\ walk.at = Forward(List)[1]
  BY <1>1, FirstTaken
<1>3. Memory' /\ fresh' = {}
  BY <1>1, <1>2, UnlinkStep
<1>4. walk' = [kind |-> "first", at |-> Null, taken |-> None]
  BY <1>1 DEF Handles
<1>5. walk' \in Handles
  BY <1>4 DEF Handles
<1>6. Walking(walk', data', Forward(List)')
  BY <1>4, HeadsApart DEF Walking, TakingFirst
<1> QED BY <1>1, <1>3, <1>5, <1>6 DEF Inv

(***************************************************************************)
(* The table.                                                              *)
(***************************************************************************)

\* The place of a key: that of the first cell whose key is not smaller, or
\* behind all cells.
LEMMA KeyPlace ==
  ASSUME Memory, NEW k \in Nat
  PROVE  LET t == Forward(Table)  p == FirstOf(Table, Holding(From(k)))
         IN \E i \in 1 .. Len(t) + 1 :
              /\ p = IF i = Len(t) + 1 THEN Null ELSE t[i]
              /\ i # Len(t) + 1 => p # Null /\ data[p] >= k
              /\ \A j \in 1 .. i - 1 : data[t[j]] < k
<1> DEFINE t == Forward(Table)
           held == Holding(From(k))
           p == FirstOf(Table, held)
<1>1. /\ Table \in Heads /\ Queue(chain, Table, t) /\ CellsOf(Table, t)
      /\ Range(t) \subseteq live
  BY MemoryParts
<1>2. \A x \in live : data[x] \in Datas
  BY DEF Memory, Filled
<1>3. Datas \subseteq Nat
  BY DatasAssumption
<1> HIDE DEF t
<1>4. \A i \in 1 .. Len(t) : /\ t[i] \in Range(t) /\ t[i] # Null
                             /\ data[t[i]] \in Nat
                             /\ t[i] \in held <=> data[t[i]] >= k
  <2> SUFFICES ASSUME NEW i \in 1 .. Len(t)
               PROVE  /\ t[i] \in Range(t) /\ t[i] # Null
                      /\ data[t[i]] \in Nat
                      /\ t[i] \in held <=> data[t[i]] >= k
    OBVIOUS
  <2>1. t[i] \in Range(t) /\ t[i] \in Cells /\ t[i] # Null
    BY <1>1, RangeOf, HeadsApart
  <2>2. data[t[i]] \in Datas
    BY <1>1, <1>2, <2>1
  <2> QED BY <1>3, <2>1, <2>2 DEF Holding, From
<1>5. \/ p = Null /\ Range(t) \cap held = {}
      \/ \E i \in 1 .. Len(t) :
           /\ p = t[i] /\ t[i] \in held
           /\ \A j \in 1 .. i - 1 : t[j] \notin held
  BY <1>1, FirstOfIs
<1>6. Len(t) \in Nat /\ k \in Nat
  BY <1>1, <1>3 DEF CellsOf
<1> HIDE DEF held, p
<1>7. CASE p = Null /\ Range(t) \cap held = {}
  <2> DEFINE i == Len(t) + 1
  <2>1. i \in 1 .. Len(t) + 1 /\ i - 1 = Len(t)
    BY <1>6
  <2>2. \A j \in 1 .. Len(t) : data[t[j]] < k
    BY <1>4, <1>6, <1>7
  <2> QED BY <1>7, <2>1, <2>2 DEF t, p, held
<1>8. CASE \E i \in 1 .. Len(t) :
             /\ p = t[i] /\ t[i] \in held
             /\ \A j \in 1 .. i - 1 : t[j] \notin held
  <2>1. PICK i \in 1 .. Len(t) :
          /\ p = t[i] /\ t[i] \in held
          /\ \A j \in 1 .. i - 1 : t[j] \notin held
    BY <1>8
  <2>2. i \in 1 .. Len(t) + 1 /\ i # Len(t) + 1 /\ \A j \in 1 .. i - 1 : j \in 1 .. Len(t)
    BY <1>6
  <2>3. \A j \in 1 .. i - 1 : data[t[j]] < k
    BY <1>4, <1>6, <2>1, <2>2
  <2>4. p = t[i] /\ p # Null /\ data[p] >= k
    BY <1>4, <2>1
  <2> QED BY <2>2, <2>3, <2>4 DEF t, p, held
<1> QED BY <1>5, <1>7, <1>8

\* Write either finds the key or puts it at its place.
LEMMA WriteIs ==
  ASSUME Inv, Write
  PROVE  \E k \in Datas :
           \/ /\ \E i \in 1 .. Len(Forward(Table)) : data[Forward(Table)[i]] = k
              /\ UNCHANGED mem
           \/ \E x \in Cells \ live, i \in 1 .. Len(Forward(Table)) + 1 :
                /\ Allocate(x, k) /\ fresh' = fresh
                /\ Memory' /\ Forward(List)' = Forward(List)
                /\ Forward(Table)' = Put(Forward(Table), i, x)
<1> DEFINE t == Forward(Table)
           p(k) == FirstOf(Table, Holding(From(k)))
<1>1. PICK k \in Datas :
        IF p(k) # Null /\ data[p(k)] = k THEN UNCHANGED mem
        ELSE \E x \in Cells \ live :
               /\ Allocate(x, k) /\ fresh' = fresh
               /\ chain' = IF p(k) = Null THEN DTQ_AddTail(chain, Table, x)
                           ELSE DTQ_AddBefore(chain, p(k), x)
  BY DEF Write
<1>2. /\ Memory /\ CellsOf(Table, t)
      /\ \A i \in 1 .. Len(t) : data[t[i]] \in Nat
  BY InvParts, DatasAssumption
<1>3. k \in Nat /\ Len(t) \in Nat
  BY <1>2, DatasAssumption DEF CellsOf
<1>4. PICK i \in 1 .. Len(t) + 1 :
        /\ p(k) = IF i = Len(t) + 1 THEN Null ELSE t[i]
        /\ i # Len(t) + 1 => p(k) # Null /\ data[p(k)] >= k
        /\ \A j \in 1 .. i - 1 : data[t[j]] < k
  BY <1>2, <1>3, KeyPlace
<1>5. Sorted(data, t)
  BY <1>2 DEF Memory
<1> HIDE DEF p, t
<1>6. i # Len(t) + 1 => i \in 1 .. Len(t)
  BY <1>3
<1>7. CASE p(k) # Null /\ data[p(k)] = k
  <2>1. i \in 1 .. Len(t) /\ data[t[i]] = k
    BY <1>4, <1>6, <1>7
  <2> QED BY <1>1, <1>7, <2>1 DEF t
<1>8. CASE ~(p(k) # Null /\ data[p(k)] = k)
  <2>1. PICK x \in Cells \ live :
          /\ Allocate(x, k) /\ fresh' = fresh
          /\ chain' = IF p(k) = Null THEN DTQ_AddTail(chain, Table, x)
                      ELSE DTQ_AddBefore(chain, p(k), x)
    BY <1>1, <1>8
  <2>2. chain' = DTQ_AddBefore(chain, Nth(Table, t, i), x)
    <3>1. CASE i = Len(t) + 1
      <4>1. p(k) = Null /\ i \notin 1 .. Len(t)
        BY <1>3, <1>4, <3>1
      <4> QED BY <2>1, <4>1 DEF Nth, DTQ_AddTail
    <3>2. CASE i # Len(t) + 1
      <4>1. p(k) = t[i] /\ p(k) # Null /\ Nth(Table, t, i) = t[i]
        BY <1>4, <1>6, <3>2 DEF Nth
      <4> QED BY <2>1, <4>1
    <3> QED BY <3>1, <3>2
  <2>3. \A j \in i .. Len(t) : k < data[t[j]]
    <3> SUFFICES ASSUME NEW j \in i .. Len(t) PROVE k < data[t[j]]
      OBVIOUS
    <3>1. i \in 1 .. Len(t) /\ j \in 1 .. Len(t) /\ i # Len(t) + 1
      BY <1>3
    <3>2. data[t[i]] > k
      BY <1>2, <1>3, <1>4, <1>8, <3>1
    <3>3. CASE j = i
      BY <3>2, <3>3
    <3>4. CASE j # i
      <4>1. data[t[i]] < data[t[j]]
        BY <1>5, <3>1, <3>4 DEF Sorted
      <4> QED BY <1>2, <1>3, <3>1, <3>2, <4>1
    <3> QED BY <3>3, <3>4
  <2>4. /\ Memory' /\ Forward(List)' = Forward(List)
        /\ Forward(Table)' = Put(t, i, x)
    BY <1>2, <1>4, <2>1, <2>2, <2>3, InsertMemory DEF t
  <2> QED BY <2>1, <2>4 DEF t
<1> QED BY <1>7, <1>8

LEMMA WriteInv ==
  ASSUME Inv, Write
  PROVE  Inv'
<1> DEFINE s == Forward(List)
<1>1. /\ Memory /\ CellsOf(List, s) /\ fresh \subseteq Range(s)
      /\ walk \in Handles /\ Walking(walk, data, s)
  BY InvParts
<1>2. walk' = walk /\ answer' \in Answers
  BY DEF Write, Answers
<1>3. CASE UNCHANGED mem
  BY <1>1, <1>2, <1>3, StillInv DEF mem
<1>4. CASE \E k \in Datas, x \in Cells \ live :
             /\ Allocate(x, k) /\ fresh' = fresh
             /\ Memory' /\ Forward(List)' = Forward(List)
  <2>1. PICK k \in Datas, x \in Cells \ live :
             /\ Allocate(x, k) /\ fresh' = fresh
             /\ Memory' /\ Forward(List)' = Forward(List)
    BY <1>4
  <2>2. \A y \in Cells \ {x} : data'[y] = data[y]
    BY <1>1, <2>1, AllocatedData
  <2>3. Range(s) \subseteq live /\ Range(s) \subseteq Cells
    BY <1>1, MemoryParts, RangeOf
  <2> HIDE DEF s
  <2>4. Walking(walk, data', s)
    BY <1>1, <2>1, <2>2, <2>3, WalkingSame
  <2> QED BY <1>1, <1>2, <2>1, <2>4 DEF Inv, s
<1> QED BY <1>3, <1>4, WriteIs

\* A cell that holds the key, and no other one does.
LEMMA KeyCell ==
  ASSUME Memory, NEW k, FirstOf(Table, Holding({k})) # Null
  PROVE  \E i \in 1 .. Len(Forward(Table)) :
           /\ FirstOf(Table, Holding({k})) = Forward(Table)[i]
           /\ data[Forward(Table)[i]] = k
<1>1. /\ Table \in Heads /\ Queue(chain, Table, Forward(Table))
      /\ CellsOf(Table, Forward(Table))
  BY MemoryParts
<1>2. PICK i \in 1 .. Len(Forward(Table)) :
        /\ FirstOf(Table, Holding({k})) = Forward(Table)[i]
        /\ Forward(Table)[i] \in Holding({k})
  BY <1>1, FirstOfIs
<1> QED BY <1>2 DEF Holding

LEMMA DeleteIs ==
  ASSUME Inv, Delete
  PROVE  \E i \in 1 .. Len(Forward(Table)) :
           /\ data[Forward(Table)[i]] \in Datas
           /\ Memory' /\ Forward(List)' = Forward(List)
           /\ Forward(Table)' = Cut(Forward(Table), i)
           /\ \A x \in Cells \ {Forward(Table)[i]} : data'[x] = data[x]
<1>1. PICK k \in Datas :
        /\ FirstOf(Table, Holding({k})) # Null
        /\ Free(DTQ_Del(chain, FirstOf(Table, Holding({k}))),
                {FirstOf(Table, Holding({k}))})
  BY DEF Delete
<1>2. Memory
  BY InvParts
<1>3. PICK i \in 1 .. Len(Forward(Table)) :
        /\ FirstOf(Table, Holding({k})) = Forward(Table)[i]
        /\ data[Forward(Table)[i]] = k
  BY <1>1, <1>2, KeyCell
<1>4. Free(DTQ_Del(chain, Forward(Table)[i]), {Forward(Table)[i]})
  BY <1>1, <1>3
<1>5. /\ Memory' /\ Forward(List)' = Forward(List)
      /\ Forward(Table)' = Cut(Forward(Table), i)
  BY <1>2, <1>4, DeleteMemory
<1>6. \A x \in Cells \ {Forward(Table)[i]} : data'[x] = data[x]
  BY <1>2, <1>4, FreedData
<1> QED BY <1>1, <1>3, <1>5, <1>6

LEMMA DeleteInv ==
  ASSUME Inv, Delete
  PROVE  Inv'
<1> DEFINE s == Forward(List)
           t == Forward(Table)
<1>1. /\ Memory /\ CellsOf(List, s) /\ CellsOf(Table, t) /\ fresh \subseteq Range(s)
      /\ walk \in Handles /\ Walking(walk, data, s)
  BY InvParts
<1>2. walk' = walk /\ fresh' = fresh /\ answer' \in Answers
  BY DEF Delete, Answers
<1>3. PICK i \in 1 .. Len(t) :
        /\ Memory' /\ Forward(List)' = Forward(List)
        /\ \A x \in Cells \ {t[i]} : data'[x] = data[x]
  BY DeleteIs
<1>4. Range(s) \subseteq Cells /\ Range(s) \cap Range(t) = {} /\ t[i] \in Range(t)
  BY <1>1, MemoryParts, RangeOf
<1> HIDE DEF s, t
<1>5. Walking(walk, data', s)
  BY <1>1, <1>3, <1>4, WalkingSame
<1> QED BY <1>1, <1>2, <1>3, <1>5 DEF Inv, s

LEMMA GetNextInv ==
  ASSUME Inv, GetNext
  PROVE  Inv'
<1> DEFINE t == Forward(Table)
<1>1. /\ Memory /\ fresh \subseteq Range(Forward(List))
      /\ walk \in Handles /\ Walking(walk, data, Forward(List))
      /\ CellsOf(Table, t) /\ \A i \in 1 .. Len(t) : data[t[i]] \in Datas
  BY InvParts
<1>2. Table \in Heads /\ Queue(chain, Table, t)
  BY <1>1, MemoryParts
<1>3. PICK k \in Datas \cup {0} :
        LET x == IF k = 0 THEN Following(Table, Table)
                 ELSE FirstOf(Table, Holding(From(k + 1)))
        IN  answer' = [of |-> Table, after |-> k,
                       is |-> IF x = Null THEN None ELSE data[x]]
  BY DEF GetNext
<1> HIDE DEF t
<1> DEFINE x == IF k = 0 THEN Following(Table, Table)
                ELSE FirstOf(Table, Holding(From(k + 1)))
<1>4. x = Null \/ \E i \in 1 .. Len(t) : x = t[i]
  <2>1. CASE k = 0
    <3>1. 0 \in 0 .. Len(t) /\ Nth(Table, t, 0) = Table
      BY <1>1 DEF CellsOf
    <3>2. Following(Table, Nth(Table, t, 0)) = After(t, 0)
      BY <1>2, <3>1, FollowingIs DEF After
    <3> QED BY <1>1, <2>1, <3>1, <3>2, AfterIs
  <2>2. CASE k # 0
    BY <1>2, <2>2, FirstOfIs
  <2> QED BY <2>1, <2>2
<1> DEFINE is == IF x = Null THEN None ELSE data[x]
<1>5. answer' = [of |-> Table, after |-> k, is |-> is]
  BY <1>3
<1> HIDE DEF x
<1>6. is \in Datas \cup {None}
  BY <1>1, <1>4
<1> HIDE DEF is
<1>7. answer' \in Answers
  BY <1>5, <1>6 DEF Answers, Heads
<1>8. UNCHANGED mem /\ walk' = walk
  BY DEF GetNext
<1> QED BY <1>1, <1>7, <1>8, StillInv DEF mem

(***************************************************************************)
(* The theorems.                                                           *)
(***************************************************************************)

LEMMA NextInv == Inv /\ [Next]_vars => Inv'
<1> SUFFICES ASSUME Inv, [Next]_vars PROVE Inv'
  OBVIOUS
<1>1. CASE AddNode
  BY <1>1, AddNodeInv
<1>2. CASE AddNodeFails
  <2>1. /\ walk' = walk /\ fresh' = {} /\ answer' = NoAnswer
        /\ UNCHANGED <<chain, data, live>>
    BY <1>2 DEF AddNodeFails
  <2> QED BY <2>1, InvParts, StillInv DEF Answers
<1>3. CASE RemoveNode
  BY <1>3, RemoveNodeInv
<1>4. CASE AskNext
  BY <1>4, AskNextInv
<1>5. CASE Walks
  <2>1. CASE StartWalk
    BY <2>1, StartWalkInv
  <2>2. CASE GetNextData
    BY <2>2, GetNextDataInv
  <2>3. CASE DrainBody
    BY <2>3, DrainBodyInv
  <2>4. CASE EndDrain
    BY <2>4, DeletedInv DEF EndDrain
  <2>5. CASE ScanNext
    BY <2>5, ScanNextInv
  <2>6. CASE EndScan
    BY <2>6, LeftInv DEF EndScan
  <2>7. CASE FirstNext
    BY <2>7, FirstNextInv
  <2>8. CASE FirstBody
    BY <2>8, FirstBodyInv
  <2>9. CASE EndFirst
    BY <2>9, DeletedInv, LeftInv DEF EndFirst
  <2> QED BY <1>5, <2>1, <2>2, <2>3, <2>4, <2>5, <2>6, <2>7, <2>8, <2>9 DEF Walks
<1>6. CASE Write
  BY <1>6, WriteInv
<1>7. CASE Delete
  BY <1>7, DeleteInv
<1>8. CASE GetNext
  BY <1>8, GetNextInv
<1>9. CASE UNCHANGED vars
  <2>1. UNCHANGED mem /\ walk' = walk /\ answer' = answer
    BY <1>9 DEF vars
  <2> QED BY <2>1, InvParts, StillInv DEF mem
<1> QED BY <1>1, <1>2, <1>3, <1>4, <1>5, <1>6, <1>7, <1>8, <1>9 DEF Next

LEMMA InvAlways == Spec => []Inv
BY InitInv, NextInv, PTL DEF Spec

LEMMA InvTyped == Inv => TypeOK
<1> SUFFICES ASSUME Inv PROVE TypeOK
  OBVIOUS
<1>1. /\ Memory /\ fresh \subseteq Range(Forward(List))
      /\ walk \in Handles /\ answer \in Answers
  BY InvParts
<1>2. /\ ChainTyped(chain) /\ live \subseteq Cells
      /\ Range(Forward(List)) \subseteq live
  BY <1>1, MemoryParts
<1>3. data \in [Cells -> Datas \cup {None}]
  BY <1>1 DEF Memory, Filled
<1> QED BY <1>1, <1>2, <1>3 DEF TypeOK, ChainTyped, Handles, Answers

LEMMA Counted ==
  ASSUME NEW h, NEW s, CellsOf(h, s)
  PROVE  IsFiniteSet(Range(s)) /\ Cardinality(Range(s)) = Len(s)
<1>1. s \in [1 .. Len(s) -> Range(s)] /\ Len(s) \in Nat
  BY SeqDef DEF CellsOf, Range
<1>2. s \in Bijection(1 .. Len(s), Range(s))
  BY <1>1 DEF CellsOf, Bijection, Injection, Surjection, Range, IsInjective
<1>3. IsFiniteSet(1 .. Len(s)) /\ Cardinality(1 .. Len(s)) = Len(s)
  BY <1>1, CountTo
<1>4. ExistsBijection(1 .. Len(s), Range(s))
  BY <1>2 DEF ExistsBijection
<1>5. /\ IsFiniteSet(Range(s))
      /\ Cardinality(1 .. Len(s)) = Cardinality(Range(s))
  BY ONLY <1>3, <1>4, FS_Bijection
<1> QED BY <1>3, <1>5

LEMMA InvLinked == Inv => Linked
<1> SUFFICES ASSUME Inv PROVE Linked
  OBVIOUS
<1> DEFINE s == Forward(List)
           t == Forward(Table)
<1>1. /\ Memory /\ fresh \subseteq Range(s)
      /\ walk \in Handles /\ Walking(walk, data, s)
  BY InvParts
<1>2. /\ List \in Heads /\ Table \in Heads
      /\ Queue(chain, List, s) /\ Queue(chain, Table, t)
      /\ CellsOf(List, s) /\ CellsOf(Table, t)
      /\ Range(s) \cap Range(t) = {} /\ Range(s) \cup Range(t) = live
  BY <1>1, MemoryParts
<1>3. \A h \in Heads : Backward(h) = Reversed(Forward(h))
  BY <1>2, BackwardIs DEF Backward, Heads
<1> HIDE DEF s, t
<1>4. Len(s) + Len(t) = Cardinality(live)
  <2>1. /\ IsFiniteSet(Range(s)) /\ Cardinality(Range(s)) = Len(s)
        /\ IsFiniteSet(Range(t)) /\ Cardinality(Range(t)) = Len(t)
    BY <1>2, Counted
  <2>2. Len(s) \in Nat /\ Len(t) \in Nat
    BY <1>2 DEF CellsOf
  <2>3. Cardinality(Range(s) \cup Range(t)) =
          Cardinality(Range(s)) + Cardinality(Range(t))
            - Cardinality(Range(s) \cap Range(t))
    BY <2>1, FS_Union
  <2>4. Cardinality(Range(s) \cap Range(t)) = 0
    BY <1>2, FS_EmptySet
  <2>5. Cardinality(live) = Len(s) + Len(t) - 0
    BY <1>2, <2>1, <2>3, <2>4
  <2>6. Len(s) + Len(t) - 0 = Len(s) + Len(t)
    BY ONLY <2>2
  <2> QED BY <2>5, <2>6
<1>5. NoneLost
  BY <1>2, <1>4 DEF NoneLost, s, t
<1>6. WalkOnList
  BY <1>1 DEF WalkOnList, Walking, s
<1> QED BY <1>3, <1>5, <1>6 DEF Linked

\* Every variable of the lists and tables keeps its kind of value: what the
\* functions of iSNSList.c and the macros of sys/list.h leave behind.
THEOREM ListsTypeCorrect == Spec => []TypeOK
BY InvAlways, InvTyped, PTL

\* However many cells there are, the pointers form two whole queues, no cell
\* is lost, used after free or in both, and a walk whose body removes what it
\* was given goes on at a cell of the list (DTQ_Del, ISNS_MEM_List_NextData).
THEOREM LinkedAlways == Spec => []Linked
BY InvAlways, InvLinked, PTL

(***************************************************************************)
(* What the handlers see: the refinement of IsnsChain.                     *)
(***************************************************************************)

LEMMA RemoveAtElements ==
  ASSUME NEW S, NEW s \in Seq(S), NEW i \in 1..Len(s)
  PROVE  /\ RemoveAt(s, i) \in Seq(S)
         /\ Len(RemoveAt(s, i)) = Len(s) - 1
         /\ \A k \in 1..(Len(s) - 1) :
              RemoveAt(s, i)[k] = IF k < i THEN s[k] ELSE s[k + 1]
<1> DEFINE before == SubSeq(s, 1, i - 1)
           after  == SubSeq(s, i + 1, Len(s))
<1>1. Len(s) \in Nat /\ \A k \in 1..Len(s) : s[k] \in S
  BY LenProperties
<1>2. /\ before \in Seq(S)
      /\ Len(before) = i - 1
      /\ \A k \in 1..(i - 1) : before[k] = s[k]
  BY <1>1, SubSeqProperties
<1>3. /\ after \in Seq(S)
      /\ Len(after) = Len(s) - i
      /\ \A k \in 1..(Len(s) - i) : after[k] = s[i + k]
  BY <1>1, SubSeqProperties
<1> HIDE DEF before, after
<1>4. RemoveAt(s, i) = before \o after
  BY DEF RemoveAt, before, after
<1>5. /\ before \o after \in Seq(S)
      /\ Len(before \o after) = Len(before) + Len(after)
      /\ \A k \in 1..(Len(before) + Len(after)) : (before \o after)[k] =
           IF k <= Len(before) THEN before[k] ELSE after[k - Len(before)]
  <2>1. before \in Seq(S) /\ after \in Seq(S)
    BY <1>2, <1>3
  <2> QED BY ONLY <2>1, ConcatProperties
<1>6. Len(before) + Len(after) = Len(s) - 1
  BY <1>1, <1>2, <1>3
<1>7. RemoveAt(s, i) \in Seq(S) /\ Len(RemoveAt(s, i)) = Len(s) - 1
  BY <1>4, <1>5, <1>6
<1>8. \A k \in 1..(Len(s) - 1) : (before \o after)[k] =
        IF k <= i - 1 THEN before[k] ELSE after[k - (i - 1)]
  BY <1>2, <1>5, <1>6
<1>9. ASSUME NEW k \in 1..(Len(s) - 1)
      PROVE  RemoveAt(s, i)[k] = IF k < i THEN s[k] ELSE s[k + 1]
  <2>1. CASE k < i
    <3>1. k \in 1..(i - 1) /\ k <= i - 1
      BY <1>1, <2>1
    <3> QED BY <1>2, <1>4, <1>8, <2>1, <3>1
  <2>2. CASE ~(k < i)
    <3>1. ~(k <= i - 1) /\ k - (i - 1) \in 1..(Len(s) - i) /\ i + (k - (i - 1)) = k + 1
      <4>1. Len(s) \in Nat /\ i \in Int /\ k \in Int /\ k <= Len(s) - 1 /\ i <= k
        BY <1>1, <2>2
      <4> QED BY ONLY <4>1
    <3>2. after[k - (i - 1)] = s[k + 1]
      <4> DEFINE l == k - (i - 1)
      <4>1. l \in 1..(Len(s) - i) /\ i + l = k + 1
        BY <3>1
      <4> HIDE DEF l
      <4>2. after[l] = s[i + l]
        BY <1>3, <4>1
      <4> QED BY <4>1, <4>2 DEF l
    <3>3. (before \o after)[k] = after[k - (i - 1)]
      BY <1>8, <3>1
    <3> QED BY <1>4, <2>2, <3>2, <3>3
  <2> QED BY <2>1, <2>2
<1> QED BY <1>7, <1>9

LEMMA Listed ==
  ASSUME NEW S, NEW s \in Seq(S)
  PROVE  s = [k \in 1 .. Len(s) |-> s[k]]
BY SeqDef

\* The values of the cells s.
ValuesOf(dt, s) == [i \in 1 .. Len(s) |-> dt[s[i]]]

\* The cells s hold values.
Valued(dt, h, s) == CellsOf(h, s) /\ \A i \in 1 .. Len(s) : dt[s[i]] \in Datas

LEMMA ValuesAre ==
  ASSUME NEW dt, NEW h, NEW s, Valued(dt, h, s)
  PROVE  /\ ValuesOf(dt, s) \in Seq(Datas)
         /\ Len(s) \in Nat /\ Len(ValuesOf(dt, s)) = Len(s)
         /\ DOMAIN ValuesOf(dt, s) = 1 .. Len(s)
         /\ \A i \in 1 .. Len(s) : ValuesOf(dt, s)[i] = dt[s[i]]
<1> DEFINE v == ValuesOf(dt, s)
<1>1. Len(s) \in Nat /\ \A i \in 1 .. Len(s) : dt[s[i]] \in Datas
  BY DEF Valued, CellsOf
<1>2. /\ v \in [1 .. Len(s) -> Datas] /\ DOMAIN v = 1 .. Len(s)
      /\ \A i \in 1 .. Len(s) : v[i] = dt[s[i]]
  BY <1>1 DEF ValuesOf
<1> HIDE DEF v
<1>3. v \in Seq(Datas)
  BY <1>1, <1>2, SeqDef
<1>4. Len(v) \in Nat /\ DOMAIN v = 1 .. Len(v)
  BY <1>3, LenProperties
<1>5. 1 .. Len(v) = 1 .. Len(s)
  BY <1>2, <1>4
<1>6. Len(v) = Len(s)
  BY ONLY <1>1, <1>4, <1>5, SameLength
<1> QED BY <1>1, <1>2, <1>3, <1>6 DEF v

\* A removal of a cell removes its value.
LEMMA ValuesCut ==
  ASSUME NEW dt, NEW du, NEW h, NEW s, Valued(dt, h, s), NEW i \in 1 .. Len(s),
         \A x \in Range(s) \ {s[i]} : du[x] = dt[x]
  PROVE  ValuesOf(du, Cut(s, i)) = RemoveAt(ValuesOf(dt, s), i)
<1> DEFINE v == ValuesOf(dt, s)
           w == ValuesOf(du, Cut(s, i))
           r == RemoveAt(v, i)
           t == Cut(s, i)
<1>1. /\ v \in Seq(Datas) /\ Len(s) \in Nat /\ Len(v) = Len(s)
      /\ \A j \in 1 .. Len(s) : v[j] = dt[s[j]]
  BY ValuesAre
<1>2. CellsOf(h, s) /\ \A j \in 1 .. Len(s) : s[j] \in Range(s)
  BY RangeOf DEF Valued
<1>3. /\ Len(t) = Len(s) - 1
      /\ \A j \in 1 .. Len(s) - 1 : t[j] = IF j < i THEN s[j] ELSE s[j + 1]
  <2>1. s \in Seq(Cells) /\ IsInjective(s) /\ i \in 1 .. Len(s)
    BY <1>2 DEF CellsOf
  <2> QED BY ONLY <2>1, CutIs
<1>4. w = [j \in 1 .. Len(t) |-> du[t[j]]]
  BY DEF ValuesOf
<1> HIDE DEF t, w, v
<1>5. /\ r \in Seq(Datas) /\ Len(r) = Len(s) - 1
      /\ \A j \in 1 .. Len(s) - 1 : r[j] = IF j < i THEN v[j] ELSE v[j + 1]
  <2>1. i \in 1 .. Len(v)
    BY <1>1
  <2> QED BY <1>1, <2>1, RemoveAtElements
<1> HIDE DEF r
<1>6. \A j \in 1 .. Len(s) - 1 : du[t[j]] = r[j]
  <2> SUFFICES ASSUME NEW j \in 1 .. Len(s) - 1 PROVE du[t[j]] = r[j]
    OBVIOUS
  <2> DEFINE k == IF j < i THEN j ELSE j + 1
  <2>1. k \in 1 .. Len(s) /\ k # i
    BY <1>1
  <2>2. t[j] = s[k] /\ r[j] = v[k]
    BY <1>3, <1>5
  <2> HIDE DEF k
  <2>3. s[k] \in Range(s) \ {s[i]}
    BY <1>2, <2>1 DEF CellsOf
  <2> QED BY <1>1, <2>1, <2>2, <2>3
<1>7. w = [j \in 1 .. Len(s) - 1 |-> r[j]]
  BY <1>3, <1>4, <1>6
<1>8. DOMAIN r = 1 .. Len(s) - 1 /\ r = [j \in DOMAIN r |-> r[j]]
  <2>1. DOMAIN r = 1 .. Len(r)
    BY <1>5, LenProperties
  <2>2. r = [j \in 1 .. Len(r) |-> r[j]]
    BY <1>5, SeqDef
  <2> QED BY <1>5, <2>1, <2>2
<1> QED BY <1>7, <1>8 DEF w, r, v, t

\* The removal of the first cell that holds v is that of the first v.
LEMMA ValuesWithout ==
  ASSUME NEW dt, NEW du, NEW h, NEW s, Valued(dt, h, s), NEW i \in 1 .. Len(s),
         \A j \in 1 .. i - 1 : dt[s[j]] # dt[s[i]],
         \A x \in Range(s) \ {s[i]} : du[x] = dt[x]
  PROVE  ValuesOf(du, Cut(s, i)) = Chain!Without(ValuesOf(dt, s), dt[s[i]])
<1> DEFINE v == ValuesOf(dt, s)
           hits == {j \in DOMAIN v : v[j] = dt[s[i]]}
<1>1. /\ Len(s) \in Nat /\ DOMAIN v = 1 .. Len(s)
      /\ \A j \in 1 .. Len(s) : v[j] = dt[s[j]]
  BY ValuesAre
<1>2. i \in hits /\ hits \subseteq 1 .. Len(s)
  BY <1>1
<1>3. \A j \in hits : i <= j
  <2> SUFFICES ASSUME NEW j \in hits, j < i PROVE FALSE
    BY <1>1, <1>2
  <2>1. j \in 1 .. Len(s) /\ v[j] = dt[s[i]] /\ j < i
    BY <1>2
  <2>2. j \in 1 .. i - 1 /\ dt[s[j]] = dt[s[i]]
    BY <1>1, <2>1
  <2> QED BY <2>2
<1>4. Min(hits) = i
  <2>1. Min(hits) \in hits /\ \A y \in hits : Min(hits) <= y
    <3> HIDE DEF hits
    <3> QED BY <1>2, <1>3 DEF Min
  <2>2. Min(hits) <= i /\ i <= Min(hits) /\ Min(hits) \in 1 .. Len(s)
    <3> HIDE DEF hits
    <3> QED BY <1>2, <1>3, <2>1
  <2> HIDE DEF hits
  <2> QED BY <2>2
<1>5. dt[s[i]] \in Range(v)
  BY <1>1 DEF Range
<1> HIDE DEF v
<1>6. Chain!Without(v, dt[s[i]]) = RemoveAt(v, Min(hits))
  <2>1. dt[s[i]] \in Chain!Range(v)
    BY <1>5 DEF Chain!Range, Range
  <2>2. Chain!Min(hits) = Min(hits)
    BY DEF Chain!Min, Min
  <2>3. \A k : Chain!RemoveAt(v, k) = RemoveAt(v, k)
    BY DEF Chain!RemoveAt, RemoveAt
  <2> QED BY <2>1, <2>2, <2>3 DEF Chain!Without
<1>7. ValuesOf(du, Cut(s, i)) = RemoveAt(v, i)
  BY ValuesCut DEF v
<1> QED BY <1>4, <1>6, <1>7 DEF v

LEMMA ValuesAppend ==
  ASSUME NEW dt, NEW du, NEW h, NEW s, Valued(dt, h, s),
         NEW x \in Cells, x \notin Range(s), du[x] \in Datas,
         \A y \in Range(s) : du[y] = dt[y]
  PROVE  ValuesOf(du, Put(s, Len(s) + 1, x)) = Append(ValuesOf(dt, s), du[x])
<1> DEFINE v == ValuesOf(dt, s)
           t == Put(s, Len(s) + 1, x)
           n == Len(s) + 1
           r == Append(v, du[x])
<1>1. /\ v \in Seq(Datas) /\ Len(s) \in Nat /\ Len(v) = Len(s)
      /\ \A j \in 1 .. Len(s) : v[j] = dt[s[j]]
  BY ValuesAre
<1>2. CellsOf(h, s) /\ \A j \in 1 .. Len(s) : s[j] \in Range(s)
  BY RangeOf DEF Valued
<1>3. /\ Len(t) = n
      /\ \A j \in 1 .. n : t[j] = IF j < n THEN s[j] ELSE IF j = n THEN x ELSE s[j - 1]
  <2>1. s \in Seq(Cells) /\ IsInjective(s) /\ n \in 1 .. Len(s) + 1
    BY <1>1, <1>2 DEF CellsOf
  <2>2. x \in Cells /\ x \notin Range(s)
    OBVIOUS
  <2> QED BY ONLY <2>1, <2>2, PutIs
<1> HIDE DEF t, v
<1>4. /\ r \in Seq(Datas) /\ Len(r) = n
      /\ \A j \in 1 .. Len(s) : r[j] = v[j]
      /\ r[n] = du[x]
  BY <1>1, AppendProperties
<1> HIDE DEF r
<1>5. \A j \in 1 .. n : du[t[j]] = r[j]
  <2> SUFFICES ASSUME NEW j \in 1 .. n PROVE du[t[j]] = r[j]
    OBVIOUS
  <2>1. CASE j = n
    BY <1>3, <1>4, <2>1
  <2>2. CASE j # n
    <3>1. j \in 1 .. Len(s) /\ j < n
      BY <1>1, <2>2
    <3> QED BY <1>1, <1>2, <1>3, <1>4, <3>1
  <2> QED BY <2>1, <2>2
<1>6. ValuesOf(du, t) = [j \in 1 .. n |-> r[j]]
  BY <1>3, <1>5 DEF ValuesOf
<1>7. r = [j \in 1 .. n |-> r[j]]
  BY <1>4, SeqDef
<1> QED BY <1>6, <1>7 DEF t, v, r

\* What a walk that goes on at a cell has yet to take.
LEMMA ValuesRest ==
  ASSUME NEW dt, NEW h, NEW s, Valued(dt, h, s), NEW i \in 1 .. Len(s)
  PROVE  LET r == ValuesOf(dt, Rest(s, i)) IN
         /\ r # <<>> /\ Head(r) = dt[s[i]]
         /\ Tail(r) = ValuesOf(dt, Rest(s, i + 1))
<1> DEFINE r == ValuesOf(dt, Rest(s, i))
           q == ValuesOf(dt, Rest(s, i + 1))
           m == Len(s) + 1 - i
<1>1. s \in Seq(Cells) /\ Len(s) \in Nat /\ \A j \in 1 .. Len(s) : dt[s[j]] \in Datas
  BY DEF Valued, CellsOf
<1>2. i \in 1 .. Len(s) + 1 /\ i + 1 \in 1 .. Len(s) + 1 /\ m \in Nat /\ m >= 1
      /\ Len(s) + 1 - (i + 1) = m - 1
  BY <1>1
<1>3. /\ Len(Rest(s, i)) = m
      /\ \A k \in 1 .. m : Rest(s, i)[k] = s[k + i - 1]
  BY <1>1, <1>2, RestIs
<1>4. /\ Len(Rest(s, i + 1)) = m - 1
      /\ \A k \in 1 .. m - 1 : Rest(s, i + 1)[k] = s[k + (i + 1) - 1]
  <2>1. /\ Len(Rest(s, i + 1)) = Len(s) + 1 - (i + 1)
        /\ \A k \in 1 .. Len(s) + 1 - (i + 1) : Rest(s, i + 1)[k] = s[k + (i + 1) - 1]
    BY <1>1, <1>2, RestIs
  <2> HIDE DEF m
  <2> QED BY <1>2, <2>1
<1>5. \A k \in 1 .. m : k + i - 1 \in 1 .. Len(s)
  BY <1>1
<1>6. r = [k \in 1 .. m |-> dt[s[k + i - 1]]]
  BY <1>3 DEF ValuesOf
<1>7. q = [k \in 1 .. m - 1 |-> dt[s[k + (i + 1) - 1]]]
  BY <1>4 DEF ValuesOf
<1> HIDE DEF m, r, q
<1>8. r \in Seq(Datas) /\ Len(r) = m
  <2>1. r \in [1 .. m -> Datas]
    BY <1>1, <1>5, <1>6
  <2>2. r \in Seq(Datas)
    BY <1>2, <2>1, SeqDef
  <2>3. 1 .. Len(r) = 1 .. m /\ Len(r) \in Nat
    BY <2>1, <2>2, LenProperties
  <2>4. m \in Nat
    BY <1>2
  <2>5. Len(r) = m
    BY ONLY <2>3, <2>4, SameLength
  <2> QED BY <2>2, <2>5
<1>9. r # <<>>
  BY <1>2, <1>8
<1>10. Head(r) = dt[s[i]]
  <2>1. 1 \in 1 .. m /\ 1 + i - 1 = i
    BY <1>2
  <2>2. r[1] = dt[s[i]]
    BY <1>6, <2>1
  <2> QED BY <1>8, <1>9, <2>2, HeadTailProperties
<1>11. Tail(r) = q
  <2>1. Tail(r) = [k \in 1 .. m - 1 |-> r[k + 1]]
    <3>1. /\ Tail(r) \in Seq(Datas) /\ Len(Tail(r)) = m - 1
          /\ \A k \in 1 .. Len(Tail(r)) : Tail(r)[k] = r[k + 1]
      BY <1>8, <1>9, HeadTailProperties
    <3>2. Tail(r) = [k \in 1 .. Len(Tail(r)) |-> Tail(r)[k]]
      BY <3>1, Listed
    <3> QED BY <3>1, <3>2
  <2>2. \A k \in 1 .. m - 1 : r[k + 1] = dt[s[k + (i + 1) - 1]]
    <3> SUFFICES ASSUME NEW k \in 1 .. m - 1
                 PROVE  r[k + 1] = dt[s[k + (i + 1) - 1]]
      OBVIOUS
    <3>1. k + 1 \in 1 .. m /\ (k + 1) + i - 1 = k + (i + 1) - 1
      BY <1>2
    <3> QED BY <1>6, <3>1
  <2> QED BY <1>7, <2>1, <2>2
<1> QED BY <1>9, <1>10, <1>11 DEF r, q

LEMMA RestWhole ==
  ASSUME NEW S, NEW s \in Seq(S)
  PROVE  Rest(s, 1) = s /\ Rest(s, Len(s) + 1) = <<>>
<1>1. Len(s) \in Nat /\ 1 \in 1 .. Len(s) + 1 /\ Len(s) + 1 \in 1 .. Len(s) + 1
  BY LenProperties
<1>2. /\ Rest(s, 1) \in Seq(S) /\ Len(Rest(s, 1)) = Len(s)
      /\ \A k \in 1 .. Len(s) : Rest(s, 1)[k] = s[k]
  <2>1. /\ Rest(s, 1) \in Seq(S) /\ Len(Rest(s, 1)) = Len(s) + 1 - 1
        /\ \A k \in 1 .. Len(s) + 1 - 1 : Rest(s, 1)[k] = s[k + 1 - 1]
    BY <1>1, RestIs
  <2>2. Len(s) + 1 - 1 = Len(s) /\ \A k \in 1 .. Len(s) : k + 1 - 1 = k
    BY <1>1
  <2> QED BY <2>1, <2>2
<1>3. Rest(s, 1) = s
  BY <1>2, SeqEqual
<1>4. Rest(s, Len(s) + 1) \in Seq(S) /\ Len(Rest(s, Len(s) + 1)) = 0
  <2>1. /\ Rest(s, Len(s) + 1) \in Seq(S)
        /\ Len(Rest(s, Len(s) + 1)) = Len(s) + 1 - (Len(s) + 1)
    BY <1>1, RestIs
  <2>2. Len(s) + 1 - (Len(s) + 1) = 0
    BY <1>1
  <2> QED BY <2>1, <2>2
<1> QED BY <1>3, <1>4, EmptySeq

\* What is behind a cell is the same after one before it was removed.
LEMMA RestCut ==
  ASSUME NEW h, NEW s, CellsOf(h, s), NEW i \in 1 .. Len(s), NEW k \in 1 .. Len(s), i < k
  PROVE  /\ k - 1 \in 1 .. Len(Cut(s, i)) /\ Cut(s, i)[k - 1] = s[k]
         /\ Rest(Cut(s, i), k - 1) = Rest(s, k)
<1> DEFINE t == Cut(s, i)
<1>1. s \in Seq(Cells) /\ IsInjective(s) /\ Len(s) \in Nat
  BY DEF CellsOf
<1>2. /\ t \in Seq(Cells) /\ Len(t) = Len(s) - 1
      /\ \A j \in 1 .. Len(s) - 1 : t[j] = IF j < i THEN s[j] ELSE s[j + 1]
  BY ONLY <1>1, i \in 1 .. Len(s), CutIs
<1> HIDE DEF t
<1> DEFINE m == Len(s) + 1 - k
<1>3. /\ k - 1 \in 1 .. Len(s) - 1 /\ ~(k - 1 < i) /\ (k - 1) + 1 = k
      /\ k - 1 \in 1 .. Len(t) + 1 /\ Len(t) + 1 - (k - 1) = m /\ k \in 1 .. Len(s) + 1
  BY <1>1, <1>2
<1>4. /\ Rest(t, k - 1) \in Seq(Cells) /\ Len(Rest(t, k - 1)) = m
      /\ \A j \in 1 .. m : Rest(t, k - 1)[j] = t[j + (k - 1) - 1]
  <2>1. /\ Rest(t, k - 1) \in Seq(Cells) /\ Len(Rest(t, k - 1)) = Len(t) + 1 - (k - 1)
        /\ \A j \in 1 .. Len(t) + 1 - (k - 1) : Rest(t, k - 1)[j] = t[j + (k - 1) - 1]
    BY <1>2, <1>3, RestIs
  <2> HIDE DEF m
  <2> QED BY <1>3, <2>1
<1>5. /\ Rest(s, k) \in Seq(Cells) /\ Len(Rest(s, k)) = m
      /\ \A j \in 1 .. m : Rest(s, k)[j] = s[j + k - 1]
  BY <1>1, <1>3, RestIs
<1>6. \A j \in 1 .. m : t[j + (k - 1) - 1] = s[j + k - 1]
  <2> SUFFICES ASSUME NEW j \in 1 .. m PROVE t[j + (k - 1) - 1] = s[j + k - 1]
    OBVIOUS
  <2>1. /\ j + (k - 1) - 1 \in 1 .. Len(s) - 1 /\ ~(j + (k - 1) - 1 < i)
        /\ (j + (k - 1) - 1) + 1 = j + k - 1
    BY <1>1
  <2> QED BY <1>2, <2>1
<1>7. Rest(t, k - 1) = Rest(s, k)
  <2> HIDE DEF m
  <2> QED BY <1>4, <1>5, <1>6, SeqEqual
<1> QED BY <1>2, <1>3, <1>7 DEF t

LEMMA CutFirst ==
  ASSUME NEW h, NEW s, CellsOf(h, s), 1 \in 1 .. Len(s)
  PROVE  Cut(s, 1) = Rest(s, 2)
<1> DEFINE t == Cut(s, 1)
<1>1. s \in Seq(Cells) /\ IsInjective(s) /\ Len(s) \in Nat
  BY DEF CellsOf
<1>2. /\ t \in Seq(Cells) /\ Len(t) = Len(s) - 1
      /\ \A j \in 1 .. Len(s) - 1 : t[j] = IF j < 1 THEN s[j] ELSE s[j + 1]
  BY ONLY <1>1, 1 \in 1 .. Len(s), CutIs
<1> HIDE DEF t
<1>3. 2 \in 1 .. Len(s) + 1 /\ Len(s) + 1 - 2 = Len(s) - 1
  BY <1>1
<1>4. /\ Rest(s, 2) \in Seq(Cells) /\ Len(Rest(s, 2)) = Len(s) - 1
      /\ \A j \in 1 .. Len(s) - 1 : Rest(s, 2)[j] = s[j + 2 - 1]
  <2>1. /\ Rest(s, 2) \in Seq(Cells) /\ Len(Rest(s, 2)) = Len(s) + 1 - 2
        /\ \A j \in 1 .. Len(s) + 1 - 2 : Rest(s, 2)[j] = s[j + 2 - 1]
    BY <1>1, <1>3, RestIs
  <2> QED BY <1>3, <2>1
<1>5. \A j \in 1 .. Len(s) - 1 : t[j] = Rest(s, 2)[j]
  <2>1. \A j \in 1 .. Len(s) - 1 : ~(j < 1) /\ j + 2 - 1 = j + 1
    BY <1>1
  <2> QED BY <1>2, <1>4, <2>1
<1>6. t = Rest(s, 2)
  BY <1>2, <1>4, <1>5, SeqEqual
<1> QED BY <1>6 DEF t

\* The elements r that the walk w has yet to take from the cells s.
Remaining(w, dt, s, r) ==
  /\ w.kind = "none" \/ w.at = NotExist => r = <<>>
  /\ w.kind # "none" /\ w.at = Null => r = ValuesOf(dt, s)
  /\ \A i \in 1 .. Len(s) :
       w.at = s[i] /\ w.kind # "none" =>
         r = ValuesOf(dt, Rest(s, IF w.kind = "drain" THEN i ELSE i + 1))

ToDoOf(c, dt, w) ==
  CASE w.kind = "none" \/ w.at = NotExist -> <<>>
    [] w.kind # "none" /\ w.at = Null -> ValuesOf(dt, Along(c.next, c.next[List]))
    [] w.kind = "drain" /\ w.at \in Cells -> ValuesOf(dt, Along(c.next, w.at))
    [] w.kind # "drain" /\ w.at \in Cells ->
         ValuesOf(dt, Along(c.next, c.next[w.at]))

LEMMA ToDoIs ==
  ASSUME NEW c, NEW lv, NEW s, NEW t, Queues(c, lv, s, t), NEW dt, NEW w,
         w.kind = "none" => w.at = Null
  PROVE  Remaining(w, dt, s, ToDoOf(c, dt, w))
<1> DEFINE r == ToDoOf(c, dt, w)
<1>1. Queue(c, List, s) /\ List \in Heads
  BY DEF Queues, Heads
<1>2. CellsOf(List, s)
  BY <1>1, QueueTypes
<1>3. /\ Along(c.next, c.next[List]) = s
      /\ \A i \in 1 .. Len(s) : Along(c.next, s[i]) = Rest(s, i)
      /\ \A i \in 1 .. Len(s) : Along(c.next, c.next[s[i]]) = Rest(s, i + 1)
  BY <1>1, ForwardIs
<1>4. w.kind = "none" \/ w.at = NotExist => r = <<>>
  BY HeadsApart DEF ToDoOf
<1>5. w.kind # "none" /\ w.at = Null => r = ValuesOf(dt, s)
  BY <1>3, HeadsApart DEF ToDoOf
<1>6. ASSUME NEW i \in 1 .. Len(s), w.at = s[i], w.kind # "none"
      PROVE  r = ValuesOf(dt, Rest(s, IF w.kind = "drain" THEN i ELSE i + 1))
  <2>1. w.at \in Cells /\ w.at # Null /\ w.at # NotExist
    BY <1>2, <1>6, HeadsApart DEF CellsOf
  <2>2. CASE w.kind = "drain"
    <3>1. r = ValuesOf(dt, Along(c.next, w.at))
      BY <2>1, <2>2 DEF ToDoOf
    <3> QED BY <1>3, <1>6, <2>2, <3>1
  <2>3. CASE w.kind # "drain"
    <3>1. r = ValuesOf(dt, Along(c.next, c.next[w.at]))
      BY <1>6, <2>1, <2>3 DEF ToDoOf
    <3> QED BY <1>3, <1>6, <2>3, <3>1
  <2> QED BY <2>2, <2>3
<1> QED BY <1>4, <1>5, <1>6 DEF Remaining

\* The state as the handlers see it.
LEMMA Seen ==
  ASSUME Inv
  PROVE  /\ Valued(data, List, Forward(List)) /\ Valued(data, Table, Forward(Table))
         /\ Values(Forward(List)) = ValuesOf(data, Forward(List))
         /\ Values(Forward(Table)) = ValuesOf(data, Forward(Table))
         /\ Remaining(walk, data, Forward(List), ToDo)
<1>1. Valued(data, List, Forward(List)) /\ Valued(data, Table, Forward(Table))
  BY InvParts DEF Valued
<1>2. /\ Values(Forward(List)) = ValuesOf(data, Forward(List))
      /\ Values(Forward(Table)) = ValuesOf(data, Forward(Table))
  BY DEF Values, ValuesOf
<1>3. ToDo = ToDoOf(chain, data, walk)
  BY DEF ToDo, ToDoOf, Values, ValuesOf, Forward
<1>4. Queues(chain, live, Forward(List), Forward(Table))
  BY DEF Inv, Memory
<1>5. walk.kind = "none" => walk.at = Null
  BY DEF Inv, Walking, NoWalk
<1> QED BY <1>1, <1>2, <1>3, <1>4, <1>5, ToDoIs

\* And after a step.
LEMMA SeenNext ==
  ASSUME Inv'
  PROVE  /\ Values(Forward(List))' = ValuesOf(data', Forward(List)')
         /\ Values(Forward(Table))' = ValuesOf(data', Forward(Table)')
         /\ Remaining(walk', data', Forward(List)', ToDo')
<1>1. /\ Values(Forward(List))' = ValuesOf(data', Forward(List)')
      /\ Values(Forward(Table))' = ValuesOf(data', Forward(Table)')
  BY DEF Values, ValuesOf
<1>2. ToDo' = ToDoOf(chain', data', walk')
  BY DEF ToDo, ToDoOf, Values, ValuesOf, Forward
<1>3. Queues(chain', live', Forward(List)', Forward(Table)')
  BY DEF Inv, Memory
<1>4. walk'.kind = "none" => walk'.at = Null
  BY DEF Inv, Walking, NoWalk
<1> QED BY <1>1, <1>2, <1>3, <1>4, ToDoIs

\* Cells that keep their data keep their values.
LEMMA ValuesStill ==
  ASSUME NEW h, NEW s, CellsOf(h, s), NEW dt, NEW du, \A x \in Range(s) : du[x] = dt[x]
  PROVE  ValuesOf(du, s) = ValuesOf(dt, s)
<1>1. \A i \in 1 .. Len(s) : du[s[i]] = dt[s[i]]
  BY RangeOf
<1> QED BY <1>1 DEF ValuesOf

\* A step without a walk, before and after it.
LEMMA Idle ==
  ASSUME Inv, Inv', walk = NoWalk, walk' = walk
  PROVE  ToDo' = ToDo
<1>1. walk.kind = "none" /\ walk'.kind = "none"
  BY DEF NoWalk
<1>2. ToDo = <<>> /\ ToDo' = <<>>
  BY <1>1, Seen, SeenNext DEF Remaining
<1> QED BY <1>2

\* A removal from the list, as the handlers see it.
LEMMA UnlinkSeen ==
  ASSUME Inv, Inv', NEW i \in 1 .. Len(Forward(List)), Unlink(Forward(List)[i]),
         \A j \in 1 .. i - 1 : data[Forward(List)[j]] # data[Forward(List)[i]]
  PROVE  /\ Values(Forward(List))' =
              Chain!Without(Values(Forward(List)), data[Forward(List)[i]])
         /\ Range(Values(Forward(Table)))' = Range(Values(Forward(Table)))
         /\ \A x \in Range(Forward(List)) \ {Forward(List)[i]} : data'[x] = data[x]
<1> DEFINE s == Forward(List)
           t == Forward(Table)
<1>1. /\ Valued(data, List, s) /\ Valued(data, Table, t)
      /\ Values(s) = ValuesOf(data, s) /\ Values(t) = ValuesOf(data, t)
  BY Seen
<1>2. /\ Values(s)' = ValuesOf(data', s') /\ Values(t)' = ValuesOf(data', t')
  BY SeenNext
<1>3. s' = Cut(s, i) /\ t' = t
  BY UnlinkStep
<1>4. Memory
  BY InvParts
<1>5. CellsOf(List, s) /\ CellsOf(Table, t) /\ Range(s) \cap Range(t) = {}
  BY <1>4, MemoryParts
<1>6. \A x \in Cells \ {s[i]} : data'[x] = data[x]
  BY <1>4, FreedData DEF Unlink
<1>7. i \in 1 .. Len(s) /\ \A j \in 1 .. i - 1 : data[s[j]] # data[s[i]]
  OBVIOUS
<1> HIDE DEF s, t
<1>8. /\ \A x \in Range(s) \ {s[i]} : data'[x] = data[x]
      /\ \A x \in Range(t) : data'[x] = data[x]
  BY <1>5, <1>6, <1>7, RangeOf
<1>9. ValuesOf(data', Cut(s, i)) = Chain!Without(ValuesOf(data, s), data[s[i]])
  BY <1>1, <1>7, <1>8, ValuesWithout
<1>10. ValuesOf(data', t) = ValuesOf(data, t)
  BY <1>5, <1>8, ValuesStill
<1>11. Values(t)' = Values(t)
  BY <1>1, <1>2, <1>3, <1>10
<1>12. Range(Values(t))' = Range(Values(t))
  BY <1>11 DEF Range
<1> QED BY <1>1, <1>2, <1>3, <1>8, <1>9, <1>12 DEF s, t

LEMMA AddNodeEdits ==
  ASSUME Inv, Inv', AddNode
  PROVE  Chain!Edit
<1> DEFINE s == Forward(List)
           t == Forward(Table)
<1>1. /\ Valued(data, List, s) /\ Valued(data, Table, t)
      /\ Values(s) = ValuesOf(data, s) /\ Values(t) = ValuesOf(data, t)
  BY Seen
<1>2. /\ Values(s)' = ValuesOf(data', s') /\ Values(t)' = ValuesOf(data', t')
  BY SeenNext
<1>3. PICK v \in Datas, x \in Cells \ live :
        /\ Allocate(x, v) /\ fresh' = {x}
        /\ chain' = DTQ_AddTail(chain, List, x)
  BY DEF AddNode
<1>4. walk = NoWalk /\ walk' = walk /\ answer' = NoAnswer
  BY DEF AddNode
<1>5. Memory
  BY InvParts
<1>6. s' = Put(s, Len(s) + 1, x) /\ t' = t
  BY <1>3, <1>5, AddMemory
<1>7. data'[x] = v /\ \A y \in Cells \ {x} : data'[y] = data[y]
  BY <1>3, <1>5, AllocatedData
<1>8. /\ CellsOf(List, s) /\ CellsOf(Table, t)
      /\ Range(s) \cup Range(t) = live
  BY <1>5, MemoryParts
<1> HIDE DEF s, t
<1>9. /\ x \notin Range(s) /\ x \in Cells
      /\ \A y \in Range(s) : data'[y] = data[y]
      /\ \A y \in Range(t) : data'[y] = data[y]
  BY <1>3, <1>7, <1>8, RangeOf
<1>10. ValuesOf(data', Put(s, Len(s) + 1, x)) = Append(ValuesOf(data, s), v)
  BY <1>1, <1>3, <1>7, <1>9, ValuesAppend
<1>11. ValuesOf(data', t) = ValuesOf(data, t)
  BY <1>8, <1>9, ValuesStill
<1>12. Values(s)' = Append(Values(s), v) /\ Values(t)' = Values(t)
  BY <1>1, <1>2, <1>6, <1>10, <1>11
<1>13. Range(Values(t))' = Range(Values(t))
  BY <1>12 DEF Range
<1>14. ToDo' = ToDo /\ ~(walk.kind # "none")
  BY <1>4, Idle DEF NoWalk
<1> QED BY <1>3, <1>4, <1>12, <1>13, <1>14
        DEF Chain!Edit, Chain!NotAsked, Chain!NoAnswer, NoAnswer, s, t

LEMMA RemoveNodeEdits ==
  ASSUME Inv, Inv', RemoveNode
  PROVE  Chain!Edit
<1> DEFINE s == Forward(List)
<1>1. PICK v \in Datas : FindNode(v) # Null /\ Unlink(FindNode(v))
  BY DEF RemoveNode
<1>2. walk = NoWalk /\ walk' = walk /\ answer' = NoAnswer
  BY DEF RemoveNode
<1>3. PICK i \in 1 .. Len(s) :
        /\ FindNode(v) = s[i] /\ data[s[i]] = v
        /\ \A j \in 1 .. i - 1 : data[s[j]] # v
  BY <1>1, InvParts, LookUp
<1>4. Unlink(s[i]) /\ \A j \in 1 .. i - 1 : data[s[j]] # data[s[i]]
  BY <1>1, <1>3
<1>5. /\ Values(s)' = Chain!Without(Values(s), data[s[i]])
      /\ Range(Values(Forward(Table)))' = Range(Values(Forward(Table)))
  BY <1>4, UnlinkSeen
<1>6. Values(s)' = Chain!Without(Values(s), v)
  BY <1>3, <1>5
<1>7. ToDo' = ToDo /\ ~(walk.kind # "none")
  BY <1>2, Idle DEF NoWalk
<1> HIDE DEF s
<1> QED BY <1>2, <1>5, <1>6, <1>7
        DEF Chain!Edit, Chain!NotAsked, Chain!NoAnswer, NoAnswer, s

\* Nothing that the handlers see of the list and the table changes.
LEMMA StillSeen ==
  ASSUME UNCHANGED <<chain, data>>
  PROVE  /\ Values(Forward(List))' = Values(Forward(List))
         /\ Range(Values(Forward(Table)))' = Range(Values(Forward(Table)))
         /\ Forward(List)' = Forward(List)
<1>1. Forward(List)' = Forward(List) /\ Forward(Table)' = Forward(Table)
  BY DEF Forward
<1>2. /\ Values(Forward(List))' = Values(Forward(List))
      /\ Values(Forward(Table))' = Values(Forward(Table))
  BY <1>1 DEF Values
<1> QED BY <1>1, <1>2 DEF Range

LEMMA AskNextAsks ==
  ASSUME Inv, Inv', AskNext
  PROVE  Chain!AskList
<1> DEFINE s == Forward(List)
           l == Values(s)
<1>1. Valued(data, List, s) /\ l = ValuesOf(data, s) /\ Memory /\ CellsOf(List, s)
  BY Seen, InvParts
<1>2. PICK v \in Datas :
        LET x == FindNode(v)  y == GetNextNode(x) IN
          /\ x # Null
          /\ answer' = [of |-> List, after |-> v,
                        is |-> IF y = Null THEN None ELSE data[y]]
  BY DEF AskNext
<1>3. walk = NoWalk /\ UNCHANGED <<chain, data, live, walk>>
  BY DEF AskNext
<1>4. PICK i \in 1 .. Len(s) :
        /\ FindNode(v) = s[i] /\ data[s[i]] = v
        /\ \A j \in 1 .. i - 1 : data[s[j]] # v
  BY <1>1, <1>2, LookUp
<1>5. GetNextNode(s[i]) = After(s, i)
  BY <1>1, NextIs
<1>6. /\ Values(s)' = l /\ Range(Values(Forward(Table)))' = Range(Values(Forward(Table)))
      /\ ToDo' = ToDo /\ ~(walk.kind # "none")
  BY <1>3, StillSeen, Idle DEF NoWalk
<1> HIDE DEF s, l
<1>7. /\ l \in Seq(Datas) /\ Len(s) \in Nat /\ Len(l) = Len(s)
      /\ \A j \in 1 .. Len(s) : l[j] = data[s[j]]
  BY <1>1, ValuesAre
<1>8. i \in 1 .. Len(l) /\ l[i] = v
  BY <1>4, <1>7
<1>9. l[i] \notin Chain!Range(SubSeq(l, 1, i - 1))
  <2> DEFINE b == SubSeq(l, 1, i - 1)
  <2>1. /\ b \in Seq(Datas) /\ Len(b) = i - 1
        /\ \A j \in 1 .. i - 1 : b[j] = l[j]
    BY <1>7, SubSeqProperties
  <2>2. DOMAIN b = 1 .. i - 1
    BY <2>1, LenProperties
  <2> HIDE DEF b
  <2>3. \A j \in 1 .. i - 1 : j \in 1 .. Len(s)
    BY <1>7
  <2>4. \A j \in 1 .. i - 1 : b[j] # v
    BY <1>4, <1>7, <2>1, <2>3
  <2> QED BY <1>8, <2>2, <2>4 DEF Chain!Range, b
<1>10. (IF After(s, i) = Null THEN None ELSE data[After(s, i)]) =
         (IF i = Len(l) THEN None ELSE l[i + 1])
  <2>1. i \in 0 .. Len(s)
    BY <1>7
  <2>2. CASE i = Len(s)
    BY <1>1, <1>7, <2>1, <2>2, AfterIs
  <2>3. CASE i # Len(s)
    <3>1. /\ After(s, i) # Null /\ After(s, i) = s[i + 1]
          /\ i + 1 \in 1 .. Len(s)
      BY <1>1, <2>1, <2>3, AfterIs
    <3> QED BY <1>7, <2>3, <3>1
  <2> QED BY <2>2, <2>3
<1>11. answer' = [of |-> List, after |-> l[i],
                  is |-> IF i = Len(l) THEN None ELSE l[i + 1]]
  BY <1>2, <1>4, <1>5, <1>8, <1>10
<1>12. Chain!Asked(List, l[i], IF i = Len(l) THEN None ELSE l[i + 1])
  BY <1>11 DEF Chain!Asked
<1>13. walk' = walk
  BY <1>3
<1> QED BY <1>6, <1>8, <1>9, <1>12, <1>13 DEF Chain!AskList, l, s

LEMMA StartWalkBegins ==
  ASSUME Inv, Inv', StartWalk
  PROVE  Chain!Begin
<1>1. PICK k \in {"drain", "scan", "first"} : walk' = [NoWalk EXCEPT !.kind = k]
  BY DEF StartWalk
<1>2. walk' = [kind |-> k, at |-> Null, taken |-> None] /\ k # "none"
  BY <1>1 DEF NoWalk
<1>3. walk = NoWalk /\ UNCHANGED <<chain, data>> /\ answer' = NoAnswer
  BY DEF StartWalk, mem
<1>4. /\ Values(Forward(List))' = Values(Forward(List))
      /\ Range(Values(Forward(Table)))' = Range(Values(Forward(Table)))
  BY <1>3, StillSeen
<1>5. ToDo' = Values(Forward(List))'
  BY <1>2, SeenNext DEF Remaining
<1>6. /\ walk.kind = "none" /\ walk'.kind # "none" /\ walk'.taken = walk.taken
  BY <1>2, <1>3 DEF NoWalk
<1> QED BY <1>3, <1>4, <1>5, <1>6
        DEF Chain!Begin, Chain!NotAsked, Chain!NoAnswer, NoAnswer

\* A step of a walk that takes the i-th cell.
LEMMA Takes ==
  ASSUME Inv, Inv', UNCHANGED <<chain, data>>, answer' = NoAnswer,
         NEW i \in 1 .. Len(Forward(List)),
         ToDo = ValuesOf(data, Rest(Forward(List), i)),
         ToDo' = ValuesOf(data, Rest(Forward(List), i + 1)),
         walk.kind # "none", walk'.kind # "none",
         walk'.taken = data[Forward(List)[i]]
  PROVE  Chain!Take
<1> DEFINE s == Forward(List)
           r == ValuesOf(data, Rest(s, i))
<1>1. Valued(data, List, s)
  BY Seen
<1>2. /\ r # <<>> /\ Head(r) = data[s[i]]
      /\ Tail(r) = ValuesOf(data, Rest(s, i + 1))
  BY <1>1, ValuesRest
<1>3. /\ Values(Forward(List))' = Values(Forward(List))
      /\ Range(Values(Forward(Table)))' = Range(Values(Forward(Table)))
  BY StillSeen
<1> HIDE DEF r
<1>4. ToDo # <<>> /\ walk'.taken = Head(ToDo) /\ ToDo' = Tail(ToDo)
  BY <1>2 DEF r
<1> HIDE DEF s
<1> QED BY <1>3, <1>4
        DEF Chain!Take, Chain!NotAsked, Chain!NoAnswer, NoAnswer

LEMMA GetNextDataTakes ==
  ASSUME Inv, Inv', GetNextData
  PROVE  Chain!Take
<1> DEFINE s == Forward(List)
<1>1. /\ Memory /\ CellsOf(List, s) /\ walk \in Handles
  BY InvParts
<1>2. /\ walk.kind = "drain" /\ HasNextData
      /\ UNCHANGED <<chain, data>> /\ answer' = NoAnswer
  BY DEF GetNextData
<1>3. PICK i \in 1 .. Len(s) :
        /\ s[i] = IF walk.at = Null THEN Following(List, List) ELSE walk.at
        /\ walk.at = Null => i = 1
        /\ walk.at = Null \/ walk.at = s[i]
  BY <1>2, CopiedCell
<1> DEFINE y  == After(s, i)
           at == IF y = Null THEN NotExist ELSE y
<1>4. Following(List, s[i]) = y
  BY <1>1, NextIs
<1>5. walk' = [walk EXCEPT !.at = at, !.taken = data[s[i]]]
  BY <1>3, <1>4 DEF GetNextData, Step
<1>6. walk' = [kind |-> "drain", at |-> at, taken |-> data[s[i]]]
  BY <1>1, <1>2, <1>5 DEF Handles
<1>7. Remaining(walk, data, s, ToDo) /\ Remaining(walk', data, s, ToDo')
  BY <1>2, Seen, SeenNext, StillSeen
<1>8. i \in 1 .. Len(s)
  OBVIOUS
<1> HIDE DEF s
<1>9. Rest(s, 1) = s /\ Rest(s, Len(s) + 1) = <<>> /\ Len(s) \in Nat
  BY <1>1, RestWhole DEF CellsOf
<1>10. ToDo = ValuesOf(data, Rest(s, i))
  <2>1. CASE walk.at = Null
    BY <1>2, <1>3, <1>7, <1>9, <2>1 DEF Remaining
  <2>2. CASE walk.at = s[i]
    BY <1>2, <1>7, <1>8, <2>2 DEF Remaining
  <2> QED BY <1>3, <2>1, <2>2
<1>11. ToDo' = ValuesOf(data, Rest(s, i + 1))
  <2>1. i \in 0 .. Len(s)
    BY <1>8
  <2>2. CASE y = Null
    <3>1. i = Len(s) /\ at = NotExist
      BY <1>1, <2>1, <2>2, AfterIs
    <3>2. ToDo' = <<>>
      <4> HIDE DEF at
      <4> QED BY <1>6, <1>7, <3>1 DEF Remaining
    <3>3. ValuesOf(data, <<>>) = <<>>
      BY DEF ValuesOf
    <3> QED BY <1>9, <3>1, <3>2, <3>3
  <2>3. CASE y # Null
    <3>1. i + 1 \in 1 .. Len(s) /\ at = s[i + 1]
      BY <1>1, <2>1, <2>3, AfterIs
    <3> HIDE DEF at
    <3> QED BY <1>6, <1>7, <3>1 DEF Remaining
  <2> QED BY <2>2, <2>3
<1> HIDE DEF at
<1>12. walk.kind # "none" /\ walk'.kind # "none" /\ walk'.taken = data[s[i]]
  BY <1>2, <1>6
<1> QED BY <1>2, <1>8, <1>10, <1>11, <1>12, Takes DEF s

LEMMA ScanNextTakes ==
  ASSUME Inv, Inv', ScanNext
  PROVE  Chain!Take
<1> DEFINE s == Forward(List)
           y == GetNextNode(walk.at)
<1>1. /\ Memory /\ CellsOf(List, s) /\ walk \in Handles /\ Walking(walk, data, s)
  BY InvParts
<1>2. /\ walk.kind = "scan" /\ y # Null
      /\ walk' = [walk EXCEPT !.at = y, !.taken = data[y]]
      /\ UNCHANGED <<chain, data>> /\ answer' = NoAnswer
  BY DEF ScanNext, Step
<1>3. Remaining(walk, data, s, ToDo) /\ Remaining(walk', data, s, ToDo')
  BY <1>2, Seen, SeenNext, StillSeen
<1>4. Rest(s, 0 + 1) = s
  BY <1>1, RestWhole DEF CellsOf
<1>5. PICK i \in 0 .. Len(s) : y = After(s, i) /\ ToDo = ValuesOf(data, Rest(s, i + 1))
  <2>1. walk.at = Null \/ walk.at \in Range(s)
    BY <1>1, <1>2 DEF Handles, Walking, Scanning
  <2>2. CASE walk.at = Null
    <3>1. y = After(s, 0) /\ 0 \in 0 .. Len(s)
      BY <1>1, <2>2, NextIs DEF CellsOf
    <3>2. ToDo = ValuesOf(data, s)
      <4> HIDE DEF s
      <4> QED BY <1>2, <1>3, <2>2 DEF Remaining
    <3> QED BY <1>4, <3>1, <3>2
  <2>3. CASE walk.at \in Range(s)
    <3>1. PICK i \in 1 .. Len(s) : walk.at = s[i]
      BY <1>1, <2>3, RangeOf
    <3>2. y = After(s, i) /\ i \in 0 .. Len(s)
      BY <1>1, <3>1, NextIs
    <3>3. ToDo = ValuesOf(data, Rest(s, i + 1))
      <4> HIDE DEF s
      <4> QED BY <1>2, <1>3, <3>1 DEF Remaining
    <3> QED BY <3>2, <3>3
  <2> QED BY <2>1, <2>2, <2>3
<1> HIDE DEF s, y
<1>6. i + 1 \in 1 .. Len(s) /\ y = s[i + 1]
  BY <1>1, <1>2, <1>5, AfterIs
<1>7. walk' = [kind |-> "scan", at |-> y, taken |-> data[y]]
  BY <1>1, <1>2 DEF Handles
<1>8. ToDo' = ValuesOf(data, Rest(s, (i + 1) + 1))
  BY <1>3, <1>6, <1>7 DEF Remaining
<1>9. walk.kind # "none" /\ walk'.kind # "none" /\ walk'.taken = data[s[i + 1]]
  BY <1>2, <1>6, <1>7
<1> QED BY <1>2, <1>5, <1>6, <1>8, <1>9, Takes DEF s

LEMMA FirstNextTakes ==
  ASSUME Inv, Inv', FirstNext
  PROVE  Chain!Take
<1> DEFINE s == Forward(List)
           y == GetNextNode(Null)
<1>1. /\ Memory /\ CellsOf(List, s) /\ walk \in Handles /\ Walking(walk, data, s)
  BY InvParts
<1>2. /\ walk.kind = "first" /\ walk.taken = None /\ y # Null
      /\ walk' = [walk EXCEPT !.at = y, !.taken = data[y]]
      /\ UNCHANGED <<chain, data>> /\ answer' = NoAnswer
  BY DEF FirstNext, Step
<1>3. Remaining(walk, data, s, ToDo) /\ Remaining(walk', data, s, ToDo')
  BY <1>2, Seen, SeenNext, StillSeen
<1>4. y = After(s, 0) /\ 0 \in 0 .. Len(s)
  BY <1>1, NextIs DEF CellsOf
<1> HIDE DEF s, y
<1>5. Rest(s, 1) = s
  BY <1>1, RestWhole DEF CellsOf
<1>6. 0 + 1 \in 1 .. Len(s) /\ y = s[0 + 1]
  BY <1>1, <1>2, <1>4, AfterIs
<1>7. 1 \in 1 .. Len(s) /\ y = s[1]
  BY <1>6
<1>8. walk.at = Null
  BY <1>1, <1>2 DEF Walking, TakingFirst
<1>9. ToDo = ValuesOf(data, Rest(s, 1))
  BY <1>2, <1>3, <1>5, <1>8 DEF Remaining
<1>10. walk' = [kind |-> "first", at |-> y, taken |-> data[y]]
  BY <1>1, <1>2 DEF Handles
<1>11. ToDo' = ValuesOf(data, Rest(s, 1 + 1))
  BY <1>3, <1>7, <1>10 DEF Remaining
<1>12. walk.kind # "none" /\ walk'.kind # "none" /\ walk'.taken = data[s[1]]
  BY <1>2, <1>7, <1>10
<1> QED BY <1>2, <1>7, <1>9, <1>11, <1>12, Takes DEF s

LEMMA DrainBodyFinishes ==
  ASSUME Inv, Inv', DrainBody
  PROVE  Chain!Finish
<1> DEFINE s == Forward(List)
<1>1. /\ Memory /\ CellsOf(List, s) /\ walk \in Handles /\ Walking(walk, data, s)
  BY InvParts
<1>2. /\ walk.kind = "drain" /\ walk.taken # None /\ answer' = NoAnswer
      /\ walk' = [walk EXCEPT !.at = walk.at, !.taken = None]
  BY DEF DrainBody, Step
<1>3. walk' = [kind |-> "drain", at |-> walk.at, taken |-> None]
  BY <1>1, <1>2 DEF Handles
<1>4. /\ Remaining(walk, data, s, ToDo) /\ Remaining(walk', data', s', ToDo')
  BY Seen, SeenNext
<1>5. walk.at # Null /\ (walk.at \in Cells => walk.at \in Range(s))
  BY <1>1, <1>2 DEF Walking, Draining
<1>6. walk.at = NotExist \/ \E k \in 1 .. Len(s) : walk.at = s[k]
  BY <1>1, <1>5, RangeOf DEF Handles
<1>7. CASE UNCHANGED mem
  <2>1. /\ Values(s)' = Values(s) /\ s' = s /\ data' = data
        /\ Range(Values(Forward(Table)))' = Range(Values(Forward(Table)))
    BY <1>7, StillSeen DEF mem
  <2> HIDE DEF s
  <2>2. ToDo' = ToDo
    <3>1. CASE walk.at = NotExist
      BY <1>3, <1>4, <3>1 DEF Remaining
    <3>2. CASE \E k \in 1 .. Len(s) : walk.at = s[k]
      BY <1>2, <1>3, <1>4, <2>1, <3>2 DEF Remaining
    <3> QED BY <1>6, <3>1, <3>2
  <2>3. walk.kind # "none" /\ walk'.kind # "none" /\ walk'.taken = None
    BY <1>2, <1>3
  <2> QED BY <1>2, <2>1, <2>2, <2>3
          DEF Chain!Finish, Chain!NotAsked, Chain!NoAnswer, NoAnswer, s
<1>8. CASE FindNode(walk.taken) # Null /\ Unlink(FindNode(walk.taken))
  <2>1. PICK i \in 1 .. Len(s) :
          /\ FindNode(walk.taken) = s[i] /\ data[s[i]] = walk.taken
          /\ \A j \in 1 .. i - 1 : data[s[j]] # walk.taken
    BY <1>1, <1>8, LookUp
  <2>2. Unlink(s[i]) /\ \A j \in 1 .. i - 1 : data[s[j]] # data[s[i]]
    BY <1>8, <2>1
  <2>3. s' = Cut(s, i)
    BY <2>2, UnlinkStep
  <2>4. /\ Values(s)' = Chain!Without(Values(s), data[s[i]])
        /\ Range(Values(Forward(Table)))' = Range(Values(Forward(Table)))
        /\ \A x \in Range(s) \ {s[i]} : data'[x] = data[x]
    BY <2>2, UnlinkSeen
  <2>5. i \in 1 .. Len(s)
    OBVIOUS
  <2> HIDE DEF s
  <2>6. ToDo' = ToDo
    <3>1. CASE walk.at = NotExist
      BY <1>3, <1>4, <3>1 DEF Remaining
    <3>2. CASE walk.at # NotExist
      <4>1. walk.at \in Cells
        BY <1>1, <1>6, <3>2 DEF CellsOf
      <4>2. PICK k, j \in 1 .. Len(s) :
              j < k /\ walk.at = s[k] /\ data[s[j]] = walk.taken
        BY <1>1, <1>2, <4>1 DEF Walking, Draining
      <4>3. i < k
        <5>1. SUFFICES ASSUME ~(i < k) PROVE FALSE
          OBVIOUS
        <5>2. j \in 1 .. i - 1
          <6>1. i \in Int /\ j \in Int /\ k \in Int /\ 1 <= j /\ j < k
            BY <2>5, <4>2
          <6> QED BY ONLY <5>1, <6>1
        <5> QED BY <2>1, <4>2, <5>2
      <4>4. /\ k - 1 \in 1 .. Len(Cut(s, i)) /\ Cut(s, i)[k - 1] = s[k]
            /\ Rest(Cut(s, i), k - 1) = Rest(s, k)
        BY <1>1, <2>5, <4>2, <4>3, RestCut
      <4>5. ToDo = ValuesOf(data, Rest(s, k))
        BY <1>2, <1>4, <4>2 DEF Remaining
      <4>6. ToDo' = ValuesOf(data', Rest(s, k))
        <5>1. ToDo' = ValuesOf(data', Rest(Cut(s, i), k - 1))
          BY <1>3, <1>4, <2>3, <4>2, <4>4 DEF Remaining
        <5> QED BY <4>4, <5>1
      <4>7. ValuesOf(data', Rest(s, k)) = ValuesOf(data, Rest(s, k))
        <5> DEFINE m == Len(s) + 1 - k
        <5>1. s \in Seq(Cells) /\ k \in 1 .. Len(s) + 1 /\ Len(s) \in Nat
          BY <1>1, <4>2 DEF CellsOf
        <5>2. /\ Len(Rest(s, k)) = m
              /\ \A l \in 1 .. m : Rest(s, k)[l] = s[l + k - 1]
          BY <5>1, RestIs
        <5>3. \A l \in 1 .. m : l + k - 1 \in 1 .. Len(s) /\ l + k - 1 # i
          BY <2>5, <4>2, <4>3, <5>1
        <5>4. \A l \in 1 .. m : s[l + k - 1] \in Range(s) \ {s[i]}
          BY <1>1, <2>5, <5>3 DEF CellsOf, Range
        <5> HIDE DEF m
        <5>5. \A l \in 1 .. m : data'[Rest(s, k)[l]] = data[Rest(s, k)[l]]
          BY <2>4, <5>2, <5>4
        <5> QED BY <5>2, <5>5 DEF ValuesOf
      <4> QED BY <4>5, <4>6, <4>7
    <3> QED BY <3>1, <3>2
  <2>7. walk.kind # "none" /\ walk'.kind # "none" /\ walk'.taken = None
    BY <1>2, <1>3
  <2>8. Values(s)' = Chain!Without(Values(s), walk.taken)
    BY <2>1, <2>4
  <2> QED BY <1>2, <2>4, <2>6, <2>7, <2>8
          DEF Chain!Finish, Chain!NotAsked, Chain!NoAnswer, NoAnswer, s
<1> QED BY <1>7, <1>8 DEF DrainBody

LEMMA FirstBodyFinishes ==
  ASSUME Inv, Inv', FirstBody
  PROVE  Chain!Finish
<1> DEFINE s == Forward(List)
<1>1. /\ walk.kind = "first" /\ walk.taken # None /\ Unlink(walk.at)
      /\ walk' = [walk EXCEPT !.at = Null, !.taken = None]
      /\ answer' = NoAnswer /\ walk \in Handles /\ CellsOf(List, s)
  BY InvParts DEF FirstBody, Step
<1>2. 1 \in 1 .. Len(s) /\ walk.at = s[1] /\ walk.taken = data[s[1]]
  BY <1>1, FirstTaken
<1>3. Unlink(s[1]) /\ \A j \in 1 .. 1 - 1 : data[s[j]] # data[s[1]]
  BY <1>1, <1>2
<1>4. s' = Cut(s, 1)
  BY <1>2, <1>3, UnlinkStep
<1>5. /\ Values(s)' = Chain!Without(Values(s), data[s[1]])
      /\ Range(Values(Forward(Table)))' = Range(Values(Forward(Table)))
      /\ \A x \in Range(s) \ {s[1]} : data'[x] = data[x]
  BY <1>2, <1>3, UnlinkSeen
<1>6. /\ Remaining(walk, data, s, ToDo) /\ Remaining(walk', data', s', ToDo')
  BY Seen, SeenNext
<1>7. walk' = [kind |-> "first", at |-> Null, taken |-> None]
  BY <1>1 DEF Handles
<1> HIDE DEF s
<1>8. ToDo = ValuesOf(data, Rest(s, 1 + 1))
  BY <1>1, <1>2, <1>6 DEF Remaining
<1>9. ToDo' = ValuesOf(data', Cut(s, 1))
  BY <1>4, <1>6, <1>7 DEF Remaining
<1>10. ValuesOf(data', Cut(s, 1)) = ValuesOf(data, Cut(s, 1))
  <2>1. /\ Len(s) \in Nat /\ Len(Cut(s, 1)) = Len(s) - 1
        /\ \A j \in 1 .. Len(s) - 1 : Cut(s, 1)[j] = IF j < 1 THEN s[j] ELSE s[j + 1]
    <3>1. s \in Seq(Cells) /\ IsInjective(s) /\ 1 \in 1 .. Len(s)
      BY <1>1, <1>2 DEF CellsOf
    <3> QED BY ONLY <3>1, CutIs
  <2>2. \A j \in 1 .. Len(s) - 1 :
          Cut(s, 1)[j] = s[j + 1] /\ j + 1 \in 1 .. Len(s) /\ j + 1 # 1
    BY <2>1
  <2>3. \A j \in 1 .. Len(s) - 1 : Cut(s, 1)[j] \in Range(s) \ {s[1]}
    BY <1>1, <1>2, <2>2 DEF CellsOf, Range
  <2> QED BY <1>5, <2>1, <2>3 DEF ValuesOf
<1>11. Cut(s, 1) = Rest(s, 1 + 1)
  BY <1>1, <1>2, CutFirst
<1>12. ToDo' = ToDo
  BY <1>8, <1>9, <1>10, <1>11
<1>13. walk.kind # "none" /\ walk'.kind # "none" /\ walk'.taken = None
  BY <1>1, <1>7
<1>14. Values(s)' = Chain!Without(Values(s), walk.taken)
  BY <1>2, <1>5
<1> QED BY <1>1, <1>5, <1>12, <1>13, <1>14
        DEF Chain!Finish, Chain!NotAsked, Chain!NoAnswer, NoAnswer, s

\* The end of a walk, with the list deleted or left as it is.
LEMMA Ends ==
  ASSUME Inv, Inv', walk.kind # "none", walk' = NoWalk, answer' = NoAnswer,
         ToDo = <<>> \/ walk.taken # None, DeleteList \/ UNCHANGED mem
  PROVE  Chain!End
<1> DEFINE s == Forward(List)
           t == Forward(Table)
<1>1. walk'.kind = "none" /\ walk'.taken = None
  BY DEF NoWalk
<1>2. ToDo' = <<>>
  BY <1>1, SeenNext DEF Remaining
<1>3. /\ Values(s)' \in {Values(s), <<>>}
      /\ Range(Values(t))' = Range(Values(t))
  <2>1. CASE UNCHANGED mem
    BY <2>1, StillSeen DEF mem
  <2>2. CASE DeleteList
    <3>1. /\ s' = <<>> /\ t' = t
          /\ \A y \in Range(t) : data'[y] = data[y]
      BY <2>2, InvParts, DeleteListMemory
    <3>2. /\ Values(t) = ValuesOf(data, t) /\ CellsOf(Table, t)
          /\ Values(s)' = ValuesOf(data', s') /\ Values(t)' = ValuesOf(data', t')
      BY Seen, SeenNext, InvParts
    <3> HIDE DEF s, t
    <3>3. Values(s)' = <<>>
      BY <3>1, <3>2 DEF ValuesOf
    <3>4. ValuesOf(data', t) = ValuesOf(data, t)
      BY <3>1, <3>2, ValuesStill
    <3>5. Values(t)' = Values(t)
      BY <3>1, <3>2, <3>4
    <3> QED BY <3>3, <3>5 DEF Range
  <2> QED BY <2>1, <2>2
<1> HIDE DEF s, t
<1> QED BY <1>1, <1>2, <1>3
        DEF Chain!End, Chain!NotAsked, Chain!NoAnswer, NoAnswer, s, t

\* A walk that stands before the first cell of an empty list is at its end.
LEMMA EmptyToDo ==
  ASSUME Inv, walk.kind # "none", walk.at = Null,
         Following(List, List) = Null
  PROVE  ToDo = <<>>
<1> DEFINE s == Forward(List)
<1>1. CellsOf(List, s) /\ Following(List, List) = After(s, 0)
  BY InvParts, NextIs
<1>2. Remaining(walk, data, s, ToDo)
  BY Seen
<1> HIDE DEF s
<1>3. 0 \in 0 .. Len(s)
  BY <1>1 DEF CellsOf
<1>4. Len(s) = 0
  BY <1>1, <1>3, AfterIs
<1>5. s = <<>>
  BY <1>1, <1>4, RangeOf
<1>6. ToDo = ValuesOf(data, <<>>)
  BY <1>2, <1>5 DEF Remaining
<1> QED BY <1>6 DEF ValuesOf

LEMMA EndDrainEnds ==
  ASSUME Inv, Inv', EndDrain
  PROVE  Chain!End
<1> DEFINE s == Forward(List)
<1>1. /\ walk.kind = "drain" /\ (walk.taken = None => ~HasNextData)
      /\ DeleteList /\ walk' = NoWalk /\ answer' = NoAnswer
  BY DEF EndDrain
<1>2. ASSUME ~HasNextData
      PROVE  ToDo = <<>>
  <2>1. CASE walk.at = NotExist
    BY <2>1, Seen DEF Remaining
  <2>2. CASE walk.at = Null
    <3>1. Following(List, List) = Null
      BY <1>2, <2>2, HeadsApart DEF HasNextData
    <3> QED BY <1>1, <2>2, <3>1, EmptyToDo
  <2>3. CASE walk.at \in Cells
    <3>1. /\ Memory /\ CellsOf(List, s) /\ walk.at \in Range(s)
          /\ Following(List, List) = After(s, 0)
      BY <2>3, InvParts, NextIs DEF Walking
    <3>2. walk.at \in live
      BY <3>1, MemoryParts
    <3> HIDE DEF s
    <3>3. walk.at # NotExist /\ After(s, 0) = Null
      BY <1>2, <2>3, <3>1, <3>2, HeadsApart DEF HasNextData
    <3>4. 0 \in 0 .. Len(s)
      BY <3>1 DEF CellsOf
    <3>5. Len(s) = 0
      BY <3>1, <3>3, <3>4, AfterIs
    <3> QED BY <3>1, <3>5, RangeOf
  <2> QED BY <2>1, <2>2, <2>3, InvParts DEF Handles
<1> QED BY <1>1, <1>2, Ends

LEMMA EndScanEnds ==
  ASSUME Inv, Inv', EndScan
  PROVE  Chain!End
<1>1. /\ walk.kind = "scan" /\ (walk.at # Null \/ GetNextNode(walk.at) = Null)
      /\ UNCHANGED mem /\ walk' = NoWalk /\ answer' = NoAnswer
  BY DEF EndScan
<1>2. ToDo = <<>> \/ walk.taken # None
  <2>1. CASE walk.at = Null
    <3>1. Following(List, List) = Null
      BY <1>1, <2>1 DEF GetNextNode
    <3> QED BY <1>1, <2>1, <3>1, EmptyToDo
  <2>2. CASE walk.at # Null
    <3>1. walk.at \in Cells /\ walk.taken = data[walk.at] /\ walk.at \in Range(Forward(List))
      BY <1>1, <2>2, InvParts DEF Handles, Walking, Scanning
    <3>2. data[walk.at] \in Datas /\ None \notin Datas
      BY <3>1, InvParts, RangeOf
    <3> QED BY <3>1, <3>2
  <2> QED BY <2>1, <2>2
<1> QED BY <1>1, <1>2, Ends

LEMMA EndFirstEnds ==
  ASSUME Inv, Inv', EndFirst
  PROVE  Chain!End
<1>1. /\ walk.kind = "first" /\ walk' = NoWalk /\ answer' = NoAnswer
      /\ \/ walk.taken = None /\ GetNextNode(Null) = Null /\ DeleteList
         \/ walk.taken # None /\ UNCHANGED mem
  BY DEF EndFirst
<1>2. CASE walk.taken = None
  <2>1. walk.at = Null
    BY <1>1, <1>2, InvParts DEF Walking, TakingFirst
  <2>2. Following(List, List) = Null /\ DeleteList
    BY <1>1, <1>2 DEF GetNextNode
  <2> QED BY <1>1, <2>1, <2>2, EmptyToDo, Ends
<1>3. CASE walk.taken # None
  BY <1>1, <1>3, Ends
<1> QED BY <1>2, <1>3

LEMMA AddNodeFailsNothing ==
  ASSUME Inv, Inv', AddNodeFails
  PROVE  Chain!Nothing
<1>1. walk = NoWalk /\ UNCHANGED <<chain, data, walk>> /\ answer' = NoAnswer
  BY DEF AddNodeFails
<1>2. /\ Values(Forward(List))' = Values(Forward(List))
      /\ Range(Values(Forward(Table)))' = Range(Values(Forward(Table)))
      /\ ToDo' = ToDo /\ walk' = walk
  BY <1>1, StillSeen, Idle
<1> QED BY <1>1, <1>2
        DEF Chain!Nothing, Chain!NotAsked, Chain!NoAnswer, NoAnswer

\* The keys of the cells s.
LEMMA KeysOf ==
  ASSUME NEW h, NEW s, CellsOf(h, s), NEW dt
  PROVE  /\ Range(ValuesOf(dt, s)) = {dt[x] : x \in Range(s)}
         /\ Range(ValuesOf(dt, s)) = {dt[s[i]] : i \in 1 .. Len(s)}
<1>1. Range(ValuesOf(dt, s)) = {dt[s[i]] : i \in 1 .. Len(s)}
  BY DEF ValuesOf, Range
<1>2. Range(s) = {s[i] : i \in 1 .. Len(s)}
  BY RangeOf
<1>3. {dt[x] : x \in {s[i] : i \in 1 .. Len(s)}} = {dt[s[i]] : i \in 1 .. Len(s)}
  OBVIOUS
<1> QED BY <1>1, <1>2, <1>3

\* A step that changes one key, whatever walk there is over the list.
LEMMA TableEdits ==
  ASSUME Inv, Inv', walk' = walk, answer' = NoAnswer,
         Forward(List)' = Forward(List),
         \A x \in Range(Forward(List)) : data'[x] = data[x],
         NEW k \in Datas,
         LET R == Range(Values(Forward(Table)))
         IN  Range(Values(Forward(Table)))' \in {R \cup {k}, R \ {k}}
  PROVE  Chain!EditTable
<1> DEFINE s == Forward(List)
<1>1. /\ CellsOf(List, s) /\ walk \in Handles /\ Walking(walk, data, s)
  BY InvParts
<1>2. /\ Values(s) = ValuesOf(data, s) /\ Remaining(walk, data, s, ToDo)
  BY Seen
<1>3. /\ Values(s)' = ValuesOf(data', s) /\ Remaining(walk, data', s, ToDo')
  BY SeenNext
<1>4. \A x \in Range(s) : data'[x] = data[x]
  OBVIOUS
<1> HIDE DEF s
<1>5. ValuesOf(data', s) = ValuesOf(data, s)
  BY <1>1, <1>4, ValuesStill
<1>6. ASSUME NEW i \in 1 .. Len(s) + 1
      PROVE  ValuesOf(data', Rest(s, i)) = ValuesOf(data, Rest(s, i))
  <2>1. s \in Seq(Cells) /\ Len(s) \in Nat
    BY <1>1 DEF CellsOf
  <2>2. /\ Len(Rest(s, i)) = Len(s) + 1 - i
        /\ \A l \in 1 .. Len(s) + 1 - i : Rest(s, i)[l] = s[l + i - 1]
    BY <2>1, RestIs
  <2>3. \A l \in 1 .. Len(s) + 1 - i : l + i - 1 \in 1 .. Len(s)
    BY <2>1
  <2>4. \A l \in 1 .. Len(s) + 1 - i : s[l + i - 1] \in Range(s)
    BY <1>1, <2>3, RangeOf
  <2>5. \A l \in 1 .. Len(s) + 1 - i : data'[Rest(s, i)[l]] = data[Rest(s, i)[l]]
    BY <1>4, <2>2, <2>4
  <2> QED BY <2>2, <2>5 DEF ValuesOf
<1>7. ToDo' = ToDo
  <2>1. CASE walk.kind = "none" \/ walk.at = NotExist
    BY <1>2, <1>3, <2>1 DEF Remaining
  <2>2. CASE walk.kind # "none" /\ walk.at = Null
    BY <1>2, <1>3, <1>5, <2>2 DEF Remaining
  <2>3. CASE walk.kind # "none" /\ walk.at \in Cells
    <3>1. walk.at \in Range(s)
      BY <1>1, <2>3 DEF Walking
    <3>2. PICK i \in 1 .. Len(s) : walk.at = s[i]
      BY <1>1, <3>1, RangeOf
    <3> DEFINE j == IF walk.kind = "drain" THEN i ELSE i + 1
    <3>3. ToDo = ValuesOf(data, Rest(s, j)) /\ ToDo' = ValuesOf(data', Rest(s, j))
      BY <1>2, <1>3, <2>3, <3>2 DEF Remaining
    <3>4. j \in 1 .. Len(s) + 1
      BY <1>1 DEF CellsOf
    <3> HIDE DEF j
    <3> QED BY <1>6, <3>3, <3>4
  <2> QED BY <1>1, <2>1, <2>2, <2>3 DEF Handles
<1>8. Values(s)' = Values(s)
  BY <1>2, <1>3, <1>5
<1> QED BY <1>7, <1>8
        DEF Chain!EditTable, Chain!NotAsked, Chain!NoAnswer, NoAnswer, s

LEMMA WriteEdits ==
  ASSUME Inv, Inv', Write
  PROVE  Chain!EditTable
<1> DEFINE s == Forward(List)
           t == Forward(Table)
           R == Range(Values(t))
<1>1. walk' = walk /\ answer' = NoAnswer
  BY DEF Write
<1>2. Memory /\ CellsOf(List, s) /\ CellsOf(Table, t) /\ Values(t) = ValuesOf(data, t)
  BY Seen, InvParts
<1>3. R = {data[x] : x \in Range(t)} /\ R = {data[t[i]] : i \in 1 .. Len(t)}
  BY <1>2, KeysOf
<1>4. PICK k \in Datas :
        \/ /\ \E i \in 1 .. Len(t) : data[t[i]] = k
           /\ UNCHANGED mem
        \/ \E x \in Cells \ live, i \in 1 .. Len(t) + 1 :
             /\ Allocate(x, k) /\ fresh' = fresh
             /\ Memory' /\ s' = s
             /\ t' = Put(t, i, x)
  BY WriteIs
<1>5. CASE UNCHANGED mem /\ \E i \in 1 .. Len(t) : data[t[i]] = k
  <2>1. s' = s /\ R' = R /\ data' = data
    BY <1>5, StillSeen DEF mem
  <2>2. k \in R
    BY <1>3, <1>5
  <2>3. R' = R \cup {k}
    <3> HIDE DEF R
    <3> QED BY <2>1, <2>2
  <2> QED BY <1>1, <2>1, <2>3, TableEdits
<1>6. CASE \E x \in Cells \ live, i \in 1 .. Len(t) + 1 :
             /\ Allocate(x, k) /\ s' = s /\ t' = Put(t, i, x)
  <2>1. PICK x \in Cells \ live, i \in 1 .. Len(t) + 1 :
          Allocate(x, k) /\ s' = s /\ t' = Put(t, i, x)
    BY <1>6
  <2>2. data'[x] = k /\ \A y \in Cells \ {x} : data'[y] = data[y]
    BY <1>2, <2>1, AllocatedData
  <2>3. Range(s) \cup Range(t) = live /\ live \subseteq Cells
    BY <1>2, MemoryParts
  <2>4. /\ \A y \in Range(s) : data'[y] = data[y]
        /\ \A y \in Range(t) : data'[y] = data[y]
        /\ x \in Cells /\ x \notin Range(t)
    <3> HIDE DEF s, t
    <3> QED BY <2>1, <2>2, <2>3
  <2>5. Values(t)' = ValuesOf(data', t') /\ CellsOf(Table, t')
    <3>1. Queue(chain', Table, t') /\ Table \in Heads
      BY DEF Inv, Memory, Queues, Heads
    <3> QED BY <3>1, QueueTypes, SeenNext
  <2>6. R' = Range(ValuesOf(data', t'))
    BY <2>5 DEF Range
  <2>7. R' = {data'[y] : y \in Range(t')}
    <3> HIDE DEF R
    <3> QED BY <2>5, <2>6, KeysOf
  <2>8. Range(Put(t, i, x)) = Range(t) \cup {x}
    <3>1. t \in Seq(Cells) /\ IsInjective(t)
      BY <1>2 DEF CellsOf
    <3> QED BY ONLY <2>1, <2>4, <3>1, PutIs
  <2> HIDE DEF s, t, R
  <2>9. R' = {data'[y] : y \in Range(t) \cup {x}}
    BY <2>1, <2>7, <2>8
  <2>10. R' = R \cup {k}
    BY <1>3, <2>2, <2>4, <2>9
  <2> QED BY <1>1, <2>1, <2>4, <2>10, TableEdits DEF s, t, R
<1> QED BY <1>4, <1>5, <1>6

LEMMA DeleteEdits ==
  ASSUME Inv, Inv', Delete
  PROVE  Chain!EditTable
<1> DEFINE s == Forward(List)
           t == Forward(Table)
           R == Range(Values(t))
<1>1. walk' = walk /\ answer' = NoAnswer
  BY DEF Delete
<1>2. /\ Memory /\ CellsOf(List, s) /\ CellsOf(Table, t) /\ Values(t) = ValuesOf(data, t)
      /\ Sorted(data, t) /\ \A i \in 1 .. Len(t) : data[t[i]] \in Nat
  BY Seen, InvParts, DatasAssumption DEF Memory
<1>3. R = {data[t[i]] : i \in 1 .. Len(t)}
  BY <1>2, KeysOf
<1>4. PICK i \in 1 .. Len(t) :
        /\ data[t[i]] \in Datas /\ s' = s /\ t' = Cut(t, i)
        /\ \A x \in Cells \ {t[i]} : data'[x] = data[x]
  BY DeleteIs
<1>5. Range(s) \cap Range(t) = {} /\ Range(s) \cup Range(t) \subseteq Cells
  BY <1>2, MemoryParts
<1>6. Values(t)' = ValuesOf(data', t') /\ CellsOf(Table, t')
  <2>1. Queue(chain', Table, t') /\ Table \in Heads
    BY DEF Inv, Memory, Queues, Heads
  <2> QED BY <2>1, QueueTypes, SeenNext
<1>7. R' = Range(ValuesOf(data', t'))
  BY <1>6 DEF Range
<1>8. R' = {data'[y] : y \in Range(t')}
  <2> HIDE DEF R
  <2> QED BY <1>6, <1>7, KeysOf
<1>9. Range(Cut(t, i)) = Range(t) \ {t[i]}
  <2>1. t \in Seq(Cells) /\ IsInjective(t) /\ i \in 1 .. Len(t)
    BY <1>2 DEF CellsOf
  <2> QED BY ONLY <2>1, CutIs
<1> HIDE DEF s, t, R
<1>10. Range(t) = {t[j] : j \in 1 .. Len(t)} /\ t[i] \in Range(t)
  BY <1>2, RangeOf
<1>11. \A y \in Range(t) \ {t[i]} : data'[y] = data[y]
  BY <1>4, <1>5
<1>12. R' = {data[y] : y \in Range(t) \ {t[i]}}
  BY <1>4, <1>8, <1>9, <1>11
<1>13. \A j \in 1 .. Len(t) : j # i => data[t[j]] # data[t[i]]
  <2> SUFFICES ASSUME NEW j \in 1 .. Len(t), j # i PROVE data[t[j]] # data[t[i]]
    OBVIOUS
  <2>1. j < i \/ i < j
    BY <1>2 DEF CellsOf
  <2> QED BY <1>2, <2>1 DEF Sorted
<1>14. \A y \in Range(t) : y # t[i] <=> data[y] # data[t[i]]
  BY <1>10, <1>13
<1>15. R = {data[y] : y \in Range(t)}
  BY <1>3, <1>10
<1>16. R' = R \ {data[t[i]]}
  BY <1>12, <1>14, <1>15
<1>17. \A x \in Range(s) : data'[x] = data[x]
  BY <1>4, <1>5, <1>10
<1> QED BY <1>1, <1>4, <1>16, <1>17, TableEdits DEF s, t, R

\* The first cell whose key is greater than k, in which the walk over a table
\* goes on.
LEMMA NextKey ==
  ASSUME Inv, NEW k \in Datas \cup {0},
         NEW x, x = IF k = 0 THEN Following(Table, Table)
                    ELSE FirstOf(Table, Holding(From(k + 1)))
  PROVE  \E i \in 1 .. Len(Forward(Table)) + 1 :
           /\ x = IF i = Len(Forward(Table)) + 1 THEN Null ELSE Forward(Table)[i]
           /\ i # Len(Forward(Table)) + 1 => x # Null /\ data[x] > k
           /\ \A j \in 1 .. i - 1 : data[Forward(Table)[j]] <= k
<1> DEFINE t == Forward(Table)
<1>1. /\ Memory /\ CellsOf(Table, t) /\ \A i \in 1 .. Len(t) : data[t[i]] \in Datas
      /\ Table \in Heads /\ Queue(chain, Table, t)
  BY InvParts, MemoryParts
<1>2. Datas \subseteq Nat \ {0} /\ Len(t) \in Nat
  BY <1>1, DatasAssumption DEF CellsOf
<1>3. CASE k = 0
  <2> HIDE DEF t
  <2>1. 0 \in 0 .. Len(t) /\ Nth(Table, t, 0) = Table
    BY <1>1 DEF CellsOf
  <2>2. x = After(t, 0)
    BY <1>1, <1>3, <2>1, FollowingIs DEF After
  <2>3. CASE Len(t) = 0
    <3>1. x = Null /\ 1 \in 1 .. Len(t) + 1 /\ 1 = Len(t) + 1
      BY <2>2, <2>3 DEF After
    <3> QED BY <3>1 DEF t
  <2>4. CASE Len(t) # 0
    <3>1. 1 \in 1 .. Len(t) /\ 1 \in 1 .. Len(t) + 1 /\ 1 # Len(t) + 1 /\ 0 < Len(t)
      BY <1>2, <2>4
    <3>2. x = t[1] /\ x # Null
      BY <1>1, <2>2, <3>1, HeadsApart DEF After, CellsOf
    <3>3. data[t[1]] \in Nat \ {0}
      BY <1>1, <1>2, <3>1
    <3>4. data[t[1]] > 0
      BY <3>3
    <3>5. data[x] > k
      BY <1>3, <3>2, <3>4
    <3> QED BY <3>1, <3>2, <3>5 DEF t
  <2> QED BY <2>3, <2>4
<1>4. CASE k # 0
  <2>1. k \in Nat /\ k + 1 \in Nat
    BY <1>2, <1>4
  <2>2. PICK i \in 1 .. Len(t) + 1 :
          /\ x = IF i = Len(t) + 1 THEN Null ELSE t[i]
          /\ i # Len(t) + 1 => x # Null /\ data[x] >= k + 1
          /\ \A j \in 1 .. i - 1 : data[t[j]] < k + 1
    BY <1>1, <1>4, <2>1, KeyPlace
  <2> HIDE DEF t
  <2>3. \A j \in 1 .. i - 1 : data[t[j]] <= k
    <3> SUFFICES ASSUME NEW j \in 1 .. i - 1 PROVE data[t[j]] <= k
      OBVIOUS
    <3>1. j \in 1 .. Len(t)
      BY <1>2, <2>2
    <3>2. data[t[j]] \in Nat /\ data[t[j]] < k + 1
      BY <1>1, <1>2, <2>2, <3>1
    <3> QED BY <2>1, <3>2
  <2>4. i # Len(t) + 1 => x # Null /\ data[x] > k
    <3> SUFFICES ASSUME i # Len(t) + 1 PROVE x # Null /\ data[x] > k
      OBVIOUS
    <3>1. i \in 1 .. Len(t) /\ x = t[i] /\ x # Null /\ data[x] >= k + 1
      BY <1>2, <2>2
    <3>2. data[x] \in Nat
      BY <1>1, <1>2, <3>1
    <3> QED BY <2>1, <3>1, <3>2
  <2> QED BY <2>2, <2>3, <2>4 DEF t
<1> QED BY <1>3, <1>4

LEMMA GetNextAsks ==
  ASSUME Inv, Inv', GetNext
  PROVE  Chain!AskTable
<1> DEFINE t == Forward(Table)
           R == Range(Values(t))
<1>1. PICK k \in Datas \cup {0} :
        LET x == IF k = 0 THEN Following(Table, Table)
                 ELSE FirstOf(Table, Holding(From(k + 1)))
        IN  answer' = [of |-> Table, after |-> k,
                       is |-> IF x = Null THEN None ELSE data[x]]
  BY DEF GetNext
<1> DEFINE x == IF k = 0 THEN Following(Table, Table)
                ELSE FirstOf(Table, Holding(From(k + 1)))
<1>2. answer' = [of |-> Table, after |-> k,
                 is |-> IF x = Null THEN None ELSE data[x]]
  BY <1>1
<1>3. /\ Memory /\ CellsOf(Table, t) /\ Values(t) = ValuesOf(data, t)
      /\ \A i \in 1 .. Len(t) : data[t[i]] \in Datas
      /\ Sorted(data, t)
  BY Seen, InvParts DEF Memory
<1>4. PICK i \in 1 .. Len(t) + 1 :
        /\ x = IF i = Len(t) + 1 THEN Null ELSE t[i]
        /\ i # Len(t) + 1 => x # Null /\ data[x] > k
        /\ \A j \in 1 .. i - 1 : data[t[j]] <= k
  BY NextKey
<1>5. R = {data[t[j]] : j \in 1 .. Len(t)}
  BY <1>3, KeysOf
<1>6. Datas \subseteq Nat /\ Len(t) \in Nat /\ k \in Nat
  BY <1>3, DatasAssumption DEF CellsOf
<1>7. UNCHANGED mem /\ walk' = walk
  BY DEF GetNext
<1>8. /\ Values(Forward(List))' = Values(Forward(List)) /\ R' = R
      /\ Forward(List)' = Forward(List) /\ data' = data
  BY <1>7, StillSeen DEF mem
<1>9. ToDo' = ToDo
  BY <1>7 DEF ToDo, Values, Along, Path, Forward, mem
<1> HIDE DEF t, x, R
<1> DEFINE greater == {v \in R : v > k}
<1>10. \A j \in 1 .. Len(t) : data[t[j]] \in Nat
  BY <1>3, <1>6
<1>11. (IF x = Null THEN None ELSE data[x]) =
         (IF greater = {} THEN None ELSE Chain!Min(greater))
  <2>1. CASE i = Len(t) + 1
    <3>1. x = Null
      BY <1>4, <2>1
    <3>2. \A j \in 1 .. Len(t) : data[t[j]] <= k
      BY <1>4, <1>6, <2>1
    <3>3. \A j \in 1 .. Len(t) : ~(data[t[j]] > k)
      BY <1>6, <1>10, <3>2
    <3>4. greater = {}
      BY <1>5, <3>3
    <3> QED BY <3>1, <3>4
  <2>2. CASE i # Len(t) + 1
    <3>1. i \in 1 .. Len(t) /\ x = t[i] /\ x # Null /\ data[x] > k
      BY <1>4, <1>6, <2>2
    <3>2. data[x] \in greater
      BY <1>5, <3>1
    <3>3. \A j \in 1 .. Len(t) : data[t[j]] > k => data[x] <= data[t[j]]
      <4> SUFFICES ASSUME NEW j \in 1 .. Len(t), data[t[j]] > k
                   PROVE  data[x] <= data[t[j]]
        OBVIOUS
      <4>1. data[t[j]] \in Nat /\ data[t[i]] \in Nat
        BY <1>10, <3>1
      <4>2. ~(data[t[j]] <= k)
        BY <1>6, <4>1
      <4>3. ~(j \in 1 .. i - 1)
        BY <1>4, <4>2
      <4>4. i < j \/ i = j
        BY <1>6, <3>1, <4>3
      <4>5. CASE i < j
        <5>1. data[t[i]] < data[t[j]]
          BY <1>3, <3>1, <4>5 DEF Sorted
        <5> QED BY <3>1, <4>1, <5>1
      <4>6. CASE i = j
        BY <3>1, <4>1, <4>6
      <4> QED BY <4>4, <4>5, <4>6
    <3>4. \A v \in greater : v \in Nat /\ data[x] <= v
      BY <1>5, <1>10, <3>3
    <3>5. data[x] \in Nat
      BY <3>2, <3>4
    <3> HIDE DEF greater
    <3>6. Chain!Min(greater) \in greater /\ \A v \in greater : Chain!Min(greater) <= v
      BY <3>2, <3>4 DEF Chain!Min
    <3>7. Chain!Min(greater) = data[x]
      <4>1. /\ Chain!Min(greater) <= data[x] /\ data[x] <= Chain!Min(greater)
            /\ Chain!Min(greater) \in Nat
        BY <3>2, <3>4, <3>6
      <4> HIDE DEF x
      <4> QED BY <3>5, <4>1
    <3> QED BY <3>1, <3>2, <3>7
  <2> QED BY <2>1, <2>2
<1>12. answer' = [of |-> Table, after |-> k,
                  is |-> IF greater = {} THEN None ELSE Chain!Min(greater)]
  BY <1>2, <1>11
<1> HIDE DEF greater
<1>13. Chain!Asked(Table, k, IF greater = {} THEN None ELSE Chain!Min(greater))
  BY <1>12 DEF Chain!Asked
<1>14. \E l \in Datas \cup {0} : LET g == {v \in R : v > l} IN
         Chain!Asked(Table, l, IF g = {} THEN None ELSE Chain!Min(g))
  BY <1>13 DEF greater
<1> QED BY <1>7, <1>8, <1>9, <1>14 DEF Chain!AskTable, R, t

(***************************************************************************)
(* The refinement.                                                         *)
(***************************************************************************)

LEMMA InitChain == Init => Chain!ChainInit
<1> SUFFICES ASSUME Init PROVE Chain!ChainInit
  OBVIOUS
<1> DEFINE D == Cells \cup Heads
           own == [x \in D |-> IF x \in Heads THEN x ELSE Null]
<1>1. Inv
  BY InitInv
<1>2. chain = [next |-> own, prev |-> own] /\ walk = NoWalk /\ answer = NoAnswer
  BY DEF Init
<1>3. chain.next[List] = List /\ chain.next[Table] = Table
  BY <1>2 DEF Heads
<1>4. Queue(chain, List, <<>>) /\ Queue(chain, Table, <<>>)
  <2>1. List \in Heads /\ Table \in Heads /\ chain.prev[List] = List /\ chain.prev[Table] = Table
    BY <1>2 DEF Heads
  <2> QED BY <1>3, <2>1, EmptyQueue
<1>5. Forward(List) = <<>> /\ Forward(Table) = <<>>
  <2>1. List \in Heads /\ Table \in Heads
    BY DEF Heads
  <2> QED BY <1>4, <2>1, ForwardIs DEF Forward
<1>6. Values(Forward(List)) = <<>> /\ Range(Values(Forward(Table))) = {}
  BY <1>5 DEF Values, Range
<1>7. ToDo = <<>> /\ walk.kind = "none" /\ walk.taken = None
  BY <1>1, <1>2, Seen DEF Remaining, NoWalk
<1> QED BY <1>2, <1>6, <1>7 DEF Chain!ChainInit, Chain!NoAnswer, NoAnswer

LEMMA StutterChain ==
  ASSUME UNCHANGED vars
  PROVE  /\ Values(Forward(List))' = Values(Forward(List))
         /\ Range(Values(Forward(Table)))' = Range(Values(Forward(Table)))
         /\ walk' = walk /\ ToDo' = ToDo /\ answer' = answer
<1>1. UNCHANGED <<chain, data>> /\ walk' = walk /\ answer' = answer
  BY DEF vars, mem
<1>2. ToDo' = ToDo
  BY <1>1 DEF ToDo, Values, Along, Path, Forward
<1> QED BY <1>1, <1>2, StillSeen

LEMMA NextChain ==
  ASSUME Inv, Inv', [Next]_vars
  PROVE  [Chain!ChainNext]_<<Values(Forward(List)), Range(Values(Forward(Table))),
                             walk.kind # "none", walk.taken, ToDo, answer>>
<1>1. CASE AddNode
  BY <1>1, AddNodeEdits DEF Chain!ChainNext
<1>2. CASE AddNodeFails
  BY <1>2, AddNodeFailsNothing DEF Chain!ChainNext
<1>3. CASE RemoveNode
  BY <1>3, RemoveNodeEdits DEF Chain!ChainNext
<1>4. CASE AskNext
  BY <1>4, AskNextAsks DEF Chain!ChainNext
<1>5. CASE Walks
  <2>1. CASE StartWalk
    BY <2>1, StartWalkBegins DEF Chain!ChainNext
  <2>2. CASE GetNextData
    BY <2>2, GetNextDataTakes DEF Chain!ChainNext
  <2>3. CASE DrainBody
    BY <2>3, DrainBodyFinishes DEF Chain!ChainNext
  <2>4. CASE EndDrain
    BY <2>4, EndDrainEnds DEF Chain!ChainNext
  <2>5. CASE ScanNext
    BY <2>5, ScanNextTakes DEF Chain!ChainNext
  <2>6. CASE EndScan
    BY <2>6, EndScanEnds DEF Chain!ChainNext
  <2>7. CASE FirstNext
    BY <2>7, FirstNextTakes DEF Chain!ChainNext
  <2>8. CASE FirstBody
    BY <2>8, FirstBodyFinishes DEF Chain!ChainNext
  <2>9. CASE EndFirst
    BY <2>9, EndFirstEnds DEF Chain!ChainNext
  <2> QED BY <1>5, <2>1, <2>2, <2>3, <2>4, <2>5, <2>6, <2>7, <2>8, <2>9 DEF Walks
<1>6. CASE Write
  BY <1>6, WriteEdits DEF Chain!ChainNext
<1>7. CASE Delete
  BY <1>7, DeleteEdits DEF Chain!ChainNext
<1>8. CASE GetNext
  BY <1>8, GetNextAsks DEF Chain!ChainNext
<1>9. CASE UNCHANGED vars
  BY <1>9, StutterChain
<1> QED BY <1>1, <1>2, <1>3, <1>4, <1>5, <1>6, <1>7, <1>8, <1>9 DEF Next

\* For the handlers a list is a sequence and a table a sorted set of keys: the
\* pointers, the versions and the reuse of freed cells are invisible, and a
\* walk whose body removes what it was given takes every element once and in
\* order (ISNS_MEM_List_NextData, ISNS_MEM_List_GetNext, ISNS_MEMDATA_GetNext).
THEOREM ListsAreSequences == Spec => Abstract
<1>1. Inv /\ Inv' /\ [Next]_vars =>
        [Chain!ChainNext]_<<Values(Forward(List)), Range(Values(Forward(Table))),
                            walk.kind # "none", walk.taken, ToDo, answer>>
  BY NextChain
<1> QED BY <1>1, InitChain, InvAlways, PTL DEF Spec, Abstract, Chain!ChainSpec
=============================================================================
