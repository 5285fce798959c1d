------------------------- MODULE IsnsStreamProofs --------------------------
(***************************************************************************)
(* Theorems about the thread that reads a connection: for messages of any  *)
(* sizes, cut by the network at any places, and a buffer of any size.      *)
(***************************************************************************)
EXTENDS IsnsStream, SequenceTheorems, FiniteSetTheorems, WellFoundedInduction, TLAPS

(***************************************************************************)
(* Induction.  A set of numbers has a least element: the intervals from 0  *)
(* to its members are subsets of a finite set, and the order of those is   *)
(* well founded.                                                           *)
(***************************************************************************)

LEMMA Least ==
  ASSUME NEW T, T \subseteq Nat, T # {}
  PROVE  \E x \in T : \A y \in T : x <= y
<1>1. PICK m \in T : TRUE
  OBVIOUS
<1> DEFINE S == 0 .. m
           U == {0 .. x : x \in {y \in T : y <= m}}
<1>2. IsFiniteSet(S)
  BY <1>1, FS_Interval
<1>3. IsWellFoundedOn(StrictSubsetOrdering(S), FiniteSubsetsOf(S))
  BY <1>2, FS_StrictSubsetOrderingWellFounded
<1>4. U \subseteq FiniteSubsetsOf(S) /\ U # {}
  <2>1. ASSUME NEW x \in T, x <= m
        PROVE  0 .. x \in FiniteSubsetsOf(S)
    BY <1>1, <2>1, FS_Interval DEF FiniteSubsetsOf
  <2> QED BY <1>1, <2>1
<1> HIDE DEF U
<1>5. \E u \in U : \A v \in U : ~(<<v, u>> \in StrictSubsetOrdering(S))
  BY <1>3, <1>4, WFMin
<1>6. PICK x \in T : x <= m /\ \A v \in U : ~(<<v, 0 .. x>> \in StrictSubsetOrdering(S))
  BY <1>5 DEF U
<1>7. ASSUME NEW y \in T, y < x
      PROVE  FALSE
  <2>1. x \in Nat /\ y \in Nat /\ m \in Nat /\ x <= m /\ y < x
    BY <1>1, <1>6, <1>7
  <2>2. 0 .. y \in U
    BY <2>1 DEF U
  <2>3. 0 .. y \subseteq 0 .. x /\ 0 .. x \subseteq S /\ x \in 0 .. x /\ x \notin 0 .. y
    BY <2>1
  <2>4. <<0 .. y, 0 .. x>> \in StrictSubsetOrdering(S)
    BY <2>3 DEF StrictSubsetOrdering
  <2> QED BY <1>6, <2>2, <2>4
<1>8. \A y \in T : x <= y
  BY <1>6, <1>7
<1> QED BY <1>6, <1>8

(***************************************************************************)
(* The ends of the messages in the stream.                                 *)
(***************************************************************************)

\* f gives the ends of the first n messages.
Sums(f, s, n) ==
  f = [i \in 0 .. n |-> IF i = 0 THEN 0 ELSE f[i - 1] + s[i]]

LEMMA SumsExist ==
  ASSUME NEW s \in Seq(Nat), NEW n \in 0 .. Len(s)
  PROVE  \E f : Sums(f, s, n)
<1> DEFINE T == {i \in 0 .. Len(s) : ~ \E f : Sums(f, s, i)}
<1>1. SUFFICES ASSUME T # {} PROVE FALSE
  OBVIOUS
<1>2. PICK m \in T : \A i \in T : m <= i
  <2>1. T \subseteq Nat
    OBVIOUS
  <2> HIDE DEF T
  <2> QED BY <1>1, <2>1, Least
<1>3. m \in Nat /\ m <= Len(s) /\ ~ \E f : Sums(f, s, m)
  OBVIOUS
<1>4. CASE m = 0
  <2>1. Sums([i \in 0 .. 0 |-> 0], s, 0)
    BY DEF Sums
  <2> QED BY <1>3, <1>4, <2>1
<1>5. CASE m > 0
  <2>1. m - 1 \in 0 .. Len(s) /\ m - 1 \notin T
    BY <1>2, <1>3, <1>5
  <2>2. PICK f : Sums(f, s, m - 1)
    BY <2>1
  <2> DEFINE g == [i \in 0 .. m |-> IF i = m THEN f[m - 1] + s[m] ELSE f[i]]
             h == [i \in 0 .. m |-> IF i = 0 THEN 0 ELSE g[i - 1] + s[i]]
  <2>3. ASSUME NEW i \in 0 .. m PROVE g[i] = h[i]
    <3>1. CASE i = m
      BY <1>3, <1>5, <3>1
    <3>2. CASE i # m /\ i # 0
      <4>1. i \in 0 .. m - 1 /\ i - 1 \in 0 .. m /\ i - 1 # m
        BY <1>3, <3>2
      <4>2. f[i] = f[i - 1] + s[i]
        BY <2>2, <3>2, <4>1 DEF Sums
      <4> QED BY <3>2, <4>1, <4>2
    <3>3. CASE i # m /\ i = 0
      <4>1. f[0] = 0
        BY <1>3, <1>5, <2>2 DEF Sums
      <4> QED BY <3>3, <4>1
    <3> QED BY <3>1, <3>2, <3>3
  <2>4. g = h
    BY <2>3
  <2>5. Sums(g, s, m)
    BY <2>4 DEF Sums
  <2> QED BY <1>3, <2>5
<1> QED BY <1>3, <1>4, <1>5

LEMMA EndsRecursive ==
  ASSUME NEW s \in Seq(Nat)
  PROVE  /\ Ends(s) = [i \in 0 .. Len(s) |-> Ends(s)[i]]
         /\ DOMAIN Ends(s) = 0 .. Len(s) /\ Ends(s)[0] = 0
         /\ \A i \in 1 .. Len(s) : Ends(s)[i] = Ends(s)[i - 1] + s[i]
<1> DEFINE f == Ends(s)
<1>1. Len(s) \in Nat
  OBVIOUS
<1>2. \E g : Sums(g, s, Len(s))
  BY <1>1, SumsExist
<1>3. f = [i \in 0 .. Len(s) |-> IF i = 0 THEN 0 ELSE f[i - 1] + s[i]]
  BY <1>2 DEF Ends, Sums
<1> HIDE DEF f
<1>4. DOMAIN f = 0 .. Len(s) /\ f[0] = 0
  BY <1>1, <1>3
<1>5. ASSUME NEW i \in 1 .. Len(s) PROVE f[i] = f[i - 1] + s[i]
  BY SMTT(30), <1>1, <1>3
<1>6. f = [i \in 0 .. Len(s) |-> f[i]]
  BY <1>3
<1> QED BY <1>4, <1>5, <1>6 DEF f

\* What holds of 0 and passes from each number to the next holds up to n.
LEMMA UpTo ==
  ASSUME NEW n \in Nat, NEW T, 0 \in T,
         \A i \in 0 .. n - 1 : i \in T => i + 1 \in T
  PROVE  0 .. n \subseteq T
<1> DEFINE F == {i \in 0 .. n : i \notin T}
<1>1. SUFFICES ASSUME F # {} PROVE FALSE
  OBVIOUS
<1>2. F \subseteq Nat
  OBVIOUS
<1>3. PICK m \in F : \A i \in F : m <= i
  <2> HIDE DEF F
  <2> QED BY <1>1, <1>2, Least
<1>4. m \in 0 .. n /\ m \notin T /\ m # 0
  OBVIOUS
<1>5. m - 1 \in 0 .. n - 1 /\ m - 1 \notin F
  BY <1>3, <1>4
<1>6. m - 1 \in T
  BY <1>5
<1> QED BY <1>4, <1>5, <1>6

LEMMA EndsType ==
  ASSUME NEW s \in Seq(Nat)
  PROVE  Ends(s) \in [0 .. Len(s) -> Nat]
<1> DEFINE f == Ends(s)
           T == {i \in 0 .. Len(s) : f[i] \in Nat}
<1>1. Len(s) \in Nat /\ \A i \in 1 .. Len(s) : s[i] \in Nat
  OBVIOUS
<1>2. /\ DOMAIN f = 0 .. Len(s) /\ f[0] = 0
      /\ \A i \in 1 .. Len(s) : f[i] = f[i - 1] + s[i]
  BY EndsRecursive
<1>3. f = [i \in 0 .. Len(s) |-> f[i]]
  BY EndsRecursive
<1> HIDE DEF f
<1>4. 0 \in T
  BY <1>1, <1>2
<1>5. ASSUME NEW i \in 0 .. Len(s) - 1, i \in T PROVE i + 1 \in T
  <2>1. i + 1 \in 1 .. Len(s) /\ (i + 1) - 1 = i
    BY <1>1
  <2>2. f[i + 1] = f[i] + s[i + 1] /\ s[i + 1] \in Nat
    BY <1>1, <1>2, <2>1
  <2> QED BY <1>5, <2>1, <2>2
<1>6. 0 .. Len(s) \subseteq T
  <2> HIDE DEF T
  <2> QED BY <1>1, <1>4, <1>5, UpTo
<1> QED BY <1>3, <1>6 DEF f

LEMMA EndsMonotone ==
  ASSUME NEW s \in Seq(Nat), NEW i \in 0 .. Len(s), NEW j \in 0 .. Len(s), i <= j
  PROVE  Ends(s)[i] <= Ends(s)[j]
<1> DEFINE f == Ends(s)
           T == {k \in 0 .. Len(s) - i : f[i] <= f[i + k]}
<1>1. Len(s) \in Nat /\ \A k \in 1 .. Len(s) : s[k] \in Nat
  OBVIOUS
<1>2. f \in [0 .. Len(s) -> Nat] /\ \A k \in 1 .. Len(s) : f[k] = f[k - 1] + s[k]
  BY EndsType, EndsRecursive
<1> HIDE DEF f
<1>3. 0 \in T
  <2>1. i + 0 = i /\ f[i] \in Nat /\ 0 \in 0 .. Len(s) - i
    BY <1>1, <1>2
  <2> QED BY <2>1
<1>4. ASSUME NEW k \in 0 .. (Len(s) - i) - 1, k \in T PROVE k + 1 \in T
  <2>1. i + k \in 0 .. Len(s) /\ i + (k + 1) \in 1 .. Len(s) /\ (i + (k + 1)) - 1 = i + k
    BY <1>1
  <2>2. f[i + (k + 1)] = f[i + k] + s[i + (k + 1)] /\ s[i + (k + 1)] \in Nat
    BY <1>1, <1>2, <2>1
  <2>3. f[i] \in Nat /\ f[i + k] \in Nat /\ f[i] <= f[i + k]
    BY <1>2, <1>4, <2>1
  <2>4. f[i] <= f[i + (k + 1)]
    BY <2>2, <2>3
  <2> QED BY <1>1, <2>4
<1>5. 0 .. Len(s) - i \subseteq T
  <2> DEFINE n == Len(s) - i
  <2>1. n \in Nat
    BY <1>1
  <2> HIDE DEF T, n
  <2>2. \A k \in 0 .. n - 1 : k \in T => k + 1 \in T
    BY <1>4 DEF n
  <2> QED BY <1>3, <2>1, <2>2, UpTo DEF n
<1>6. j - i \in 0 .. Len(s) - i /\ i + (j - i) = j
  BY <1>1
<1>7. j - i \in T
  BY <1>5, <1>6
<1> QED BY <1>6, <1>7 DEF f

\* A message later on ends later, by what it and the ones between are long.
LEMMA EndsStep ==
  ASSUME NEW s \in Seq(Nat), NEW i \in 0 .. Len(s), NEW j \in 0 .. Len(s), i < j
  PROVE  Ends(s)[i] + s[i + 1] <= Ends(s)[j]
<1>1. i + 1 \in 1 .. Len(s) /\ i + 1 \in 0 .. Len(s) /\ (i + 1) - 1 = i /\ i + 1 <= j
  OBVIOUS
<1>2. Ends(s)[i + 1] = Ends(s)[i] + s[i + 1]
  BY <1>1, EndsRecursive
<1> QED BY <1>1, <1>2, EndsMonotone

\* What is sent later does not move what was sent before.
LEMMA EndsAppend ==
  ASSUME NEW s \in Seq(Nat), NEW x \in Nat
  PROVE  /\ \A i \in 0 .. Len(s) : Ends(Append(s, x))[i] = Ends(s)[i]
         /\ Ends(Append(s, x))[Len(s) + 1] = Ends(s)[Len(s)] + x
<1> DEFINE t == Append(s, x)
           f == Ends(s)
           g == Ends(t)
           T == {i \in 0 .. Len(s) : g[i] = f[i]}
<1>1. /\ t \in Seq(Nat) /\ Len(t) = Len(s) + 1 /\ Len(s) \in Nat
      /\ \A i \in 1 .. Len(s) : t[i] = s[i]
      /\ t[Len(s) + 1] = x
  OBVIOUS
<1> HIDE DEF t
<1>2. /\ f[0] = 0 /\ \A i \in 1 .. Len(s) : f[i] = f[i - 1] + s[i]
      /\ g[0] = 0 /\ \A i \in 1 .. Len(s) + 1 : g[i] = g[i - 1] + t[i]
  BY <1>1, EndsRecursive
<1> HIDE DEF f, g
<1>3. 0 \in T
  BY <1>1, <1>2
<1>4. ASSUME NEW i \in 0 .. Len(s) - 1, i \in T PROVE i + 1 \in T
  <2>1. i + 1 \in 1 .. Len(s) /\ i + 1 \in 1 .. Len(s) + 1 /\ (i + 1) - 1 = i
    BY <1>1
  <2>2. f[i + 1] = f[i] + s[i + 1] /\ g[i + 1] = g[i] + t[i + 1]
    BY <1>2, <2>1
  <2> QED BY <1>1, <1>4, <2>1, <2>2
<1>5. 0 .. Len(s) \subseteq T
  <2> HIDE DEF T
  <2> QED BY <1>1, <1>3, <1>4, UpTo
<1>6. Len(s) + 1 \in 1 .. Len(s) + 1 /\ (Len(s) + 1) - 1 = Len(s) /\ Len(s) \in T
  BY <1>1, <1>5
<1>7. g[Len(s) + 1] = f[Len(s)] + x
  BY <1>1, <1>2, <1>6
<1> QED BY <1>5, <1>7 DEF f, g, t

(***************************************************************************)
(* The inductive invariant.                                                *)
(***************************************************************************)

Types ==
  /\ sent \in Seq(Sizes) /\ Len(sent) <= MaxSent
  /\ received \in Nat /\ written \in Nat /\ received <= written
  /\ buffer \in [1 .. MaxBuffer -> {Junk} \cup 0 .. written]
  /\ startIndex \in 0 .. MaxBuffer /\ endIndex \in 0 .. MaxBuffer
  /\ startIndex <= endIndex
  /\ pc \in {"poll", "parse", "closed", "astray"}
  /\ closedBy \in {"nobody", "client", "full", "timeout", "error"}
  /\ hungUp \in BOOLEAN /\ pipelined \in BOOLEAN /\ sns_ready \in BOOLEAN

\* The number of messages forwarded.
Done == Len(forwarded)

\* The client has written no more than its messages, and all of them unless it
\* has hung up.
Written ==
  /\ written <= End(Len(sent))
  /\ ~hungUp => written = End(Len(sent))

\* What was forwarded are the first messages, and they have arrived.
Forwarded ==
  /\ forwarded \in Seq(Seq(Int)) /\ Done <= Len(sent)
  /\ \A i \in 1 .. Done : forwarded[i] = Message(i)
  /\ End(Done) <= received

\* What is pending is what was received behind the last message forwarded, and
\* lies in the buffer byte for byte.
Buffered ==
  /\ End(Done) + Pending = received
  /\ \A k \in 1 .. Pending : buffer[startIndex + k] = End(Done) + k - 1

\* The thread polls only when no whole message is pending.
Unfinished ==
  /\ startIndex = 0
  /\ Pending < Header \/ (Done < Len(sent) /\ Pending < sent[Done + 1])

\* A client that waits for each message to be forwarded is one ahead, and
\* leaves nothing behind a message in the buffer.
Serial ==
  /\ Len(sent) <= Done + 1
  /\ pc = "parse" /\ startIndex > 0 => Pending = 0

Closed ==
  /\ closedBy # "nobody" => pc = "closed"
  /\ closedBy = "full" => Done < Len(sent) /\ sent[Done + 1] > MaxBuffer
  /\ closedBy = "client" =>
       hungUp /\ (Done < Len(sent) => End(Done + 1) > written)

Inv ==
  /\ Types /\ Written /\ Forwarded
  /\ pc \in {"poll", "parse"} => Buffered
  /\ pc = "poll" => Unfinished
  /\ ~pipelined => Serial /\ pc # "astray"
  /\ Closed

(***************************************************************************)
(* What the thread reads in its buffer.                                    *)
(***************************************************************************)

LEMMA Numbers ==
  ASSUME Types
  PROVE  /\ sent \in Seq(Nat) /\ Len(sent) \in Nat
         /\ \A i \in 1 .. Len(sent) : sent[i] \in Nat /\ sent[i] >= Header
         /\ Header \in Nat /\ Header > 0 /\ MaxBuffer \in Nat /\ Header <= MaxBuffer
         /\ startIndex \in Nat /\ endIndex \in Nat /\ Pending \in Nat
         /\ endIndex = startIndex + Pending /\ endIndex <= MaxBuffer
         /\ \A i \in 0 .. Len(sent) : End(i) \in Nat
<1>1. sent \in Seq(Sizes) /\ Sizes \subseteq Nat /\ \A n \in Sizes : n >= Header
  BY StreamAssumption DEF Types
<1>2. sent \in Seq(Nat) /\ Len(sent) \in Nat
      /\ \A i \in 1 .. Len(sent) : sent[i] \in Nat /\ sent[i] >= Header
  <2>1. Len(sent) \in Nat /\ \A i \in 1 .. Len(sent) : sent[i] \in Sizes
    BY <1>1, ElementOfSeq
  <2>2. \A i \in 1 .. Len(sent) : sent[i] \in Nat /\ sent[i] >= Header
    BY <1>1, <2>1
  <2>3. sent \in Seq(Nat)
    BY <1>1, <2>2, SeqDef
  <2> QED BY <2>1, <2>2, <2>3
<1>3. /\ Header \in Nat /\ Header > 0 /\ MaxBuffer \in Nat /\ Header <= MaxBuffer
      /\ startIndex \in Nat /\ endIndex \in Nat /\ Pending \in Nat
      /\ endIndex = startIndex + Pending /\ endIndex <= MaxBuffer
  BY StreamAssumption DEF Types, Pending
<1>4. \A i \in 0 .. Len(sent) : End(i) \in Nat
  BY <1>2, EndsType DEF End
<1> QED BY <1>2, <1>3, <1>4

LEMMA Run ==
  ASSUME NEW e \in Nat, NEW n \in Nat
  PROVE  /\ [k \in 1 .. n |-> e + k - 1] \in Seq(Int)
         /\ Len([k \in 1 .. n |-> e + k - 1]) = n
         /\ n > 0 => [k \in 1 .. n |-> e + k - 1][1] = e
OBVIOUS

LEMMA BytesPending ==
  ASSUME Types, Forwarded, Buffered, NEW n \in Nat, n <= Pending
  PROVE  Bytes(n) = [k \in 1 .. n |-> End(Done) + k - 1]
<1>1. /\ startIndex \in Nat /\ endIndex = startIndex + Pending /\ endIndex <= MaxBuffer
      /\ Pending \in Nat /\ MaxBuffer \in Nat
  BY Numbers
<1>2. buffer \in Seq({Junk} \cup 0 .. written) /\ Len(buffer) = MaxBuffer
  BY <1>1 DEF Types
<1>3. Bytes(n) = [k \in 1 .. n |-> buffer[startIndex + k]]
  BY <1>1, <1>2 DEF Bytes
<1>4. \A k \in 1 .. n : buffer[startIndex + k] = End(Done) + k - 1
  BY <1>1 DEF Buffered
<1> QED BY <1>3, <1>4

\* The size that the thread reads is that of the next message.
LEMMA SizeRead ==
  ASSUME Types, Written, Forwarded, Buffered, Pending >= Header
  PROVE  Done < Len(sent) /\ MsgSize = sent[Done + 1]
<1>1. /\ sent \in Seq(Nat) /\ Len(sent) \in Nat
      /\ \A i \in 1 .. Len(sent) : sent[i] \in Nat /\ sent[i] >= Header
      /\ Header \in Nat /\ Header > 0 /\ Pending \in Nat
      /\ \A i \in 0 .. Len(sent) : End(i) \in Nat
  BY Numbers
<1>2. Done \in Nat /\ Done <= Len(sent)
  BY DEF Forwarded, Done
<1>3. Done < Len(sent)
  <2>1. SUFFICES ASSUME Done = Len(sent) PROVE FALSE
    BY <1>1, <1>2
  <2>2. End(Done) + Pending <= End(Done) /\ End(Done) \in Nat
    BY <1>1, <1>2, <2>1 DEF Types, Written, Buffered
  <2> QED BY <1>1, <2>2
<1> DEFINE d == Done + 1
           e == End(Done)
           here == {i \in 1 .. Len(sent) : IsPrefix(Bytes(Header), Message(i))}
<1>4. d \in 1 .. Len(sent) /\ d - 1 = Done /\ e \in Nat /\ sent[d] >= Header
  BY <1>1, <1>2, <1>3
<1>5. Bytes(Header) = [k \in 1 .. Header |-> e + k - 1]
  BY <1>1, BytesPending
<1>6. Message(d) = [k \in 1 .. sent[d] |-> e + k - 1]
  BY <1>4 DEF Message
<1> HIDE DEF d, e
<1>7. IsPrefix(Bytes(Header), Message(d))
  <2> DEFINE b == [k \in 1 .. Header |-> e + k - 1]
             m == [k \in 1 .. sent[d] |-> e + k - 1]
  <2>1. sent[d] \in Nat /\ sent[d] >= Header
    BY <1>1, <1>4
  <2>2. b \in Seq(Int) /\ Len(b) = Header /\ m \in Seq(Int) /\ Len(m) = sent[d]
    BY ZenonT(60), <1>1, <1>4, <2>1, Run
  <2>3. /\ \A k \in 1 .. Header : SubSeq(b, 1, Header)[k] = e + k - 1
        /\ \A k \in 1 .. Header : SubSeq(m, 1, Header)[k] = e + k - 1
        /\ SubSeq(b, 1, Header) = [k \in 1 .. Header |-> SubSeq(b, 1, Header)[k]]
        /\ SubSeq(m, 1, Header) = [k \in 1 .. Header |-> SubSeq(m, 1, Header)[k]]
    BY <1>1, <1>4, <2>1, <2>2
  <2>4. SubSeq(b, 1, Header) = SubSeq(m, 1, Header)
    BY <2>3
  <2>5. IsPrefix(b, m)
    BY <2>1, <2>2, <2>4 DEF IsPrefix
  <2> QED BY <1>5, <1>6, <2>5
<1>8. ASSUME NEW i \in here PROVE i = d
  <2> DEFINE b == Bytes(Header)
             m == Message(i)
  <2>1. i \in 1 .. Len(sent) /\ IsPrefix(b, m) /\ i - 1 \in 0 .. Len(sent) - 1
        /\ (i - 1) + 1 = i
    BY <1>1
  <2>2. sent[i] \in Nat /\ sent[i] >= Header /\ End(i - 1) \in Nat
    BY <1>1, <2>1
  <2>3. /\ m \in Seq(Int) /\ Len(m) = sent[i] /\ m[1] = End(i - 1)
    <3>1. m = [k \in 1 .. sent[i] |-> End(i - 1) + k - 1] /\ sent[i] > 0
      BY <1>1, <2>2 DEF Message
    <3> HIDE DEF m
    <3> QED BY <2>2, <3>1, Run
  <2>4. /\ b \in Seq(Int) /\ Len(b) = Header /\ b[1] = e
    BY <1>1, <1>4, <1>5
  <2> HIDE DEF b, m
  <2>5. SubSeq(b, 1, Header) = SubSeq(m, 1, Header)
    BY <2>1, <2>4 DEF IsPrefix
  <2>6. SubSeq(b, 1, Header)[1] = b[1] /\ SubSeq(m, 1, Header)[1] = m[1]
    BY <1>1, <2>2, <2>3, <2>4
  <2>7. End(i - 1) = e
    BY <2>3, <2>4, <2>5, <2>6
  <2>8. ~(i - 1 < Done)
    <3>1. SUFFICES ASSUME i - 1 < Done PROVE FALSE
      OBVIOUS
    <3>2. End(i - 1) + sent[(i - 1) + 1] <= End(Done)
      <4> DEFINE j == i - 1
      <4>1. j \in 0 .. Len(sent) /\ Done \in 0 .. Len(sent) /\ j < Done
        BY <1>1, <1>2, <2>1, <3>1
      <4> HIDE DEF j
      <4>2. Ends(sent)[j] + sent[j + 1] <= Ends(sent)[Done]
        BY <1>1, <4>1, EndsStep
      <4> QED BY <4>2 DEF j, End
    <3> QED BY SMTT(30), <1>1, <1>4, <2>1, <2>2, <2>7, <3>2 DEF e
  <2>9. ~(Done < i - 1)
    <3>1. SUFFICES ASSUME Done < i - 1 PROVE FALSE
      OBVIOUS
    <3>2. End(Done) + sent[Done + 1] <= End(i - 1)
      BY <1>1, <1>2, <2>1, <3>1, EndsStep DEF End
    <3> QED BY SMTT(30), <1>1, <1>4, <2>1, <2>2, <2>7, <3>2 DEF e, d
  <2> QED BY <1>2, <1>4, <2>1, <2>8, <2>9
<1>9. here = {d}
  BY <1>4, <1>7, <1>8
<1>10. MsgSize = sent[d]
  <2>1. MsgSize = IF here = {} THEN Header ELSE sent[CHOOSE i \in here : TRUE]
    BY DEF MsgSize
  <2> QED BY <1>9, <2>1
<1> QED BY <1>3, <1>10 DEF d

LEMMA MinOfTwo ==
  ASSUME NEW a \in Int, NEW b \in Int
  PROVE  Min({a, b}) \in Int /\ Min({a, b}) <= a /\ Min({a, b}) <= b
<1>1. \E x \in {a, b} : \A y \in {a, b} : x <= y
  BY SMT
<1> QED BY <1>1 DEF Min

(***************************************************************************)
(* The steps of the client.                                                *)
(***************************************************************************)

LEMMA InitInv == Init => Inv
<1> SUFFICES ASSUME Init PROVE Inv
  OBVIOUS
<1>1. Types
  <2>1. sent \in Seq(Sizes) /\ Len(sent) = 0
    BY DEF Init
  <2>2. buffer \in [1 .. MaxBuffer -> {Junk} \cup 0 .. written]
    BY DEF Init
  <2>3. 0 \in 0 .. MaxBuffer /\ 0 <= MaxSent
    BY StreamAssumption
  <2>4. Len(sent) <= MaxSent
    BY <2>1, <2>3
  <2>5. /\ received \in Nat /\ written \in Nat /\ received <= written
        /\ startIndex \in 0 .. MaxBuffer /\ endIndex \in 0 .. MaxBuffer
        /\ startIndex <= endIndex
    BY <2>3 DEF Init
  <2>6. /\ pc \in {"poll", "parse", "closed", "astray"}
        /\ closedBy \in {"nobody", "client", "full", "timeout", "error"}
        /\ hungUp \in BOOLEAN /\ pipelined \in BOOLEAN /\ sns_ready \in BOOLEAN
    BY DEF Init
  <2> QED BY <2>1, <2>2, <2>4, <2>5, <2>6 DEF Types
<1>2. End(0) = 0 /\ Len(sent) = 0 /\ Done = 0
  <2>1. sent \in Seq(Nat) /\ sent = <<>> /\ forwarded = <<>>
    BY DEF Init
  <2>2. Ends(sent)[0] = 0
    BY <2>1, EndsRecursive
  <2> QED BY <2>1, <2>2 DEF End, Done
<1>3. Written
  BY <1>2 DEF Init, Written
<1>4. Forwarded
  <2>1. forwarded \in Seq(Seq(Int))
    BY DEF Init
  <2> QED BY <1>2, <2>1 DEF Init, Forwarded
<1>5. Buffered
  BY <1>2 DEF Init, Buffered, Pending
<1>6. Unfinished
  BY StreamAssumption DEF Init, Unfinished, Pending
<1>7. Serial /\ Closed /\ pc # "astray"
  BY <1>2 DEF Init, Serial, Closed
<1> QED BY <1>1, <1>3, <1>4, <1>5, <1>6, <1>7 DEF Inv

\* What the client sends does not move the messages before.
LEMMA SendInv ==
  ASSUME Inv, Send
  PROVE  Inv'
<1>1. PICK s \in Sizes :
        /\ ~hungUp /\ Len(sent) < MaxSent
        /\ sent' = Append(sent, s)
        /\ \/ written' = written + s /\ hungUp' = FALSE
           \/ \E k \in 1 .. s - 1 : written' = written + k /\ hungUp' = TRUE
        /\ pipelined' = (pipelined \/ Len(forwarded) < Len(sent))
        /\ UNCHANGED <<received, buffer, startIndex, endIndex, pc, closedBy,
                       forwarded, sns_ready>>
  BY DEF Send, thread
<1>2. Types /\ Written /\ Forwarded /\ Closed
  BY DEF Inv
<1>3. /\ sent \in Seq(Nat) /\ Len(sent) \in Nat /\ s \in Nat /\ s > 0
      /\ \A i \in 0 .. Len(sent) : End(i) \in Nat
      /\ \A i \in 1 .. Len(sent) : sent[i] \in Nat
      /\ Done \in Nat /\ Done <= Len(sent)
  BY <1>2, Numbers, StreamAssumption DEF Forwarded, Done
<1>4. /\ sent' \in Seq(Sizes) /\ Len(sent') = Len(sent) + 1
      /\ \A i \in 1 .. Len(sent) : sent'[i] = sent[i]
  BY <1>1, <1>2 DEF Types
<1>5. /\ \A i \in 0 .. Len(sent) : End(i)' = End(i)
      /\ Ends(sent')[Len(sent) + 1] = End(Len(sent)) + s
  BY <1>1, <1>3, EndsAppend DEF End
<1>6. /\ written' \in Nat /\ written' > written /\ hungUp' \in BOOLEAN
      /\ written' <= written + s /\ (~hungUp' => written' = written + s)
      /\ written \in Nat /\ written = End(Len(sent))
  <2>1. written \in Nat /\ written = End(Len(sent))
    BY <1>1, <1>2 DEF Types, Written
  <2>2. CASE written' = written + s /\ hungUp' = FALSE
    <3>1. written + s \in Nat /\ written + s > written /\ written + s <= written + s
      BY <1>3, <2>1
    <3>2. written' \in Nat /\ written' > written /\ written' <= written + s
      BY <2>2, <3>1
    <3>3. hungUp' \in BOOLEAN /\ (~hungUp' => written' = written + s)
      BY <2>2
    <3> QED BY <2>1, <3>2, <3>3
  <2>3. CASE \E k \in 1 .. s - 1 : written' = written + k /\ hungUp' = TRUE
    BY <1>3, <2>1, <2>3
  <2> QED BY <1>1, <2>1, <2>2, <2>3
<1>7. Types'
  <2>1. Len(sent') <= MaxSent
    BY <1>1, <1>3, <1>4, StreamAssumption
  <2>2. received' \in Nat /\ received' <= written'
    BY <1>1, <1>2, <1>6 DEF Types
  <2>3. buffer' \in [1 .. MaxBuffer -> {Junk} \cup 0 .. written']
    <3>1. {Junk} \cup 0 .. written \subseteq {Junk} \cup 0 .. written'
      BY <1>6
    <3> QED BY <1>1, <1>2, <3>1 DEF Types
  <2>4. pipelined' \in BOOLEAN
    BY <1>1, <1>2, <1>3 DEF Types
  <2> QED BY <1>1, <1>2, <1>4, <1>6, <2>1, <2>2, <2>3, <2>4 DEF Types
<1>8. Written'
  <2>1. Ends(sent')[Len(sent')] = written + s
    BY <1>4, <1>5, <1>6
  <2> QED BY <1>6, <2>1 DEF Written, End
<1>9. Done' = Done /\ End(Done)' = End(Done) /\ Pending' = Pending
  BY <1>1, <1>3, <1>5 DEF Done, Pending
<1>10. \A i \in 1 .. Done : Message(i)' = Message(i)
  <2> SUFFICES ASSUME NEW i \in 1 .. Done PROVE Message(i)' = Message(i)
    OBVIOUS
  <2>1. i \in 1 .. Len(sent) /\ i - 1 \in 0 .. Len(sent)
    BY <1>3
  <2>2. sent'[i] = sent[i] /\ End(i - 1)' = End(i - 1)
    BY <1>4, <1>5, <2>1
  <2> QED BY <2>2 DEF Message
<1>11. Forwarded'
  <2>1. forwarded' = forwarded /\ forwarded \in Seq(Seq(Int))
    BY <1>1, <1>2 DEF Forwarded
  <2>2. Done \in Nat /\ Len(sent) \in Nat /\ Done <= Len(sent)
    BY <1>2, <1>3 DEF Forwarded
  <2>3. Len(sent') = Len(sent) + 1
    BY <1>4
  <2>4. Done' <= Len(sent')
    BY <1>9, <2>2, <2>3
  <2>5. \A i \in 1 .. Done' : forwarded'[i] = Message(i)'
    BY <1>2, <1>9, <1>10, <2>1 DEF Forwarded
  <2>6. End(Done)' <= received'
    BY <1>1, <1>2, <1>9 DEF Forwarded
  <2> QED BY <2>1, <2>4, <2>5, <2>6 DEF Forwarded
<1>12. pc' \in {"poll", "parse"} => Buffered'
  BY <1>1, <1>9 DEF Inv, Buffered
<1>13. Done < Len(sent) => Done < Len(sent') /\ sent'[Done + 1] = sent[Done + 1]
  <2>1. Done < Len(sent) => Done + 1 \in 1 .. Len(sent)
    BY <1>3
  <2> QED BY <1>3, <1>4, <2>1
<1>14. pc' = "poll" => Unfinished'
  BY <1>1, <1>9, <1>13 DEF Inv, Unfinished
<1>15. ~pipelined' => Serial' /\ pc' # "astray"
  <2> SUFFICES ASSUME ~pipelined' PROVE Serial' /\ pc' # "astray"
    OBVIOUS
  <2>3. ~pipelined /\ ~(Len(forwarded) < Len(sent))
    BY <1>1
  <2>1. ~pipelined /\ Done = Len(sent)
    BY <1>3, <2>3 DEF Done
  <2>2. Serial /\ pc # "astray"
    BY <2>1 DEF Inv
  <2> QED BY <1>1, <1>3, <1>4, <1>9, <2>1, <2>2 DEF Serial
<1>16. Closed'
  BY <1>1, <1>2, <1>9, <1>13 DEF Closed
<1> QED BY <1>7, <1>8, <1>11, <1>12, <1>14, <1>15, <1>16 DEF Inv

LEMMA HangUpInv ==
  ASSUME Inv, HangUp \/ SetReady
  PROVE  Inv'
<1>1. /\ UNCHANGED <<sent, written, pipelined, received, buffer, startIndex,
                     endIndex, pc, closedBy, forwarded>>
      /\ hungUp' \in BOOLEAN /\ sns_ready' \in BOOLEAN
      /\ ~hungUp' => ~hungUp
  BY DEF HangUp, SetReady, thread, client, Inv, Types
<1>2. Types'
  BY <1>1 DEF Inv, Types
<1>3. Written' /\ Closed'
  <2>1. \A i : Ends(sent')[i] = Ends(sent)[i]
    BY <1>1
  <2> QED BY <1>1, <2>1 DEF Inv, Written, Closed, End, Done
<1>4. Forwarded' /\ Buffered' = Buffered /\ Unfinished' = Unfinished /\ Serial' = Serial
  BY <1>1 DEF Inv, Forwarded, Buffered, Unfinished, Serial, End, Done, Pending, Message
<1> QED BY <1>1, <1>2, <1>3, <1>4 DEF Inv

(***************************************************************************)
(* The steps of the thread.                                                *)
(***************************************************************************)

\* A connection that is closed for want of room holds a message that does not
\* fit; one that the client has closed holds no whole message.
LEMMA CloseInv ==
  ASSUME Inv, RecvNothing \/ Timeout \/ Fail
  PROVE  Inv'
<1>1. /\ pc = "poll" /\ pc' = "closed"
      /\ UNCHANGED <<sent, written, hungUp, pipelined, sns_ready>>
      /\ UNCHANGED <<received, buffer, startIndex, endIndex, forwarded>>
      /\ closedBy' \in {"client", "full", "timeout", "error"}
      /\ closedBy' = "full" => endIndex = MaxBuffer
      /\ closedBy' = "client" => written = received /\ hungUp
  <2>1. CASE RecvNothing
    <3>1. closedBy' = "client" => ~(written > received)
      BY <2>1 DEF RecvNothing, Close, Inv, Types
    <3> QED BY <2>1, <3>1 DEF RecvNothing, Close, client, Readable
  <2>2. CASE Timeout \/ Fail
    BY <2>2 DEF Timeout, Fail, Close, client
  <2> QED BY <2>1, <2>2
<1>2. Types /\ Written /\ Forwarded /\ Buffered /\ Unfinished
  BY <1>1 DEF Inv
<1>3. /\ sent \in Seq(Nat) /\ Len(sent) \in Nat
      /\ \A i \in 1 .. Len(sent) : sent[i] \in Nat /\ sent[i] >= Header
      /\ Header \in Nat /\ MaxBuffer \in Nat /\ Header <= MaxBuffer
      /\ Pending \in Nat /\ endIndex = startIndex + Pending /\ startIndex = 0
      /\ \A i \in 0 .. Len(sent) : End(i) \in Nat
      /\ Done \in Nat
  BY <1>2, Numbers DEF Forwarded, Done, Unfinished
<1>4. /\ UNCHANGED <<Done, Pending>> /\ \A i : End(i)' = End(i)
      /\ \A i : Message(i)' = Message(i)
  BY <1>1 DEF Done, Pending, End, Message
<1>5. Types' /\ Written' /\ Forwarded'
  <2>1. Types'
    BY <1>1, <1>2 DEF Types
  <2>2. Written'
    BY <1>1, <1>2 DEF Written, End
  <2>3. Forwarded'
    BY <1>1, <1>2, <1>4 DEF Forwarded
  <2> QED BY <2>1, <2>2, <2>3
<1>6. closedBy' = "full" => Done < Len(sent) /\ sent[Done + 1] > MaxBuffer
  <2> SUFFICES ASSUME closedBy' = "full"
               PROVE  Done < Len(sent) /\ sent[Done + 1] > MaxBuffer
    OBVIOUS
  <2>1. Pending = MaxBuffer
    BY <1>1, <1>3
  <2>2. Done < Len(sent) /\ Pending < sent[Done + 1]
    BY <1>2, <1>3, <2>1 DEF Unfinished
  <2>3. Done + 1 \in 1 .. Len(sent)
    BY <1>3, <2>2
  <2> QED BY <1>3, <2>1, <2>2, <2>3
<1>7. closedBy' = "client" => hungUp /\ (Done < Len(sent) => End(Done + 1) > written)
  <2> SUFFICES ASSUME closedBy' = "client", Done < Len(sent)
               PROVE  End(Done + 1) > written
    BY <1>1
  <2>1. Done + 1 \in 1 .. Len(sent) /\ (Done + 1) - 1 = Done /\ Done \in 0 .. Len(sent)
        /\ Done + 1 \in 0 .. Len(sent)
    BY <1>3
  <2>2. End(Done + 1) = End(Done) + sent[Done + 1]
    BY <1>3, <2>1, EndsRecursive DEF End
  <2>3. End(Done) + Pending = written
    BY <1>1, <1>2 DEF Buffered
  <2>4. Pending < sent[Done + 1] /\ sent[Done + 1] \in Nat
    BY <1>2, <1>3, <2>1 DEF Unfinished
  <2>5. End(Done) \in Nat
    BY <1>3, <2>1
  <2> QED BY <1>3, <2>2, <2>3, <2>4, <2>5
<1>8. Closed'
  BY <1>1, <1>4, <1>6, <1>7 DEF Closed
<1>9. ~pipelined' => Serial'
  BY <1>1, <1>4 DEF Inv, Serial
<1> QED BY <1>1, <1>5, <1>8, <1>9 DEF Inv

LEMMA RecvInv ==
  ASSUME Inv, Recv
  PROVE  Inv'
<1>1. PICK n \in 1 .. Min({MaxBuffer - endIndex, written - received}) :
        /\ pc = "poll" /\ pc' = "parse"
        /\ buffer' = [i \in 1 .. MaxBuffer |->
                        IF i \in endIndex + 1 .. endIndex + n
                        THEN received + i - endIndex - 1 ELSE buffer[i]]
        /\ endIndex' = endIndex + n /\ received' = received + n
        /\ UNCHANGED <<sent, written, hungUp, pipelined, startIndex, closedBy,
                       forwarded, sns_ready>>
  BY DEF Recv, client
<1>2. Types /\ Written /\ Forwarded /\ Buffered /\ Unfinished /\ Closed
  BY <1>1 DEF Inv
<1>3. /\ Pending \in Nat /\ endIndex = Pending /\ startIndex = 0 /\ MaxBuffer \in Nat
      /\ Pending <= MaxBuffer /\ received \in Nat /\ written \in Nat
      /\ received <= written
      /\ Done \in Nat /\ Done <= Len(sent) /\ Len(sent) \in Nat /\ End(Done) \in Nat
      /\ End(Done) + Pending = received
  <2>1. Done \in Nat /\ Done <= Len(sent) /\ Len(sent) \in Nat
    BY <1>2, Numbers DEF Forwarded, Done
  <2> QED BY <1>2, <2>1, Numbers DEF Types, Unfinished, Buffered
<1>4. /\ n \in Nat /\ n > 0 /\ n <= MaxBuffer - endIndex /\ n <= written - received
  <2> DEFINE a == MaxBuffer - endIndex
             b == written - received
  <2>1. a \in Int /\ b \in Int
    BY <1>3
  <2> HIDE DEF a, b
  <2>2. Min({a, b}) \in Int /\ Min({a, b}) <= a /\ Min({a, b}) <= b
    BY <2>1, MinOfTwo
  <2>3. n \in 1 .. Min({a, b})
    BY DEF a, b
  <2>4. n \in Nat /\ n > 0 /\ n <= a /\ n <= b
    BY <2>1, <2>2, <2>3
  <2> QED BY <2>4 DEF a, b
<1>5. Pending' = Pending + n /\ startIndex' = 0 /\ endIndex' = Pending + n
  BY <1>1, <1>3, <1>4 DEF Pending
<1>6. \A i \in 1 .. MaxBuffer :
        buffer'[i] = IF i > Pending /\ i <= Pending + n
                     THEN End(Done) + i - 1 ELSE buffer[i]
  <2> DEFINE e == End(Done)
             d == Pending
  <2>1. /\ d \in Nat /\ endIndex = d /\ e \in Nat /\ received = e + d
        /\ MaxBuffer \in Nat
    BY <1>3
  <2> HIDE DEF e, d
  <2> SUFFICES ASSUME NEW i \in 1 .. MaxBuffer
               PROVE  buffer'[i] = IF i > d /\ i <= d + n
                                   THEN e + i - 1 ELSE buffer[i]
    BY DEF e, d
  <2>2. i \in endIndex + 1 .. endIndex + n <=> i > d /\ i <= d + n
    BY <1>4, <2>1
  <2>3. received + i - endIndex - 1 = e + i - 1
    BY <2>1
  <2>4. buffer'[i] = IF i \in endIndex + 1 .. endIndex + n
                     THEN received + i - endIndex - 1 ELSE buffer[i]
    BY <1>1
  <2> QED BY <2>2, <2>3, <2>4
<1>7. Types'
  <2>1. received' \in Nat /\ received' <= written'
    BY <1>1, <1>3, <1>4
  <2>2. buffer' \in [1 .. MaxBuffer -> {Junk} \cup 0 .. written']
    <3> SUFFICES ASSUME NEW i \in 1 .. MaxBuffer
                 PROVE  buffer'[i] \in {Junk} \cup 0 .. written
      BY <1>1
    <3>1. CASE i > Pending /\ i <= Pending + n
      BY <1>3, <1>4, <1>6, <3>1
    <3>2. CASE ~(i > Pending /\ i <= Pending + n)
      BY <1>2, <1>6, <3>2 DEF Types
    <3> QED BY <3>1, <3>2
  <2>3. endIndex' \in 0 .. MaxBuffer /\ startIndex' \in 0 .. MaxBuffer
        /\ startIndex' <= endIndex'
    BY <1>3, <1>4, <1>5
  <2> QED BY <1>1, <1>2, <2>1, <2>2, <2>3 DEF Types
<1>8. Done' = Done /\ (\A i : End(i)' = End(i)) /\ \A i : Message(i)' = Message(i)
  BY <1>1 DEF Done, End, Message
<1>9. Written'
  BY <1>1, <1>2, <1>8 DEF Written
<1>10. Forwarded'
  <2>1. End(Done') <= received'
    BY <1>1, <1>3, <1>4, <1>8
  <2> QED BY <1>1, <1>2, <1>8, <2>1 DEF Forwarded
<1>11. Buffered'
  <2>1. End(Done) + (Pending + n) = received + n
    BY <1>3, <1>4
  <2>2. ASSUME NEW k \in 1 .. Pending + n
        PROVE  buffer'[0 + k] = End(Done) + k - 1
    <3>1. k \in 1 .. MaxBuffer /\ 0 + k = k
      BY <1>3, <1>4
    <3>2. k <= Pending => buffer[k] = End(Done) + k - 1
      BY <1>2, <1>3, <3>1 DEF Buffered
    <3> QED BY <1>3, <1>4, <1>6, <3>1, <3>2
  <2> QED BY <1>1, <1>5, <1>8, <2>1, <2>2 DEF Buffered
<1>12. ~pipelined' => Serial'
  BY <1>1, <1>5, <1>8 DEF Inv, Serial
<1>13. Closed'
  BY <1>1, <1>2 DEF Closed
<1> QED BY <1>1, <1>7, <1>9, <1>10, <1>11, <1>12, <1>13 DEF Inv

\* The thread forwards the next message, whole.
LEMMA ForwardInv ==
  ASSUME Inv, Forward
  PROVE  Inv'
<1>1. /\ pc = "parse" /\ pc' = "parse" /\ HasMessage
      /\ forwarded' = Append(forwarded, Bytes(MsgSize))
      /\ startIndex' = startIndex + MsgSize
      /\ UNCHANGED <<sent, written, hungUp, pipelined, received, buffer, endIndex,
                     closedBy, sns_ready>>
  BY DEF Forward, client
<1>2. Types /\ Written /\ Forwarded /\ Buffered /\ Closed
  BY <1>1 DEF Inv
<1> DEFINE m == sent[Done + 1]
<1>3. Pending >= Header /\ Done < Len(sent) /\ MsgSize = m /\ Pending >= m
  BY <1>1, <1>2, SizeRead DEF HasMessage
<1>4. /\ sent \in Seq(Nat) /\ Len(sent) \in Nat /\ Done \in Nat
      /\ Header \in Nat /\ Header > 0 /\ Pending \in Nat
      /\ startIndex \in Nat /\ endIndex = startIndex + Pending /\ endIndex <= MaxBuffer
      /\ MaxBuffer \in Nat /\ endIndex \in Nat
  BY <1>2, Numbers DEF Forwarded, Done
<1>5. /\ Done + 1 \in 1 .. Len(sent) /\ Done \in 0 .. Len(sent)
      /\ Done + 1 \in 0 .. Len(sent) /\ (Done + 1) - 1 = Done
  BY <1>3, <1>4
<1>6. m \in Nat /\ m > 0 /\ End(Done) \in Nat
  BY <1>2, <1>4, <1>5, Numbers
<1>7. End(Done + 1) = End(Done) + m
  BY <1>4, <1>5, EndsRecursive DEF End
<1>8. Bytes(m) = Message(Done + 1) /\ Bytes(m) \in Seq(Int)
  <2>1. Bytes(m) = [k \in 1 .. m |-> End(Done) + k - 1]
    BY <1>2, <1>3, <1>6, BytesPending
  <2>2. Message(Done + 1) = [k \in 1 .. m |-> End(Done) + k - 1]
    BY <1>5 DEF Message
  <2>3. [k \in 1 .. m |-> End(Done) + k - 1] \in Seq(Int)
    BY <1>6, Run
  <2> QED BY <2>1, <2>2, <2>3
<1> HIDE DEF m
<1>9. /\ forwarded \in Seq(Seq(Int)) /\ forwarded' = Append(forwarded, Message(Done + 1))
      /\ Message(Done + 1) \in Seq(Int)
  BY <1>1, <1>2, <1>3, <1>8 DEF Forwarded
<1>10. /\ forwarded' \in Seq(Seq(Int)) /\ Done' = Done + 1
       /\ \A i \in 1 .. Done : forwarded'[i] = forwarded[i]
       /\ forwarded'[Done + 1] = Message(Done + 1)
  BY <1>9 DEF Done
<1>11. Pending' = Pending - m /\ startIndex' = startIndex + m
  BY <1>1, <1>3, <1>4, <1>6 DEF Pending
<1>12. (\A i : End(i)' = End(i)) /\ \A i : Message(i)' = Message(i)
  BY <1>1 DEF End, Message
<1>13. Types'
  <2>1. startIndex' \in 0 .. MaxBuffer /\ startIndex' <= endIndex'
    BY <1>1, <1>3, <1>4, <1>6, <1>11
  <2> QED BY <1>1, <1>2, <2>1 DEF Types
<1>14. Written' /\ Closed'
  <2>1. closedBy = "nobody"
    BY <1>1, <1>2 DEF Closed
  <2> QED BY <1>1, <1>2, <1>12, <2>1 DEF Written, Closed
<1>15. End(Done + 1) + (Pending - m) = received
  BY <1>2, <1>3, <1>4, <1>6, <1>7 DEF Buffered
<1>16. Forwarded'
  <2>1. \A i \in 1 .. Done + 1 : forwarded'[i] = Message(i)
    <3> SUFFICES ASSUME NEW i \in 1 .. Done + 1 PROVE forwarded'[i] = Message(i)
      OBVIOUS
    <3>1. i \in 1 .. Done \/ i = Done + 1
      BY <1>4
    <3>2. CASE i \in 1 .. Done
      BY <1>2, <1>10, <3>2 DEF Forwarded
    <3> QED BY <1>10, <3>1, <3>2
  <2>2. End(Done + 1) <= received
    BY <1>3, <1>4, <1>6, <1>7, <1>15
  <2>3. Done' <= Len(sent') /\ Ends(sent')[Done'] <= received'
    BY <1>1, <1>3, <1>4, <1>10, <2>2 DEF End
  <2>4. \A i \in 1 .. Done' : forwarded'[i] = Message(i)'
    BY <1>10, <1>12, <2>1
  <2> QED BY <1>10, <2>3, <2>4 DEF Forwarded, End
<1>17. Buffered'
  <2>1. ASSUME NEW k \in 1 .. Pending - m
        PROVE  buffer[startIndex + m + k] = End(Done + 1) + k - 1
    <3>1. m + k \in 1 .. Pending /\ startIndex + (m + k) = startIndex + m + k
      BY <1>3, <1>4, <1>6
    <3>2. buffer[startIndex + (m + k)] = End(Done) + (m + k) - 1
      BY <1>2, <3>1 DEF Buffered
    <3> QED BY <1>6, <1>7, <3>1, <3>2
  <2> QED BY <1>1, <1>10, <1>11, <1>12, <1>15, <2>1 DEF Buffered
<1>18. ~pipelined' => Serial'
  <2> SUFFICES ASSUME ~pipelined' PROVE Serial'
    OBVIOUS
  <2>1. Len(sent) = Done + 1
    BY <1>1, <1>3, <1>4 DEF Inv, Serial
  <2>2. received <= End(Done + 1) /\ received \in Nat
    BY <1>2, <2>1, <1>5, Numbers DEF Types, Written
  <2>3. Pending - m = 0
    BY <1>3, <1>4, <1>6, <1>7, <1>15, <2>2
  <2> QED BY <1>1, <1>4, <1>10, <1>11, <2>1, <2>3 DEF Serial
<1> QED BY <1>1, <1>13, <1>14, <1>16, <1>17, <1>18 DEF Inv

\* What is pending keeps its bytes; a buffer that may overlap itself has been
\* filled by a client that did not wait.
LEMMA MoveInv ==
  ASSUME Inv, Move
  PROVE  Inv'
<1>1. /\ pc = "parse" /\ ~HasMessage
      /\ startIndex' = 0 /\ endIndex' = Pending
      /\ \/ /\ buffer' = [i \in 1 .. MaxBuffer |->
                            IF i <= Pending THEN buffer[startIndex + i]
                            ELSE buffer[i]]
            /\ pc' = "poll"
         \/ /\ 0 < startIndex /\ startIndex < Pending
            /\ buffer' = buffer /\ pc' = "astray"
      /\ UNCHANGED <<sent, written, hungUp, pipelined, received, closedBy,
                     forwarded, sns_ready>>
  BY DEF Move, client
<1>2. Types /\ Written /\ Forwarded /\ Buffered /\ Closed
  BY <1>1 DEF Inv
<1>3. /\ Len(sent) \in Nat /\ Done \in Nat /\ Header \in Nat /\ Pending \in Nat
      /\ startIndex \in Nat /\ endIndex = startIndex + Pending /\ endIndex <= MaxBuffer
      /\ MaxBuffer \in Nat
  BY <1>2, Numbers DEF Forwarded, Done
<1>4. Pending < Header \/ (Done < Len(sent) /\ Pending < sent[Done + 1])
  <2> SUFFICES ASSUME ~(Pending < Header)
               PROVE  Done < Len(sent) /\ Pending < sent[Done + 1]
    OBVIOUS
  <2>1. Pending >= Header
    BY <1>3
  <2>2. Done < Len(sent) /\ MsgSize = sent[Done + 1]
    BY <1>2, <2>1, SizeRead
  <2>3. Done + 1 \in 1 .. Len(sent)
    BY <1>3, <2>2
  <2>4. sent[Done + 1] \in Nat
    BY <1>2, <2>3, Numbers
  <2> QED BY <1>1, <1>3, <2>1, <2>2, <2>4 DEF HasMessage
<1>5. Pending' = Pending /\ Done' = Done
      /\ (\A i : End(i)' = End(i)) /\ \A i : Message(i)' = Message(i)
  BY <1>1, <1>3 DEF Pending, Done, End, Message
<1>6. Types'
  <2>1. buffer' \in [1 .. MaxBuffer -> {Junk} \cup 0 .. written]
    <3>1. \A i \in 1 .. MaxBuffer : i <= Pending => startIndex + i \in 1 .. MaxBuffer
      BY <1>3
    <3> QED BY <1>1, <1>2, <3>1 DEF Types
  <2>2. startIndex' \in 0 .. MaxBuffer /\ endIndex' \in 0 .. MaxBuffer
        /\ startIndex' <= endIndex'
    BY <1>1, <1>3
  <2> QED BY <1>1, <1>2, <2>1, <2>2 DEF Types
<1>7. Written' /\ Forwarded'
  BY <1>1, <1>2, <1>5 DEF Written, Forwarded
<1>8. Closed'
  <2>1. closedBy = "nobody"
    BY <1>1, <1>2 DEF Closed
  <2> QED BY <1>1, <2>1 DEF Closed
<1>9. pc' = "poll" => Buffered' /\ Unfinished'
  <2> SUFFICES ASSUME pc' = "poll" PROVE Buffered' /\ Unfinished'
    OBVIOUS
  <2>1. ASSUME NEW k \in 1 .. Pending PROVE buffer'[0 + k] = End(Done) + k - 1
    <3>1. k \in 1 .. MaxBuffer /\ 0 + k = k /\ k <= Pending
      BY <1>3
    <3>2. buffer'[k] = buffer[startIndex + k]
      BY <1>1, <3>1
    <3> QED BY <1>2, <3>1, <3>2 DEF Buffered
  <2>2. Buffered'
    BY <1>1, <1>2, <1>5, <2>1 DEF Buffered
  <2> QED BY <1>1, <1>4, <1>5, <2>2 DEF Unfinished
<1>10. ~pipelined' => Serial' /\ pc' # "astray"
  BY <1>1, <1>3, <1>5 DEF Inv, Serial
<1> QED BY <1>1, <1>6, <1>7, <1>8, <1>9, <1>10 DEF Inv

LEMMA StepInv ==
  ASSUME Inv, [Next]_vars
  PROVE  Inv'
<1>1. CASE Send
  BY <1>1, SendInv
<1>2. CASE HangUp \/ SetReady
  BY <1>2, HangUpInv
<1>3. CASE RecvNothing \/ Timeout \/ Fail
  BY <1>3, CloseInv
<1>4. CASE Recv
  BY <1>4, RecvInv
<1>5. CASE Forward
  BY <1>5, ForwardInv
<1>6. CASE Move
  BY <1>6, MoveInv
<1>7. CASE UNCHANGED vars
  <2>1. UNCHANGED <<sent, written, hungUp, pipelined, received, buffer, startIndex,
                    endIndex, pc, closedBy, forwarded, sns_ready>>
    BY <1>7 DEF vars, client, thread
  <2>2. Types' /\ Written' /\ Closed'
    BY <2>1 DEF Inv, Types, Written, Closed, End, Done
  <2>3. Forwarded' /\ Buffered' = Buffered /\ Unfinished' = Unfinished
        /\ Serial' = Serial
    BY <2>1 DEF Inv, Forwarded, Buffered, Unfinished, Serial, End, Done, Pending,
                Message
  <2> QED BY <2>1, <2>2, <2>3 DEF Inv
<1> QED BY <1>1, <1>2, <1>3, <1>4, <1>5, <1>6, <1>7 DEF Next

(***************************************************************************)
(* What the invariant says of the messages that have arrived.              *)
(***************************************************************************)

LEMMA InvImplies == Inv => TypeOK /\ Intact /\ SerialNeverAstray /\ ClosedRightly
<1> SUFFICES ASSUME Inv PROVE TypeOK /\ Intact /\ SerialNeverAstray /\ ClosedRightly
  OBVIOUS
<1>1. Types /\ Written /\ Forwarded /\ Closed
  BY DEF Inv
<1>2. /\ sent \in Seq(Nat) /\ Len(sent) \in Nat /\ Done \in Nat /\ Done <= Len(sent)
      /\ \A i \in 0 .. Len(sent) : End(i) \in Nat
      /\ written \in Nat /\ received \in Nat /\ received <= written
  BY <1>1, Numbers DEF Forwarded, Done, Types
<1>3. TypeOK
  <2>1. 0 <= startIndex /\ startIndex <= endIndex /\ endIndex <= MaxBuffer
    BY <1>1, Numbers DEF Types
  <2> QED BY <1>1, <2>1 DEF Types, TypeOK
<1>4. 1 .. Done \subseteq Complete
  <2> SUFFICES ASSUME NEW i \in 1 .. Done PROVE i \in Complete
    OBVIOUS
  <2>1. i \in 0 .. Len(sent) /\ i \in 1 .. Len(sent) /\ Done \in 0 .. Len(sent) /\ i <= Done
    BY <1>2
  <2>2. End(i) <= End(Done)
    BY <1>2, <2>1, EndsMonotone DEF End
  <2>3. End(i) <= written
    BY <1>1, <1>2, <2>1, <2>2 DEF Forwarded
  <2> QED BY <2>1, <2>3 DEF Complete
<1>5. IsFiniteSet(Complete) /\ Cardinality(1 .. Done) = Done
  <2>1. IsFiniteSet(1 .. Len(sent)) /\ Complete \subseteq 1 .. Len(sent)
    BY <1>2, FS_Interval DEF Complete
  <2>2. Cardinality(1 .. Done) = IF 1 > Done THEN 0 ELSE Done - 1 + 1
    BY <1>2, FS_Interval
  <2>3. IsFiniteSet(Complete)
    BY <2>1, FS_Subset
  <2>4. Cardinality(1 .. Done) = Done
    BY <1>2, <2>2
  <2> QED BY <2>3, <2>4
<1>6. Done <= Cardinality(Complete)
  BY <1>4, <1>5, FS_Subset
<1>7. Intact
  BY <1>1, <1>6 DEF Intact, Forwarded, Done
<1>8. SerialNeverAstray
  BY DEF Inv, SerialNeverAstray
<1>9. closedBy = "full" => Len(forwarded) + 1 \in Oversized
  BY <1>1, <1>2 DEF Closed, Oversized, Done
<1>10. closedBy = "client" => Len(forwarded) = Cardinality(Complete)
  <2> SUFFICES ASSUME closedBy = "client" PROVE Complete = 1 .. Done
    BY <1>5 DEF Done
  <2>1. ASSUME NEW i \in Complete PROVE i \in 1 .. Done
    <3>1. SUFFICES ASSUME ~(i <= Done) PROVE FALSE
      BY <1>2 DEF Complete
    <3>2. i \in 0 .. Len(sent) /\ Done + 1 \in 0 .. Len(sent) /\ Done + 1 <= i
          /\ Done < Len(sent) /\ End(i) <= written
      BY <1>2, <3>1 DEF Complete
    <3>3. End(Done + 1) <= End(i)
      BY <1>2, <3>2, EndsMonotone DEF End
    <3>4. End(Done + 1) > written
      BY <1>1, <3>2 DEF Closed
    <3> QED BY <1>2, <3>2, <3>3, <3>4
  <2> QED BY <1>4, <2>1
<1> QED BY <1>3, <1>7, <1>8, <1>9, <1>10 DEF ClosedRightly

THEOREM InvAlways == Spec => []Inv
BY InitInv, StepInv, PTL DEF Spec

(***************************************************************************)
(* What the reading thread maintains, for any sizes of messages, any       *)
(* buffer and any cuts of the stream.                                      *)
(***************************************************************************)

\* The variables keep their types; the indexes do not leave the buffer.
THEOREM StreamTypeCorrect == Spec => []TypeOK
BY InvAlways, InvImplies, PTL

\* The messages forwarded are the first ones sent, each byte for byte
\* (TCP_RecvThread).
THEOREM IntactAlways == Spec => []Intact
BY InvAlways, InvImplies, PTL

\* The buffer may overlap itself only under a client that sends a message
\* before the one before was forwarded (the memcpy of TCP_RecvThread).
THEOREM SerialNeverAstrayAlways == Spec => []SerialNeverAstray
BY InvAlways, InvImplies, PTL

\* A connection is closed for want of room only at a message larger than the
\* buffer, and for a client that has hung up only behind its last whole message.
THEOREM ClosedRightlyAlways == Spec => []ClosedRightly
BY InvAlways, InvImplies, PTL
=============================================================================
