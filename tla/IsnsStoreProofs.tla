-------------------------- MODULE IsnsStoreProofs ---------------------------
(***************************************************************************)
(* Theorems of IsnsStore for any objects and lists, any failures of the    *)
(* directory, crashes and restarts: its types, that it implements          *)
(* IsnsTable, and that the two copies agree where no error was reported.   *)
(***************************************************************************)
EXTENDS IsnsStore, SequenceTheorems, TLAPS

\* A call is being carried out.
Busy == pc \in {"first", "reconnect", "second"}

\* What a call of each kind may have left to ask of the directory.
Planned(s) ==
  \/ call.op = "write" /\ s \in {<<"search">>, <<"insert">>, <<"set">>}
  \/ call.op = "addnode" /\ s \in {<<"search">>, <<"void", "plus">>, <<"plus">>}
  \/ call.op = "delete" /\ s = <<"delete">>
  \/ call.op = "removenode" /\ s = <<"minus">>
  \/ call.op = "deletelist" /\ s = <<"clear">>

\* One object at a time is being built, and it is not a stored one; a call
\* that is being carried out is one, with requests of its kind.
Orderly ==
  /\ DOMAIN draft \cap DOMAIN mem = {}
  /\ \A i, j \in DOMAIN draft : i = j
  /\ pc = "down" => mem = NoObjects /\ draft = NoDraft
  /\ Busy => /\ call \in Calls /\ Planned(todo)
             /\ call.op = "write" => call.val \in Vals
             /\ call.op = "removenode" => call.key \in DOMAIN mem

Ordered == StoreTypeOK /\ Orderly

\* k is stored in both copies with the same scalar fields.
SameFields(k) == k \in DOMAIN mem /\ k \in DOMAIN dir /\ mem[k].val = dir[k].val

\* The copies of the object of the current call, while the call goes on: the
\* directory has what memory had before, and perhaps the change already.
Underway(k) ==
  /\ call.op = "write" =>
       /\ k \in DOMAIN mem /\ k \notin DOMAIN draft
       /\ mem[k].val = call.val /\ ListIn(dir, k) = mem[k].list
  /\ call.op = "addnode" =>
       /\ k \in DOMAIN mem \cup DOMAIN draft
       /\ k \in DOMAIN mem => SameFields(k)
       /\ ListIn(dir, k) \cup call.items = ListOf(k)
  /\ call.op = "removenode" =>
       SameFields(k) /\ dir[k].list \ call.items = mem[k].list \ call.items
  /\ call.op = "deletelist" =>
       /\ k \in DOMAIN mem \cup DOMAIN draft
       /\ k \in DOMAIN mem => SameFields(k)

\* The strengthening of CopiesAgree: objects that no call is about agree at
\* all times, and the object of the current call is under way.
Coherent ==
  pc # "down" =>
    \A k \in Keys \ doubt :
      IF Busy /\ call.key = k THEN Underway(k) ELSE Agrees(k)

(***************************************************************************)
(* What a call does to a table.                                            *)
(***************************************************************************)

\* A call keeps a table a table and touches no object but its own.
LEMMA EffectTable ==
  ASSUME NEW t, IsStore(t), NEW c \in Calls
  PROVE  /\ IsStore(Effect(t, c))
         /\ \A k \in Keys \ {c.key} :
              /\ k \in DOMAIN Effect(t, c) <=> k \in DOMAIN t
              /\ k \in DOMAIN t => Effect(t, c)[k] = t[k]
<1>1. /\ c.op \in Ops /\ c.key \in Keys /\ c.val \in Vals \cup {Void}
      /\ c.items \in SUBSET Items
  BY DEF Calls
<1>2. \A k \in DOMAIN t : k \in Keys /\ t[k] \in Objects
  BY DEF IsStore
<1>3. CASE c.op = "write"
  BY <1>1, <1>2, <1>3 DEF Effect, IsStore, Objects
<1>4. CASE c.op = "delete"
  BY <1>1, <1>2, <1>4 DEF Effect, IsStore
<1>5. CASE c.op \in {"addnode", "removenode", "deletelist"}
  <2>1. \A k \in DOMAIN t : Edited(t[k].list, c) \in SUBSET Items
    BY <1>1, <1>2, <1>5 DEF Edited, Objects
  <2>2. Effect(t, c) = [k \in DOMAIN t |-> IF k # c.key THEN t[k]
                          ELSE [t[k] EXCEPT !.list = Edited(@, c)]]
    BY <1>5 DEF Effect
  <2> QED
    BY <1>1, <1>2, <2>1, <2>2 DEF IsStore, Objects
<1> QED
  BY <1>1, <1>3, <1>4, <1>5 DEF Ops

\* What a call does to its own object.
LEMMA EffectObject ==
  ASSUME NEW t, IsStore(t), NEW c \in Calls
  PROVE  LET k == c.key
             u == Effect(t, c)
         IN /\ c.op = "write" =>
                 /\ k \in DOMAIN u /\ u[k].val = c.val
                 /\ u[k].list = IF k \in DOMAIN t THEN t[k].list ELSE c.items
            /\ c.op = "delete" => k \notin DOMAIN u
            /\ c.op \in {"addnode", "removenode", "deletelist"} =>
                 /\ k \in DOMAIN u <=> k \in DOMAIN t
                 /\ k \in DOMAIN t =>
                      u[k].val = t[k].val /\ u[k].list = Edited(t[k].list, c)
<1>1. c.op \in Ops /\ c.key \in Keys
  BY DEF Calls
<1>2. \A k \in DOMAIN t : k \in Keys /\ t[k] \in Objects
  BY DEF IsStore
<1>3. CASE c.op = "write"
  BY <1>3 DEF Effect
<1>4. CASE c.op = "delete"
  BY <1>4 DEF Effect
<1>5. CASE c.op \in {"addnode", "removenode", "deletelist"}
  <2>1. Effect(t, c) = [k \in DOMAIN t |-> IF k # c.key THEN t[k]
                          ELSE [t[k] EXCEPT !.list = Edited(@, c)]]
    BY <1>5 DEF Effect
  <2> QED
    BY <1>2, <1>5, <2>1 DEF Objects
<1> QED
  BY <1>1, <1>3, <1>4, <1>5 DEF Ops

(***************************************************************************)
(* Requests to the directory.                                              *)
(***************************************************************************)

LEMMA NoObjectsIsStore == IsStore(NoObjects)
BY DEF IsStore, NoObjects

\* The plans of the calls are sequences that can be taken apart.
LEMMA Plans ==
  /\ \A x \in Requests : <<x>> \in Seq(Requests) /\ Head(<<x>>) = x /\ Tail(<<x>>) = <<>>
  /\ <<"void", "plus">> \in Seq(Requests)
  /\ Head(<<"void", "plus">>) = "void" /\ Tail(<<"void", "plus">>) = <<"plus">>
  /\ <<>> \in Seq(Requests)
  /\ \A x : <<x>> # <<>>
  /\ <<"void", "plus">> # <<>>
BY DEF Requests

\* A request leaves the directory a table and touches one entry only.
LEMMA ChangedTable ==
  ASSUME IsStore(dir), call \in Calls, NEW request \in Requests
  PROVE  /\ IsStore(Changed(dir, request))
         /\ \A k \in Keys \ {call.key} :
              /\ k \in DOMAIN Changed(dir, request) <=> k \in DOMAIN dir
              /\ k \in DOMAIN dir => Changed(dir, request)[k] = dir[k]
<1>0. /\ call.op \in Ops /\ call.key \in Keys /\ call.val \in Vals \cup {Void}
      /\ call.items \in SUBSET Items
  BY DEF Calls
<1> DEFINE v == [op |-> "write", key |-> call.key, val |-> Void, items |-> {}]
           w == [call EXCEPT !.op = "write", !.items = {}]
           r(o) == [call EXCEPT !.op = o]
<1>1. v \in Calls /\ v.key = call.key
  BY <1>0 DEF Calls, Ops
<1>2. w \in Calls /\ w.key = call.key
  BY <1>0 DEF Calls, Ops
<1>3. \A o \in Ops : r(o) \in Calls /\ r(o).key = call.key
  BY <1>0 DEF Calls
<1>4. CASE request = "search"
  BY <1>4 DEF Changed
<1>5. CASE request = "void"
  <2>1. Changed(dir, request) = Effect(dir, v)
    BY <1>5 DEF Changed
  <2> HIDE DEF v
  <2> QED BY <1>1, <2>1, EffectTable
<1>6. CASE request \in {"insert", "set"}
  <2>1. Changed(dir, request) = Effect(dir, w)
    BY <1>6 DEF Changed
  <2> HIDE DEF w
  <2> QED BY <1>2, <2>1, EffectTable
<1>7. CASE request \in {"delete", "plus", "minus", "clear"}
  <2>1. PICK o \in Ops : Changed(dir, request) = Effect(dir, r(o))
    BY <1>7 DEF Changed, Ops
  <2> HIDE DEF r
  <2> QED BY <1>3, <2>1, EffectTable
<1> QED
  BY <1>4, <1>5, <1>6, <1>7 DEF Requests

\* What a request does to the entry it is about.
LEMMA ChangedEntry ==
  ASSUME IsStore(dir), call \in Calls, NEW request \in Requests
  PROVE  LET k == call.key
             d == Changed(dir, request)
         IN /\ request = "search" => d = dir
            /\ request = "delete" => k \notin DOMAIN d
            /\ request = "void" =>
                 k \in DOMAIN d /\ d[k].val = Void /\ d[k].list = ListIn(dir, k)
            /\ request \in {"insert", "set"} =>
                 k \in DOMAIN d /\ d[k].val = call.val /\ d[k].list = ListIn(dir, k)
            /\ request \in {"plus", "minus", "clear"} =>
                 /\ k \in DOMAIN d <=> k \in DOMAIN dir
                 /\ k \in DOMAIN d => d[k].val = dir[k].val
                 /\ k \in DOMAIN d /\ request = "plus" =>
                      d[k].list = dir[k].list \cup call.items
                 /\ k \in DOMAIN d /\ request = "minus" =>
                      d[k].list = dir[k].list \ call.items
                 /\ k \in DOMAIN d /\ request = "clear" => d[k].list = {}
<1>0. /\ call.op \in Ops /\ call.key \in Keys /\ call.val \in Vals \cup {Void}
      /\ call.items \in SUBSET Items
  BY DEF Calls
<1> DEFINE v == [op |-> "write", key |-> call.key, val |-> Void, items |-> {}]
           w == [call EXCEPT !.op = "write", !.items = {}]
           r(o) == [call EXCEPT !.op = o]
<1>1. v \in Calls /\ v.key = call.key /\ v.op = "write" /\ v.val = Void /\ v.items = {}
  BY <1>0 DEF Calls, Ops
<1>2. w \in Calls /\ w.key = call.key /\ w.op = "write" /\ w.val = call.val /\ w.items = {}
  BY <1>0 DEF Calls, Ops
<1>3. \A o \in Ops : /\ r(o) \in Calls /\ r(o).key = call.key /\ r(o).op = o
                     /\ r(o).items = call.items
  BY <1>0 DEF Calls
<1>4. CASE request = "search"
  BY <1>4 DEF Changed
<1>5. CASE request = "void"
  <2>1. Changed(dir, request) = Effect(dir, v)
    BY <1>5 DEF Changed
  <2> HIDE DEF v
  <2>2. Effect(dir, v)[call.key].list = ListIn(dir, call.key)
    BY <1>1, EffectObject DEF ListIn
  <2>3. call.key \in DOMAIN Effect(dir, v) /\ Effect(dir, v)[call.key].val = Void
    BY <1>1, EffectObject
  <2> QED BY <1>5, <2>1, <2>2, <2>3
<1>6. CASE request \in {"insert", "set"}
  <2>1. Changed(dir, request) = Effect(dir, w)
    BY <1>6 DEF Changed
  <2> HIDE DEF w
  <2>2. Effect(dir, w)[call.key].list = ListIn(dir, call.key)
    BY <1>2, EffectObject DEF ListIn
  <2>3. call.key \in DOMAIN Effect(dir, w) /\ Effect(dir, w)[call.key].val = call.val
    BY <1>2, EffectObject
  <2> QED BY <1>6, <2>1, <2>2, <2>3
<1>7. CASE request = "delete"
  <2>1. Changed(dir, request) = Effect(dir, r("delete"))
    BY <1>7 DEF Changed
  <2>2. "delete" \in Ops
    BY DEF Ops
  <2> HIDE DEF r
  <2> QED BY <1>3, <1>7, <2>1, <2>2, EffectObject
<1>8. CASE request \in {"plus", "minus", "clear"}
  <2> DEFINE o == IF request = "plus" THEN "addnode"
                  ELSE IF request = "minus" THEN "removenode" ELSE "deletelist"
  <2>1. Changed(dir, request) = Effect(dir, r(o))
    BY <1>8 DEF Changed
  <2>2. o \in Ops /\ o \in {"addnode", "removenode", "deletelist"}
    BY DEF Ops
  <2>3. \A s : Edited(s, r(o)) =
                 IF request = "plus" THEN s \cup call.items
                 ELSE IF request = "minus" THEN s \ call.items ELSE {}
    BY <1>3, <1>8, <2>2 DEF Edited
  <2>4. r(o) \in Calls /\ r(o).key = call.key /\ r(o).op = o
    BY <1>3, <2>2
  <2> HIDE DEF r, o
  <2> QED BY <1>8, <2>1, <2>2, <2>3, <2>4, EffectObject
<1> QED
  BY <1>4, <1>5, <1>6, <1>7, <1>8 DEF Requests

\* A call that goes on has a request to make, and what it leaves to be asked
\* for after the answer is nothing or a plan of the call.
LEMMA RestPlanned ==
  ASSUME Ordered, Busy
  PROVE  /\ Head(todo) \in Requests
         /\ Rest(Head(todo)) # <<>> =>
              Rest(Head(todo)) \in Seq(Requests) /\ Planned(Rest(Head(todo)))
<1>1. call \in Calls /\ Planned(todo)
  BY DEF Ordered, Orderly
<1>2. CASE todo \in {<<"search">>}
  <2>1. Head(todo) = "search"
    BY <1>2, Plans DEF Requests
  <2>2. call.op \in {"write", "addnode"}
    <3>1. \A x : <<x>>[1] = x
      OBVIOUS
    <3>2. todo[1] = "search" /\ todo # <<"delete">> /\ todo # <<"minus">> /\ todo # <<"clear">>
      BY <1>2, <3>1
    <3> QED BY <1>1, <3>2 DEF Planned
  <2>3. Rest(Head(todo)) \in
          IF call.op = "write" THEN {<<"set">>, <<"insert">>} ELSE {<<"plus">>, <<"void", "plus">>}
    BY <2>1, <2>2 DEF Rest
  <2> QED BY <2>1, <2>2, <2>3, Plans DEF Planned, Requests
<1>3. CASE todo = <<"void", "plus">>
  <2>1. Head(todo) = "void" /\ Rest(Head(todo)) = <<"plus">>
    BY <1>3, Plans DEF Rest
  <2>2. call.op = "addnode"
    <3>1. Len(todo) = 2 /\ \A x : Len(<<x>>) = 1
      BY <1>3
    <3>2. todo \notin {<<"search">>, <<"insert">>, <<"set">>, <<"delete">>, <<"minus">>, <<"clear">>}
      BY <3>1
    <3> QED BY <1>1, <3>2 DEF Planned
  <2> QED BY <2>1, <2>2, Plans DEF Planned, Requests
<1>4. CASE \E x \in Requests \ {"search"} : todo = <<x>>
  <2>1. PICK x \in Requests \ {"search"} : todo = <<x>>
    BY <1>4
  <2>2. Head(todo) = x /\ Rest(Head(todo)) = <<>>
    BY <2>1, Plans DEF Rest
  <2> QED BY <2>2
<1> QED
  <2>1. todo \in {<<"search">>, <<"void", "plus">>} \/ \E x \in Requests \ {"search"} : todo = <<x>>
    BY <1>1 DEF Planned, Requests
  <2> QED BY <1>2, <1>3, <1>4, <2>1

\* A request tells the kind of its call.
LEMMA RequestKind ==
  ASSUME Planned(todo)
  PROVE  /\ Head(todo) = "search" => call.op \in {"write", "addnode"}
         /\ Head(todo) \in {"insert", "set"} => call.op = "write"
         /\ Head(todo) \in {"void", "plus"} => call.op = "addnode"
         /\ Head(todo) = "delete" => call.op = "delete"
         /\ Head(todo) = "minus" => call.op = "removenode"
         /\ Head(todo) = "clear" => call.op = "deletelist"
<1>1. \A x, s : s = <<x>> => Head(s) = x
  OBVIOUS
<1> QED
  BY <1>1, Plans DEF Planned

\* The request after which nothing is left is not one that prepares another.
LEMMA LastRequest ==
  ASSUME Planned(todo), Rest(Head(todo)) = <<>>
  PROVE  Head(todo) \notin {"search", "void"}
<1>1. CASE Head(todo) = "search"
  <2>1. Rest(Head(todo)) \in {<<"set">>, <<"insert">>, <<"plus">>, <<"void", "plus">>}
    BY <1>1 DEF Rest
  <2> QED BY <2>1, Plans
<1>2. CASE Head(todo) = "void"
  <2>1. todo = <<"void", "plus">>
    <3>1. \A x, s : s = <<x>> => Head(s) = x
      OBVIOUS
    <3> QED BY <1>2, <3>1 DEF Planned
  <2>2. Rest(Head(todo)) = <<"plus">>
    BY <1>2, <2>1, Plans DEF Rest
  <2> QED BY <2>2, Plans
<1> QED
  BY <1>1, <1>2

\* The steps that begin a call.
LEMMA EnterOrdered ==
  ASSUME Ordered, NEW c \in Calls, NEW request \in Requests, Enter(c, request),
         IsStore(mem'), \A k \in DOMAIN mem' : mem'[k].val # Void,
         DOMAIN draft' \subseteq Keys, draft' \in [DOMAIN draft' -> SUBSET Items],
         DOMAIN draft' \cap DOMAIN mem' = {}, \A i, j \in DOMAIN draft' : i = j,
         \/ c.op = "write" /\ request = "search" /\ c.val \in Vals
         \/ c.op = "addnode" /\ request = "search"
         \/ c.op = "delete" /\ request = "delete"
         \/ c.op = "removenode" /\ request = "minus" /\ c.key \in DOMAIN mem'
         \/ c.op = "deletelist" /\ request = "clear"
  PROVE  Ordered'
<1>1. StoreTypeOK'
  BY Plans DEF Ordered, StoreTypeOK, Enter
<1>2. pc' = "first" /\ call' = c /\ todo' = <<request>>
  BY DEF Enter
<1>3. Planned(todo)'
  BY <1>2 DEF Planned
<1>4. Orderly'
  BY <1>2, <1>3 DEF Orderly
<1> QED
  BY <1>1, <1>4 DEF Ordered

\* The end of a call.
LEMMA FinishOrdered ==
  ASSUME Ordered, Busy, NEW ok \in BOOLEAN, Finish(ok),
         IsStore(dir'), link' \in {"bound", "unbound", "none"}
  PROVE  Ordered'
<1>1. IsStore(mem) /\ call \in Calls /\ call.op \in Ops /\ call.key \in Keys
  BY DEF Ordered, Orderly, StoreTypeOK, Calls
<1>2. /\ pc' = "idle" /\ todo' = <<>> /\ call' = call
      /\ answer' \in {"ok", "error"} /\ doubt' \in SUBSET Keys
  BY <1>1 DEF Finish, Ordered, StoreTypeOK
<1>3. /\ IsStore(mem') /\ \A k \in DOMAIN mem' : mem'[k].val # Void
      /\ DOMAIN mem' \subseteq DOMAIN mem
  <2>1. CASE call.op \notin Removals
    BY <2>1 DEF Finish, FinishMemory, Ordered, StoreTypeOK
  <2>2. CASE call.op \in Removals
    <3>1. mem' = Effect(mem, call)
      BY <2>2 DEF Finish, FinishMemory
    <3>2. \A k \in DOMAIN mem' : k \in DOMAIN mem /\ mem'[k].val = mem[k].val
      BY <1>1, <2>2, <3>1, EffectTable, EffectObject DEF Removals, IsStore
    <3> QED BY <1>1, <3>1, <3>2, EffectTable DEF Ordered, StoreTypeOK
  <2> QED BY <2>1, <2>2
<1>4. /\ DOMAIN draft' = DOMAIN draft /\ draft' \in [DOMAIN draft' -> SUBSET Items]
  BY DEF Finish, FinishMemory, Ordered, StoreTypeOK
<1>5. StoreTypeOK'
  BY <1>1, <1>2, <1>3, <1>4, Plans DEF StoreTypeOK, Ordered
<1>6. Orderly'
  BY <1>2, <1>3, <1>4 DEF Orderly, Ordered, Busy
<1> QED
  BY <1>5, <1>6 DEF Ordered

\* A call that goes on.
LEMMA ContinueOrdered ==
  ASSUME Ordered, Busy, NEW at \in {"first", "reconnect", "second"}, NEW rest \in Seq(Requests),
         Planned(rest), Continue(at, rest),
         IsStore(dir'), link' \in {"bound", "unbound", "none"}
  PROVE  Ordered'
<1>1. StoreTypeOK'
  BY DEF Ordered, StoreTypeOK, Continue
<1>2. Planned(todo)'
  BY DEF Continue, Planned
<1>3. Orderly'
  BY <1>2 DEF Ordered, Orderly, Continue, Busy
<1> QED
  BY <1>1, <1>3 DEF Ordered

(***************************************************************************)
(* Types, and the order of the steps of a call.                            *)
(***************************************************************************)

\* A draft that is there is that of one object, which is not a stored one.
LEMMA WriteOrdered ==
  ASSUME Ordered, Write PROVE Ordered'
<1>1. PICK k \in DOMAIN mem \cup DOMAIN draft, v \in Vals :
        LET c == [op |-> "write", key |-> k, val |-> v,
                  items |-> IF k \in DOMAIN mem THEN {} ELSE draft[k]]
        IN /\ Enter(c, "search")
           /\ mem' = Effect(mem, c)
           /\ draft' = IF k \in DOMAIN mem THEN draft ELSE NoDraft
  BY DEF Write
<1> DEFINE c == [op |-> "write", key |-> k, val |-> v,
                 items |-> IF k \in DOMAIN mem THEN {} ELSE draft[k]]
<1>2. c \in Calls /\ c.op = "write" /\ c.key = k /\ c.val = v
  BY DEF Calls, Ops, Ordered, StoreTypeOK, IsStore
<1>3. /\ Enter(c, "search") /\ mem' = Effect(mem, c)
      /\ draft' = IF k \in DOMAIN mem THEN draft ELSE NoDraft
  BY <1>1
<1> HIDE DEF c
<1>4. IsStore(mem) /\ \A i \in DOMAIN mem : mem[i].val # Void
  BY DEF Ordered, StoreTypeOK
<1>5. IsStore(mem') /\ DOMAIN mem' = DOMAIN mem \cup {k}
  <2>1. IsStore(mem') /\ k \in DOMAIN mem'
    BY <1>2, <1>3, <1>4, EffectTable, EffectObject
  <2>2. \A i \in Keys \ {k} : i \in DOMAIN mem' <=> i \in DOMAIN mem
    BY <1>2, <1>3, <1>4, EffectTable
  <2> QED BY <1>4, <2>1, <2>2 DEF IsStore
<1>6. \A i \in DOMAIN mem' : mem'[i].val # Void
  <2> SUFFICES ASSUME NEW i \in DOMAIN mem' PROVE mem'[i].val # Void
    OBVIOUS
  <2>1. CASE i = k
    BY <1>2, <1>3, <1>4, <2>1, EffectObject, VoidAssumption
  <2>2. CASE i # k
    BY <1>2, <1>3, <1>4, <1>5, <2>2, EffectTable DEF IsStore
  <2> QED BY <2>1, <2>2
<1>7. /\ DOMAIN draft' \subseteq Keys /\ draft' \in [DOMAIN draft' -> SUBSET Items]
      /\ DOMAIN draft' \cap DOMAIN mem' = {} /\ \A i, j \in DOMAIN draft' : i = j
  BY <1>3, <1>5 DEF Ordered, StoreTypeOK, Orderly, NoDraft
<1> QED
  BY <1>2, <1>3, <1>5, <1>6, <1>7, EnterOrdered DEF Requests

LEMMA AddNodeOrdered ==
  ASSUME Ordered, AddNode PROVE Ordered'
<1>1. PICK k \in DOMAIN mem \cup DOMAIN draft, x \in Items :
        LET c == [op |-> "addnode", key |-> k, val |-> Void, items |-> {x}]
        IN /\ Enter(c, "search")
           /\ mem' = Effect(mem, c)
           /\ draft' = IF k \in DOMAIN mem THEN draft
                       ELSE [draft EXCEPT ![k] = @ \cup {x}]
  BY DEF AddNode
<1> DEFINE c == [op |-> "addnode", key |-> k, val |-> Void, items |-> {x}]
<1>2. c \in Calls /\ c.op = "addnode" /\ c.key = k
  BY DEF Calls, Ops, Ordered, StoreTypeOK, IsStore
<1>3. /\ Enter(c, "search") /\ mem' = Effect(mem, c)
      /\ draft' = IF k \in DOMAIN mem THEN draft ELSE [draft EXCEPT ![k] = @ \cup {x}]
  BY <1>1
<1> HIDE DEF c
<1>4. IsStore(mem) /\ \A i \in DOMAIN mem : mem[i].val # Void
  BY DEF Ordered, StoreTypeOK
<1>5. IsStore(mem') /\ DOMAIN mem' = DOMAIN mem
  BY <1>2, <1>3, <1>4, EffectTable, EffectObject DEF IsStore, Calls
<1>6. \A i \in DOMAIN mem' : mem'[i].val # Void
  <2> SUFFICES ASSUME NEW i \in DOMAIN mem' PROVE mem'[i].val # Void
    OBVIOUS
  <2>1. mem'[i].val = mem[i].val
    BY <1>2, <1>3, <1>4, <1>5, EffectTable, EffectObject DEF IsStore
  <2> QED BY <1>4, <1>5, <2>1
<1>7. /\ DOMAIN draft' \subseteq Keys /\ draft' \in [DOMAIN draft' -> SUBSET Items]
      /\ DOMAIN draft' \cap DOMAIN mem' = {} /\ \A i, j \in DOMAIN draft' : i = j
  BY <1>3, <1>5 DEF Ordered, StoreTypeOK, Orderly
<1> QED
  BY <1>2, <1>3, <1>5, <1>6, <1>7, EnterOrdered DEF Requests

\* A removal leaves memory alone until the directory has answered.
LEMMA RemovalEnters ==
  ASSUME Ordered, Delete \/ RemoveNode \/ DeleteList
  PROVE  \E c \in Calls, request \in Requests :
           /\ Enter(c, request)
           /\ \/ c.op = "delete" /\ request = "delete"
              \/ c.op = "removenode" /\ request = "minus" /\ c.key \in DOMAIN mem
              \/ /\ c.op = "deletelist" /\ request = "clear"
                 /\ c.key \in DOMAIN mem \cup DOMAIN draft
           /\ UNCHANGED <<mem, draft>>
<1>1. CASE Delete
  <2>1. PICK k \in DOMAIN mem :
          /\ Enter([op |-> "delete", key |-> k, val |-> Void, items |-> {}], "delete")
          /\ UNCHANGED <<mem, draft>>
    BY <1>1 DEF Delete
  <2>2. [op |-> "delete", key |-> k, val |-> Void, items |-> {}] \in Calls
    BY DEF Calls, Ops, Ordered, StoreTypeOK, IsStore
  <2> QED BY <2>1, <2>2 DEF Requests
<1>2. CASE RemoveNode
  <2>1. PICK k \in DOMAIN mem : \E x \in mem[k].list :
          /\ Enter([op |-> "removenode", key |-> k, val |-> Void, items |-> {x}], "minus")
          /\ UNCHANGED <<mem, draft>>
    BY <1>2 DEF RemoveNode
  <2>2. k \in Keys /\ mem[k].list \subseteq Items
    BY DEF Ordered, StoreTypeOK, IsStore, Objects
  <2>3. \A x \in mem[k].list : [op |-> "removenode", key |-> k, val |-> Void, items |-> {x}] \in Calls
    BY <2>2 DEF Calls, Ops
  <2> QED BY <2>1, <2>3 DEF Requests
<1>3. CASE DeleteList
  <2>1. PICK k \in DOMAIN mem \cup DOMAIN draft :
          /\ Enter([op |-> "deletelist", key |-> k, val |-> Void, items |-> {}], "clear")
          /\ UNCHANGED <<mem, draft>>
    BY <1>3 DEF DeleteList
  <2>2. [op |-> "deletelist", key |-> k, val |-> Void, items |-> {}] \in Calls
    BY DEF Calls, Ops, Ordered, StoreTypeOK, IsStore
  <2> QED BY <2>1, <2>2 DEF Requests
<1> QED BY <1>1, <1>2, <1>3

LEMMA RemovalOrdered ==
  ASSUME Ordered, Delete \/ RemoveNode \/ DeleteList PROVE Ordered'
<1>1. PICK c \in Calls, request \in Requests :
        /\ Enter(c, request)
        /\ \/ c.op = "delete" /\ request = "delete"
           \/ c.op = "removenode" /\ request = "minus" /\ c.key \in DOMAIN mem
           \/ c.op = "deletelist" /\ request = "clear"
        /\ UNCHANGED <<mem, draft>>
  BY RemovalEnters
<1>2. /\ IsStore(mem') /\ \A k \in DOMAIN mem' : mem'[k].val # Void
      /\ DOMAIN draft' \subseteq Keys /\ draft' \in [DOMAIN draft' -> SUBSET Items]
      /\ DOMAIN draft' \cap DOMAIN mem' = {} /\ \A i, j \in DOMAIN draft' : i = j
  BY <1>1 DEF Ordered, StoreTypeOK, Orderly
<1> QED
  BY <1>1, <1>2, EnterOrdered

\* Every request ends a call or lets it go on, and the directory is as it was
\* or changed by the request.
LEMMA RequestOrdered ==
  ASSUME Ordered, Served \/ NotServed \/ Reconnect PROVE Ordered'
<1>0. /\ Busy /\ IsStore(dir) /\ call \in Calls /\ link \in {"bound", "unbound", "none"}
      /\ todo \in Seq(Requests) /\ Planned(todo) /\ Head(todo) \in Requests
  BY RestPlanned DEF Served, NotServed, Reconnect, Busy, Ordered, Orderly, StoreTypeOK
<1>1. IsStore(Changed(dir, Head(todo)))
  BY <1>0, ChangedTable
<1>2. CASE Served
  <2>1. IsStore(dir') /\ link' = link
    BY <1>1, <1>2 DEF Served
  <2>2. CASE Rest(Head(todo)) = <<>>
    BY <1>0, <1>2, <2>1, <2>2, FinishOrdered DEF Served
  <2>3. CASE Rest(Head(todo)) # <<>>
    BY <1>0, <1>2, <2>1, <2>3, RestPlanned, ContinueOrdered DEF Served
  <2> QED BY <2>2, <2>3
<1>3. CASE NotServed
  <2>1. IsStore(dir') /\ link' = link
    BY <1>0, <1>1, <1>3 DEF NotServed
  <2> QED
    BY <1>0, <1>3, <2>1, FinishOrdered, ContinueOrdered DEF NotServed
<1>4. CASE Reconnect
  <2>1. IsStore(dir') /\ link' \in {"bound", "unbound", "none"}
    BY <1>0, <1>4 DEF Reconnect
  <2> QED
    BY <1>0, <1>4, <2>1, FinishOrdered, ContinueOrdered DEF Reconnect
<1> QED
  BY <1>2, <1>3, <1>4

LEMMA OrderedInit == StoreInit => Ordered
BY NoObjectsIsStore, Plans
   DEF StoreInit, Ordered, StoreTypeOK, Orderly, Busy, NoDraft, NoObjects

LEMMA OrderedStep == Ordered /\ [StoreNext]_storeVars => Ordered'
<1> SUFFICES ASSUME Ordered, [StoreNext]_storeVars PROVE Ordered'
  OBVIOUS
<1>1. CASE NewDraft
  BY <1>1 DEF NewDraft, Ordered, StoreTypeOK, Orderly, Busy, NoDraft, Planned
<1>2. CASE Abandon
  BY <1>2 DEF Abandon, Ordered, StoreTypeOK, Orderly, Busy, NoDraft, Planned
<1>3. CASE Write
  BY <1>3, WriteOrdered
<1>4. CASE AddNode
  BY <1>4, AddNodeOrdered
<1>5. CASE Delete \/ RemoveNode \/ DeleteList
  BY <1>5, RemovalOrdered
<1>6. CASE Served \/ NotServed \/ Reconnect
  BY <1>6, RequestOrdered
<1>7. CASE Crash
  <2>1. StoreTypeOK'
    <3>1. pc # "idle" => call.key \in Keys
      BY <1>7 DEF Ordered, Orderly, StoreTypeOK, Busy, Crash, Calls
    <3> QED BY <1>7, <3>1, NoObjectsIsStore, Plans
              DEF Crash, Ordered, StoreTypeOK, NoDraft, NoObjects
  <2>2. Orderly'
    BY <1>7 DEF Crash, Orderly, Busy, NoDraft, NoObjects
  <2> QED BY <2>1, <2>2 DEF Ordered
<1>8. CASE Restart
  BY <1>8 DEF Restart, Ordered, StoreTypeOK, Orderly, Busy, Planned, IsStore, NoObjects, NoDraft
<1>9. CASE UNCHANGED storeVars
  BY <1>9 DEF storeVars, Ordered, StoreTypeOK, Orderly, Busy, Planned
<1> QED
  BY <1>1, <1>2, <1>3, <1>4, <1>5, <1>6, <1>7, <1>8, <1>9 DEF StoreNext

\* The tables, the draft and the call of the server stay well-formed.
THEOREM StoreTypeCorrect == StoreSpec => []StoreTypeOK
<1>1. Ordered => StoreTypeOK
  BY DEF Ordered
<1> QED
  BY <1>1, OrderedInit, OrderedStep, PTL DEF StoreSpec

(***************************************************************************)
(* The store implements IsnsTable.                                         *)
(***************************************************************************)

\* The table as the handlers see it: pending and applied.
Pending == IF pc \in {"idle", "down"} THEN NoCall ELSE call
Applied == pc \notin {"idle", "down"} /\ call.op \in {"write", "addnode"}

LEMMA SameEffect == \A t, c : Table!Effect(t, c) = Effect(t, c)
BY DEF Table!Effect, Effect, Table!Edited, Edited

LEMMA CallIsNotNoCall == \A c \in Calls : c # NoCall
<1>1. \A c \in Calls : c.op # "none"
  BY DEF Calls, Ops
<1> QED
  BY <1>1 DEF NoCall

\* A call that begins is an Invoke, with its effect if it is not a removal.
LEMMA EnterInvokes ==
  ASSUME NEW c \in Calls, NEW request, Enter(c, request),
         \/ c.op \in {"write", "addnode"} /\ mem' = Effect(mem, c)
         \/ c.op \in Removals /\ mem' = mem
  PROVE  Table!Invoke
<1>1. Pending = NoCall /\ Pending' = c /\ Applied' = (c.op \in {"write", "addnode"})
  BY DEF Enter, Pending, Applied
<1>2. \/ Applied' = TRUE /\ mem' = Table!Effect(mem, c)
      \/ Applied' = FALSE /\ mem' = mem
  <2>1. CASE c.op \in {"write", "addnode"} /\ mem' = Effect(mem, c)
    BY <1>1, <2>1, SameEffect
  <2>2. CASE c.op \in Removals /\ mem' = mem
    <3>1. c.op \notin {"write", "addnode"}
      BY <2>2 DEF Removals
    <3>2. Applied' = FALSE
      BY <3>1 DEF Enter, Applied
    <3> QED BY <2>2, <3>2
  <2> QED BY <2>1, <2>2
<1>3. c \in Table!Calls
  BY DEF Table!Calls, Calls, Table!Ops, Ops
<1> QED
  BY <1>1, <1>2, <1>3 DEF Table!Invoke, Table!NoCall, NoCall, Pending, Applied

\* A call that ends is a Return, with its effect if it is a removal.
LEMMA FinishReturns ==
  ASSUME Ordered, Busy, NEW ok \in BOOLEAN, Finish(ok)
  PROVE  Table!Return
<1>1. Pending = call /\ call \in Calls /\ call.op \in Ops
  BY DEF Busy, Pending, Ordered, Orderly, Calls
<1>2. Pending # NoCall
  BY <1>1, CallIsNotNoCall
<1>3. Applied = (call.op \notin Removals)
  BY <1>1 DEF Applied, Busy, Removals, Ops
<1>4. mem' = IF Applied THEN mem ELSE Table!Effect(mem, Pending)
  BY <1>1, <1>3, SameEffect DEF Finish, FinishMemory
<1>5. Pending' = NoCall /\ Applied' = FALSE
  BY DEF Finish, Pending, Applied
<1> QED
  BY <1>2, <1>4, <1>5 DEF Table!Return, Table!NoCall, NoCall, Pending, Applied

LEMMA ContinueStutters ==
  ASSUME Busy, NEW at \in {"first", "reconnect", "second"}, NEW rest, Continue(at, rest)
  PROVE  UNCHANGED Table!vars
BY DEF Busy, Continue, Table!vars

LEMMA TableInit == StoreInit => Table!Init
BY DEF StoreInit, Table!Init, Table!NoObjects, NoObjects, Table!NoCall, NoCall

LEMMA TableStep ==
  Ordered /\ [StoreNext]_storeVars => [Table!Next]_Table!vars
<1> SUFFICES ASSUME Ordered, [StoreNext]_storeVars PROVE [Table!Next]_Table!vars
  OBVIOUS
<1>1. CASE NewDraft \/ Abandon \/ Restart \/ UNCHANGED storeVars
  BY <1>1 DEF NewDraft, Abandon, Restart, storeVars, Table!vars
<1>2. CASE Write
  <2>1. PICK k \in DOMAIN mem \cup DOMAIN draft, v \in Vals :
          LET c == [op |-> "write", key |-> k, val |-> v,
                    items |-> IF k \in DOMAIN mem THEN {} ELSE draft[k]]
          IN Enter(c, "search") /\ mem' = Effect(mem, c)
    BY <1>2 DEF Write
  <2> DEFINE c == [op |-> "write", key |-> k, val |-> v,
                   items |-> IF k \in DOMAIN mem THEN {} ELSE draft[k]]
  <2>2. c \in Calls /\ c.op = "write"
    BY DEF Calls, Ops, Ordered, StoreTypeOK, IsStore
  <2>3. Enter(c, "search") /\ mem' = Effect(mem, c)
    BY <2>1
  <2> HIDE DEF c
  <2> QED BY <2>2, <2>3, EnterInvokes DEF Table!Next
<1>3. CASE AddNode
  <2>1. PICK k \in DOMAIN mem \cup DOMAIN draft, x \in Items :
          LET c == [op |-> "addnode", key |-> k, val |-> Void, items |-> {x}]
          IN Enter(c, "search") /\ mem' = Effect(mem, c)
    BY <1>3 DEF AddNode
  <2> DEFINE c == [op |-> "addnode", key |-> k, val |-> Void, items |-> {x}]
  <2>2. c \in Calls /\ c.op = "addnode"
    BY DEF Calls, Ops, Ordered, StoreTypeOK, IsStore
  <2>3. Enter(c, "search") /\ mem' = Effect(mem, c)
    BY <2>1
  <2> HIDE DEF c
  <2> QED BY <2>2, <2>3, EnterInvokes DEF Table!Next
<1>4. CASE Delete \/ RemoveNode \/ DeleteList
  <2>1. PICK c \in Calls, request \in Requests :
          /\ Enter(c, request)
          /\ \/ c.op = "delete" /\ request = "delete"
             \/ c.op = "removenode" /\ request = "minus" /\ c.key \in DOMAIN mem
             \/ c.op = "deletelist" /\ request = "clear"
          /\ UNCHANGED <<mem, draft>>
    BY <1>4, RemovalEnters
  <2> QED BY <2>1, EnterInvokes DEF Table!Next, Removals
<1>5. CASE Served \/ NotServed \/ Reconnect
  <2>1. Busy
    BY <1>5 DEF Served, NotServed, Reconnect, Busy
  <2>2. \/ \E ok \in BOOLEAN : Finish(ok)
        \/ \E at \in {"first", "reconnect", "second"} : \E rest : Continue(at, rest)
    BY <1>5 DEF Served, NotServed, Reconnect
  <2> QED BY <2>1, <2>2, FinishReturns, ContinueStutters DEF Table!Next
<1>6. CASE Crash
  BY <1>6 DEF Crash, Table!Next, Table!Crash, Table!NoObjects, NoObjects, Table!NoCall, NoCall
<1> QED
  BY <1>1, <1>2, <1>3, <1>4, <1>5, <1>6 DEF StoreNext

\* Whatever the directory answers, loses or refuses, and whenever the server
\* crashes, the tables in memory behave as IsnsTable says.
THEOREM StoreImplementsTable == StoreSpec => TableSpec
<1> QED
  BY OrderedInit, OrderedStep, TableInit, TableStep, PTL DEF StoreSpec, TableSpec, Table!Spec

(***************************************************************************)
(* The copies agree.                                                       *)
(***************************************************************************)

\* The table u has of k what t has.
Fixed(t, u, k) == (k \in DOMAIN u <=> k \in DOMAIN t) /\ (k \in DOMAIN t => u[k] = t[k])

\* An object that a step does not touch goes on agreeing.
LEMMA AgreesFixed ==
  ASSUME NEW k \in Keys, Fixed(mem, mem', k), Fixed(dir, dir', k), Fixed(draft, draft', k),
         Agrees(k)
  PROVE  Agrees(k)'
BY DEF Fixed, Agrees, ListIn

LEMMA EffectFixed ==
  ASSUME NEW t, IsStore(t), NEW c \in Calls, NEW k \in Keys \ {c.key}
  PROVE  Fixed(t, Effect(t, c), k)
BY EffectTable DEF Fixed

\* It is enough to look at the object of a call that begins.
LEMMA EnterCoherent ==
  ASSUME Ordered, Coherent, NEW c \in Calls, NEW request, Enter(c, request),
         \A k \in Keys \ {c.key} : Fixed(mem, mem', k) /\ Fixed(draft, draft', k),
         Agrees(c.key) => Underway(c.key)'
  PROVE  Coherent'
<1> SUFFICES ASSUME NEW k \in Keys \ doubt'
             PROVE  IF (Busy /\ call.key = k)' THEN Underway(k)' ELSE Agrees(k)'
  BY DEF Coherent
<1>1. Busy' /\ call' = c /\ doubt' = doubt /\ dir' = dir
  BY DEF Enter, Busy
<1>2. Agrees(k)
  BY <1>1 DEF Enter, Coherent, Busy
<1>3. CASE k = c.key
  BY <1>1, <1>2, <1>3
<1>4. CASE k # c.key
  BY <1>1, <1>2, <1>4, AgreesFixed DEF Fixed
<1> QED
  BY <1>3, <1>4

LEMMA WriteCoherent ==
  ASSUME Ordered, Coherent, Write PROVE Coherent'
<1>1. PICK k \in DOMAIN mem \cup DOMAIN draft, v \in Vals :
        LET c == [op |-> "write", key |-> k, val |-> v,
                  items |-> IF k \in DOMAIN mem THEN {} ELSE draft[k]]
        IN /\ Enter(c, "search")
           /\ mem' = Effect(mem, c)
           /\ draft' = IF k \in DOMAIN mem THEN draft ELSE NoDraft
  BY DEF Write
<1> DEFINE c == [op |-> "write", key |-> k, val |-> v,
                 items |-> IF k \in DOMAIN mem THEN {} ELSE draft[k]]
<1>2. /\ c \in Calls /\ c.op = "write" /\ c.key = k /\ c.val = v
      /\ c.items = IF k \in DOMAIN mem THEN {} ELSE draft[k]
  BY DEF Calls, Ops, Ordered, StoreTypeOK, IsStore
<1>3. /\ Enter(c, "search") /\ mem' = Effect(mem, c)
      /\ draft' = IF k \in DOMAIN mem THEN draft ELSE NoDraft
  BY <1>1
<1> HIDE DEF c
<1>4. IsStore(mem) /\ DOMAIN draft \cap DOMAIN mem = {} /\ \A i, j \in DOMAIN draft : i = j
  BY DEF Ordered, StoreTypeOK, Orderly
<1>5. \A i \in Keys \ {k} : Fixed(mem, mem', i)
  BY <1>2, <1>3, <1>4, EffectFixed
<1>6. \A i \in Keys \ {k} : Fixed(draft, draft', i)
  BY <1>3, <1>4 DEF Fixed, NoDraft
<1>7. Agrees(k) => Underway(k)'
  <2> SUFFICES ASSUME Agrees(k) PROVE Underway(k)'
    OBVIOUS
  <2>1. ListIn(dir, k) = IF k \in DOMAIN mem THEN mem[k].list ELSE c.items
    BY <1>1, <1>2, <1>4 DEF Agrees, ListIn
  <2>2. /\ k \in DOMAIN mem' /\ mem'[k].val = c.val
        /\ mem'[k].list = IF k \in DOMAIN mem THEN mem[k].list ELSE c.items
    BY <1>2, <1>3, <1>4, EffectObject
  <2>3. k \notin DOMAIN draft'
    BY <1>3, <1>4 DEF NoDraft
  <2>4. dir' = dir /\ call' = c
    BY <1>3 DEF Enter
  <2> QED BY <1>2, <2>1, <2>2, <2>3, <2>4 DEF Underway, ListIn
<1> QED
  BY <1>2, <1>3, <1>5, <1>6, <1>7, EnterCoherent

LEMMA AddNodeCoherent ==
  ASSUME Ordered, Coherent, AddNode PROVE Coherent'
<1>1. PICK k \in DOMAIN mem \cup DOMAIN draft, x \in Items :
        LET c == [op |-> "addnode", key |-> k, val |-> Void, items |-> {x}]
        IN /\ Enter(c, "search")
           /\ mem' = Effect(mem, c)
           /\ draft' = IF k \in DOMAIN mem THEN draft
                       ELSE [draft EXCEPT ![k] = @ \cup {x}]
  BY DEF AddNode
<1> DEFINE c == [op |-> "addnode", key |-> k, val |-> Void, items |-> {x}]
<1>2. c \in Calls /\ c.op = "addnode" /\ c.key = k /\ c.items = {x}
  BY DEF Calls, Ops, Ordered, StoreTypeOK, IsStore
<1>3. /\ Enter(c, "search") /\ mem' = Effect(mem, c)
      /\ draft' = IF k \in DOMAIN mem THEN draft ELSE [draft EXCEPT ![k] = @ \cup {x}]
  BY <1>1
<1> HIDE DEF c
<1>4. IsStore(mem) /\ DOMAIN draft \cap DOMAIN mem = {} /\ draft \in [DOMAIN draft -> SUBSET Items]
  BY DEF Ordered, StoreTypeOK, Orderly
<1>5. \A i \in Keys \ {k} : Fixed(mem, mem', i)
  BY <1>2, <1>3, <1>4, EffectFixed
<1>6. \A i \in Keys \ {k} : Fixed(draft, draft', i)
  BY <1>3, <1>4 DEF Fixed
<1>7. Agrees(k) => Underway(k)'
  <2> SUFFICES ASSUME Agrees(k) PROVE Underway(k)'
    OBVIOUS
  <2>1. /\ k \in DOMAIN mem' <=> k \in DOMAIN mem
        /\ k \in DOMAIN mem => /\ mem'[k].val = mem[k].val
                               /\ mem'[k].list = mem[k].list \cup {x}
    BY <1>2, <1>3, <1>4, EffectObject DEF Edited
  <2>2. dir' = dir /\ call' = c
    BY <1>3 DEF Enter
  <2>3. CASE k \in DOMAIN mem
    BY <1>2, <1>3, <1>4, <2>1, <2>2, <2>3 DEF Underway, SameFields, Agrees, ListIn, ListOf
  <2>4. CASE k \notin DOMAIN mem
    <3>1. k \in DOMAIN draft' /\ draft'[k] = draft[k] \cup {x}
      BY <1>1, <1>3, <1>4, <2>4
    <3> QED
      BY <1>1, <1>2, <2>1, <2>2, <2>4, <3>1 DEF Underway, SameFields, Agrees, ListIn, ListOf
  <2> QED BY <2>3, <2>4
<1> QED
  BY <1>2, <1>3, <1>5, <1>6, <1>7, EnterCoherent

LEMMA RemovalCoherent ==
  ASSUME Ordered, Coherent, Delete \/ RemoveNode \/ DeleteList PROVE Coherent'
<1>1. PICK c \in Calls, request \in Requests :
        /\ Enter(c, request)
        /\ \/ c.op = "delete" /\ request = "delete"
           \/ c.op = "removenode" /\ request = "minus" /\ c.key \in DOMAIN mem
           \/ /\ c.op = "deletelist" /\ request = "clear"
              /\ c.key \in DOMAIN mem \cup DOMAIN draft
        /\ UNCHANGED <<mem, draft>>
  BY RemovalEnters
<1>2. \A i \in Keys \ {c.key} : Fixed(mem, mem', i) /\ Fixed(draft, draft', i)
  BY <1>1 DEF Fixed
<1>3. DOMAIN draft \cap DOMAIN mem = {}
  BY DEF Ordered, Orderly
<1>4. Agrees(c.key) => Underway(c.key)'
  BY <1>1, <1>3 DEF Enter, Agrees, Underway, SameFields
<1> QED
  BY <1>1, <1>2, <1>4, EnterCoherent

\* What is under way stays so when the directory carries out a request of the
\* call, with or without its answer coming back.
LEMMA UnderwayStays ==
  ASSUME Ordered, Busy, Underway(call.key),
         \/ dir' = dir
         \/ Accepts(dir, Head(todo)) /\ dir' = Changed(dir, Head(todo)),
         UNCHANGED <<mem, draft, call>>
  PROVE  Underway(call.key)'
<1> DEFINE k == call.key
           request == Head(todo)
<1>0. IsStore(dir) /\ call \in Calls /\ Planned(todo) /\ request \in Requests
  BY RestPlanned DEF Ordered, Orderly, StoreTypeOK
<1>1. CASE dir' = dir
  BY <1>1 DEF Underway, SameFields, ListIn, ListOf
<1>2. CASE Accepts(dir, request) /\ dir' = Changed(dir, request)
  <2>1. CASE request \in {"search", "insert", "set", "delete"}
    <3>1. ListIn(dir', k) = ListIn(dir, k) \/ request = "delete"
      BY <1>0, <1>2, <2>1, ChangedEntry DEF ListIn
    <3>2. CASE call.op \in {"write", "delete"}
      BY <1>0, <3>1, <3>2, RequestKind DEF Underway
    <3>3. CASE call.op \notin {"write", "delete"}
      <4>1. request = "search"
        BY <1>0, <2>1, <3>3, RequestKind
      <4>2. dir' = dir
        BY <1>0, <1>2, <4>1, ChangedEntry
      <4> QED BY <4>2, <1>1
    <3> QED BY <3>2, <3>3
  <2>2. CASE request = "void"
    <3>1. call.op = "addnode" /\ k \notin DOMAIN dir
      BY <1>0, <1>2, <2>2, RequestKind DEF Accepts
    <3>2. ListIn(dir', k) = ListIn(dir, k)
      BY <1>0, <1>2, <2>2, ChangedEntry DEF ListIn
    <3>3. k \notin DOMAIN mem
      BY <3>1 DEF Underway, SameFields
    <3> QED BY <3>1, <3>2, <3>3 DEF Underway, ListOf
  <2>3. CASE request = "plus"
    <3>1. call.op = "addnode" /\ k \in DOMAIN dir
      BY <1>0, <1>2, <2>3, RequestKind DEF Accepts
    <3>2. /\ k \in DOMAIN dir' /\ dir'[k].val = dir[k].val
          /\ dir'[k].list = dir[k].list \cup call.items
      BY <1>0, <1>2, <2>3, <3>1, ChangedEntry
    <3> QED BY <3>1, <3>2 DEF Underway, SameFields, ListIn, ListOf
  <2>4. CASE request = "minus"
    <3>1. call.op = "removenode" /\ k \in DOMAIN dir
      BY <1>0, <2>4, RequestKind DEF Underway, SameFields
    <3>2. /\ k \in DOMAIN dir' /\ dir'[k].val = dir[k].val
          /\ dir'[k].list = dir[k].list \ call.items
      BY <1>0, <1>2, <2>4, <3>1, ChangedEntry
    <3> QED BY <3>1, <3>2 DEF Underway, SameFields
  <2>5. CASE request = "clear"
    <3>1. call.op = "deletelist"
      BY <1>0, <2>5, RequestKind
    <3>2. /\ k \in DOMAIN dir' <=> k \in DOMAIN dir
          /\ k \in DOMAIN dir' => dir'[k].val = dir[k].val
      BY <1>0, <1>2, <2>5, ChangedEntry
    <3> QED BY <3>1, <3>2 DEF Underway, SameFields
  <2> QED BY <1>0, <2>1, <2>2, <2>3, <2>4, <2>5 DEF Requests
<1> QED
  BY <1>1, <1>2

\* The end of a call for the other objects, and for the memory part of its own.
LEMMA FinishFixed ==
  ASSUME Ordered, Busy, FinishMemory, NEW k \in Keys \ {call.key}
  PROVE  Fixed(mem, mem', k) /\ Fixed(draft, draft', k)
<1>1. IsStore(mem) /\ call \in Calls
  BY DEF Ordered, Orderly, StoreTypeOK
<1>2. CASE call.op \in Removals
  BY <1>1, <1>2, EffectFixed DEF FinishMemory, Fixed
<1>3. CASE call.op \notin Removals
  BY <1>3 DEF FinishMemory, Fixed
<1> QED
  BY <1>2, <1>3

\* A call that returns an error leaves its own object in doubt.
LEMMA ErrorCoherent ==
  ASSUME Ordered, Coherent, Busy, Finish(FALSE),
         \A k \in Keys \ {call.key} : Fixed(dir, dir', k)
  PROVE  Coherent'
<1> SUFFICES ASSUME NEW k \in Keys \ doubt'
             PROVE  IF (Busy /\ call.key = k)' THEN Underway(k)' ELSE Agrees(k)'
  BY DEF Coherent
<1>1. ~Busy' /\ k # call.key /\ k \notin doubt
  BY DEF Finish, Busy
<1>2. Agrees(k)
  BY <1>1 DEF Coherent, Busy
<1> QED
  BY <1>1, <1>2, FinishFixed, AgreesFixed DEF Finish

\* A call that goes on leaves the other objects alone.
LEMMA ContinueCoherent ==
  ASSUME Ordered, Coherent, Busy, NEW at \in {"first", "reconnect", "second"}, NEW rest,
         Continue(at, rest),
         \/ dir' = dir
         \/ Accepts(dir, Head(todo)) /\ dir' = Changed(dir, Head(todo))
  PROVE  Coherent'
<1> SUFFICES ASSUME NEW k \in Keys \ doubt'
             PROVE  IF (Busy /\ call.key = k)' THEN Underway(k)' ELSE Agrees(k)'
  BY DEF Coherent
<1>1. Busy' /\ UNCHANGED <<mem, draft, call, doubt>>
  BY DEF Continue, Busy
<1>2. IsStore(dir) /\ call \in Calls /\ Head(todo) \in Requests
  BY RestPlanned DEF Ordered, Orderly, StoreTypeOK
<1>3. CASE k = call.key
  BY <1>1, <1>3, UnderwayStays DEF Coherent, Busy
<1>4. CASE k # call.key
  <2>1. Agrees(k)
    BY <1>1, <1>4 DEF Coherent, Busy
  <2>2. Fixed(dir, dir', k) /\ Fixed(mem, mem', k) /\ Fixed(draft, draft', k)
    BY <1>1, <1>2, <1>4, ChangedTable DEF Fixed
  <2> QED BY <1>1, <1>4, <2>1, <2>2, AgreesFixed
<1> QED
  BY <1>3, <1>4

\* The last answer of a call: both copies of its object have the change, in a
\* delete even if they differed before.
LEMMA AnswerAgrees ==
  ASSUME Ordered, Busy, Finish(TRUE), Accepts(dir, Head(todo)),
         dir' = Changed(dir, Head(todo)), Head(todo) \notin {"search", "void"},
         call.op = "delete" \/ Underway(call.key)
  PROVE  Agrees(call.key)'
<1> SUFFICES ASSUME call' = call, NEW k, k = call.key PROVE Agrees(k)'
  BY DEF Finish
<1> DEFINE request == Head(todo)
<1>0. /\ IsStore(dir) /\ IsStore(mem) /\ call \in Calls /\ Planned(todo)
      /\ request \in Requests /\ DOMAIN draft \cap DOMAIN mem = {}
      /\ IsStore(dir') /\ IsStore(mem') /\ k \in Keys
  <2>1. Ordered' => IsStore(mem')
    BY DEF Ordered, StoreTypeOK
  <2>2. /\ IsStore(dir) /\ IsStore(mem) /\ call \in Calls /\ Planned(todo)
        /\ request \in Requests /\ DOMAIN draft \cap DOMAIN mem = {}
    BY RestPlanned DEF Ordered, Orderly, StoreTypeOK
  <2>3. IsStore(dir')
    BY <2>2, ChangedTable
  <2>4. IsStore(mem')
    BY <2>2, EffectTable DEF Finish, FinishMemory
  <2>5. k \in Keys
    BY <2>2 DEF Calls
  <2> QED BY <2>2, <2>3, <2>4, <2>5
<1>1. \A i : i \in DOMAIN mem' /\ i \in DOMAIN dir' /\ mem'[i].val = dir'[i].val
             /\ mem'[i].list = dir'[i].list => mem'[i] = dir'[i]
  BY <1>0 DEF IsStore, Objects
<1>2. CASE request \in {"insert", "set"}
  <2>1. call.op = "write"
    BY <1>0, <1>2, RequestKind
  <2>2. mem' = mem /\ draft' = draft
    BY <2>1 DEF Finish, FinishMemory, Removals
  <2>3. k \in DOMAIN dir' /\ dir'[k].val = call.val /\ dir'[k].list = ListIn(dir, k)
    BY <1>0, <1>2, ChangedEntry
  <2> QED BY <1>1, <2>1, <2>2, <2>3 DEF Underway, Agrees
<1>3. CASE request = "plus"
  <2>1. call.op = "addnode" /\ k \in DOMAIN dir
    BY <1>0, <1>3, RequestKind DEF Accepts
  <2>2. mem' = mem /\ draft' = draft
    BY <2>1 DEF Finish, FinishMemory, Removals
  <2>3. /\ k \in DOMAIN dir' /\ dir'[k].val = dir[k].val
        /\ dir'[k].list = ListIn(dir, k) \cup call.items
    BY <1>0, <1>3, <2>1, ChangedEntry DEF ListIn
  <2>4. CASE k \in DOMAIN mem
    BY <1>0, <1>1, <2>1, <2>2, <2>3, <2>4 DEF Underway, SameFields, ListOf, Agrees
  <2>5. CASE k \notin DOMAIN mem
    BY <2>1, <2>2, <2>3, <2>5 DEF Underway, ListOf, Agrees, ListIn
  <2> QED BY <2>4, <2>5
<1>4. CASE request = "minus"
  <2>1. call.op = "removenode" /\ k \in DOMAIN mem /\ k \in DOMAIN dir
    BY <1>0, <1>4, RequestKind DEF Underway, SameFields
  <2>2. k \in DOMAIN mem' /\ mem'[k].val = mem[k].val /\ mem'[k].list = mem[k].list \ call.items
    <3>1. mem' = Effect(mem, call)
      BY <2>1 DEF Finish, FinishMemory, Removals
    <3>2. \A s : Edited(s, call) = s \ call.items
      BY <2>1 DEF Edited
    <3> QED BY <1>0, <2>1, <3>1, <3>2, EffectObject
  <2>3. k \in DOMAIN dir' /\ dir'[k].val = dir[k].val /\ dir'[k].list = dir[k].list \ call.items
    BY <1>0, <1>4, <2>1, ChangedEntry
  <2>4. k \notin DOMAIN draft'
    BY <1>0, <2>1 DEF Finish, FinishMemory
  <2> QED BY <1>1, <2>1, <2>2, <2>3, <2>4 DEF Underway, SameFields, Agrees
<1>5. CASE request = "clear"
  <2>1. call.op = "deletelist" /\ k \in DOMAIN dir
    BY <1>0, <1>5, RequestKind DEF Accepts
  <2>2. /\ k \in DOMAIN mem' <=> k \in DOMAIN mem
        /\ k \in DOMAIN mem => mem'[k].val = mem[k].val /\ mem'[k].list = {}
    <3>1. mem' = Effect(mem, call)
      BY <2>1 DEF Finish, FinishMemory, Removals
    <3>2. \A s : Edited(s, call) = {}
      BY <2>1 DEF Edited
    <3> QED BY <1>0, <2>1, <3>1, <3>2, EffectObject
  <2>3. k \in DOMAIN dir' /\ dir'[k].val = dir[k].val /\ dir'[k].list = {}
    BY <1>0, <1>5, <2>1, ChangedEntry
  <2>4. /\ k \in DOMAIN draft' <=> k \in DOMAIN draft
        /\ k \in DOMAIN draft' => draft'[k] = {}
    BY <2>1 DEF Finish, FinishMemory, Removals
  <2>5. CASE k \in DOMAIN mem
    BY <1>0, <1>1, <2>1, <2>2, <2>3, <2>4, <2>5 DEF Underway, SameFields, Agrees
  <2>6. CASE k \notin DOMAIN mem
    BY <2>1, <2>3, <2>4, <2>6 DEF Underway, Agrees, ListIn
  <2> QED BY <2>5, <2>6
<1>6. CASE request = "delete"
  <2>1. call.op = "delete"
    BY <1>0, <1>6, RequestKind
  <2>2. k \notin DOMAIN mem'
    BY <1>0, <2>1, EffectObject DEF Finish, FinishMemory, Removals
  <2>3. k \notin DOMAIN dir'
    BY <1>0, <1>6, ChangedEntry
  <2>4. k \in DOMAIN draft' => draft'[k] = {}
    BY <2>1 DEF Finish, FinishMemory, Removals
  <2> QED BY <2>2, <2>3, <2>4 DEF Agrees, ListIn
<1> QED
  BY <1>0, <1>2, <1>3, <1>4, <1>5, <1>6 DEF Requests

LEMMA RequestCoherent ==
  ASSUME Ordered, Coherent, Served \/ NotServed \/ Reconnect PROVE Coherent'
<1>0. /\ Busy /\ IsStore(dir) /\ call \in Calls /\ Planned(todo) /\ Head(todo) \in Requests
  BY RestPlanned DEF Served, NotServed, Reconnect, Busy, Ordered, Orderly, StoreTypeOK
<1>1. dir' = dir \/ dir' = Changed(dir, Head(todo)) => \A k \in Keys \ {call.key} : Fixed(dir, dir', k)
  BY <1>0, ChangedTable DEF Fixed
<1>2. CASE Served
  <2>1. Accepts(dir, Head(todo)) /\ dir' = Changed(dir, Head(todo))
    BY <1>2 DEF Served
  <2>2. CASE Rest(Head(todo)) # <<>>
    BY <1>0, <1>2, <2>1, <2>2, ContinueCoherent DEF Served
  <2>3. CASE Rest(Head(todo)) = <<>>
    <3> SUFFICES ASSUME NEW k \in Keys \ doubt'
                 PROVE  IF (Busy /\ call.key = k)' THEN Underway(k)' ELSE Agrees(k)'
      BY DEF Coherent
    <3>1. Finish(TRUE)
      BY <1>2, <2>3 DEF Served
    <3>2. ~Busy'
      BY <3>1 DEF Finish, Busy
    <3>3. Head(todo) \notin {"search", "void"}
      BY <1>0, <2>3, LastRequest
    <3>4. k \in doubt => call.op = "delete" /\ k = call.key
      BY <3>1 DEF Finish
    <3>5. CASE k = call.key
      <4>1. call.op = "delete" \/ Underway(k)
        BY <1>0, <3>4, <3>5 DEF Coherent, Busy
      <4>2. Agrees(call.key)'
        BY <1>0, <2>1, <3>1, <3>3, <3>5, <4>1, AnswerAgrees
      <4>3. call.key' = call.key
        BY <3>1 DEF Finish
      <4> QED BY <3>2, <3>5, <4>2, <4>3
    <3>6. CASE k # call.key
      <4>1. Agrees(k)
        BY <1>0, <3>4, <3>6 DEF Coherent, Busy
      <4> QED BY <1>0, <1>1, <2>1, <3>1, <3>2, <3>6, <4>1, FinishFixed, AgreesFixed DEF Finish
    <3> QED BY <3>5, <3>6
  <2> QED BY <2>2, <2>3
<1>3. CASE NotServed
  BY <1>0, <1>1, <1>3, ContinueCoherent, ErrorCoherent DEF NotServed
<1>4. CASE Reconnect
  BY <1>0, <1>1, <1>4, ContinueCoherent, ErrorCoherent DEF Reconnect
<1> QED
  BY <1>2, <1>3, <1>4

LEMMA CoherentInit == StoreInit => Coherent
BY DEF StoreInit, Coherent, Busy, Agrees, NoObjects, NoDraft

LEMMA CoherentStep == Ordered /\ Coherent /\ [StoreNext]_storeVars => Coherent'
<1> SUFFICES ASSUME Ordered, Coherent, [StoreNext]_storeVars PROVE Coherent'
  OBVIOUS
<1>1. CASE NewDraft
  <2> SUFFICES ASSUME NEW k \in Keys \ doubt' PROVE Agrees(k)'
    BY <1>1 DEF Coherent, NewDraft, Busy
  <2>1. Agrees(k)
    BY <1>1 DEF Coherent, NewDraft, Busy
  <2> QED BY <1>1, <2>1 DEF NewDraft, Agrees, ListIn, NoDraft
<1>2. CASE Abandon
  <2> SUFFICES ASSUME NEW k \in Keys \ doubt' PROVE Agrees(k)'
    BY <1>2 DEF Coherent, Abandon, Busy
  <2>1. Agrees(k) /\ k \notin DOMAIN draft
    BY <1>2 DEF Coherent, Abandon, Busy
  <2> QED BY <1>2, <2>1 DEF Abandon, Agrees, NoDraft
<1>3. CASE Write
  BY <1>3, WriteCoherent
<1>4. CASE AddNode
  BY <1>4, AddNodeCoherent
<1>5. CASE Delete \/ RemoveNode \/ DeleteList
  BY <1>5, RemovalCoherent
<1>6. CASE Served \/ NotServed \/ Reconnect
  BY <1>6, RequestCoherent
<1>7. CASE Crash
  BY <1>7 DEF Crash, Coherent
<1>8. CASE Restart
  <2> SUFFICES ASSUME NEW k \in Keys \ doubt' PROVE Agrees(k)'
    BY <1>8 DEF Coherent, Restart, Busy
  <2> QED BY <1>8 DEF Restart, Ordered, Orderly, Agrees, NoObjects, NoDraft
<1>9. CASE UNCHANGED storeVars
  BY <1>9 DEF storeVars, Coherent, Busy, Underway, Agrees, SameFields, ListIn, ListOf
<1> QED
  BY <1>1, <1>2, <1>3, <1>4, <1>5, <1>6, <1>7, <1>8, <1>9 DEF StoreNext

\* Between two calls memory and directory have the same of every object that
\* no failed call, given up draft or restart has put in doubt.
THEOREM CopiesAgreeAlways == StoreSpec => []CopiesAgree
<1>1. Coherent => CopiesAgree
  BY DEF Coherent, CopiesAgree, Busy
<1> QED
  BY <1>1, OrderedInit, OrderedStep, CoherentInit, CoherentStep, PTL DEF StoreSpec

(***************************************************************************)
(* Successful calls.                                                       *)
(***************************************************************************)

\* The strengthening of Acknowledged: only a call that has returned is one
\* that was successful.
Replied == answer = "ok" => pc = "idle" /\ Acknowledged

\* The last answer of a call tells that the directory has what it asked for.
LEMMA AnswerReplied ==
  ASSUME Ordered, Busy, Finish(TRUE), Accepts(dir, Head(todo)),
         dir' = Changed(dir, Head(todo)), Head(todo) \notin {"search", "void"}
  PROVE  Replied'
<1> SUFFICES ASSUME call' = call, pc' = "idle", NEW k, k = call.key
             PROVE  Acknowledged'
  BY DEF Finish, Replied
<1> DEFINE request == Head(todo)
<1>0. IsStore(dir) /\ call \in Calls /\ Planned(todo) /\ request \in Requests
  BY RestPlanned DEF Ordered, Orderly, StoreTypeOK
<1>1. CASE request \in {"insert", "set"}
  <2>1. call.op = "write"
    BY <1>0, <1>1, RequestKind
  <2>2. k \in DOMAIN dir' /\ dir'[k].val = call.val
    BY <1>0, <1>1, ChangedEntry
  <2> QED BY <2>1, <2>2 DEF Acknowledged
<1>2. CASE request = "plus"
  <2>1. call.op = "addnode" /\ k \in DOMAIN dir
    BY <1>0, <1>2, RequestKind DEF Accepts
  <2>2. k \in DOMAIN dir' /\ dir'[k].list = dir[k].list \cup call.items
    BY <1>0, <1>2, <2>1, ChangedEntry
  <2> QED BY <2>1, <2>2 DEF Acknowledged, ListIn
<1>3. CASE request = "minus"
  <2>1. call.op = "removenode" /\ k \in DOMAIN dir
    BY <1>0, <1>3, RequestKind DEF Accepts
  <2>2. k \in DOMAIN dir' /\ dir'[k].list = dir[k].list \ call.items
    BY <1>0, <1>3, <2>1, ChangedEntry
  <2> QED BY <2>1, <2>2 DEF Acknowledged, ListIn
<1>4. CASE request = "clear"
  <2>1. call.op = "deletelist" /\ k \in DOMAIN dir
    BY <1>0, <1>4, RequestKind DEF Accepts
  <2>2. k \in DOMAIN dir' /\ dir'[k].list = {}
    BY <1>0, <1>4, <2>1, ChangedEntry
  <2> QED BY <2>1, <2>2 DEF Acknowledged, ListIn
<1>5. CASE request = "delete"
  <2>1. call.op = "delete"
    BY <1>0, <1>5, RequestKind
  <2>2. k \notin DOMAIN dir'
    BY <1>0, <1>5, ChangedEntry
  <2> QED BY <2>1, <2>2 DEF Acknowledged
<1> QED
  BY <1>0, <1>1, <1>2, <1>3, <1>4, <1>5 DEF Requests

LEMMA RepliedStep == Ordered /\ Replied /\ [StoreNext]_storeVars => Replied'
<1> SUFFICES ASSUME Ordered, Replied, [StoreNext]_storeVars PROVE Replied'
  OBVIOUS
<1>1. CASE NewDraft \/ Abandon \/ UNCHANGED storeVars
  <2>1. UNCHANGED <<answer, pc, call, dir>>
    BY <1>1 DEF NewDraft, Abandon, storeVars
  <2> QED BY <2>1 DEF Replied, Acknowledged, ListIn
<1>2. CASE Write \/ AddNode \/ Delete \/ RemoveNode \/ DeleteList
  <2>1. answer' = "none"
    BY <1>2 DEF Write, AddNode, Delete, RemoveNode, DeleteList, Enter
  <2> QED BY <2>1 DEF Replied
<1>3. CASE (Served \/ NotServed \/ Reconnect) /\ answer' # "ok"
  BY <1>3 DEF Replied
<1>4. CASE (Served \/ NotServed \/ Reconnect) /\ answer' = "ok"
  <2>1. Busy /\ answer # "ok" /\ Planned(todo)
    BY <1>4 DEF Served, NotServed, Reconnect, Busy, Replied, Ordered, Orderly
  <2>2. Served /\ Rest(Head(todo)) = <<>>
    BY <1>4, <2>1 DEF Served, NotServed, Reconnect, Continue, Finish
  <2>3. Head(todo) \notin {"search", "void"}
    BY <2>1, <2>2, LastRequest
  <2> QED BY <2>1, <2>2, <2>3, AnswerReplied DEF Served
<1>5. CASE Crash
  BY <1>5 DEF Crash, Replied
<1>6. CASE Restart
  BY <1>6 DEF Restart, Replied
<1> QED
  BY <1>1, <1>2, <1>3, <1>4, <1>5, <1>6 DEF StoreNext

\* After a call that reports success the directory has what it asked for, even
\* of an object that was out of step before.
THEOREM AcknowledgedAlways == StoreSpec => []Acknowledged
<1>1. StoreInit => Replied
  BY DEF StoreInit, Replied
<1>2. Replied => Acknowledged
  BY DEF Replied, Acknowledged
<1> QED
  BY <1>1, <1>2, OrderedInit, OrderedStep, RepliedStep, PTL DEF StoreSpec
=============================================================================
