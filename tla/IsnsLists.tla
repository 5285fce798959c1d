----------------------------- MODULE IsnsLists -----------------------------
(***************************************************************************)
(* The lists of objects (iSNSdbMem.c, iSNSList.c) and the tables           *)
(* (iSNSMemData.c) as they lie in memory: doubly linked circular queues    *)
(* (DTQ of sys/list.h) of cells that malloc hands out and takes back.      *)
(*                                                                         *)
(* The version of a list counts its changes.  A cell carries the version   *)
(* at which it was last handed out, and what the code asks of it is only   *)
(* whether that is still the version of the list: `fresh' is the set of    *)
(* the cells for which it is.  Nothing reads a cell that is free, so that  *)
(* what it holds is left out: it counts as zeroed, as the code does with   *)
(* those of a list before it frees them, but not with those of a table.    *)
(***************************************************************************)
EXTENDS Integers, Sequences, SequencesExt, FiniteSets

CONSTANTS
  Cells,      \* the cells that malloc can hand out
  Datas,      \* what an element holds, and the keys of the table
  List, Table,  \* the heads of one list and of one table
  None,       \* no data
  Null, NotExist  \* no cell, and ISNS_INVALID_PTR_NOTEXIST

ASSUME CellsAssumption == IsFiniteSet(Cells)
ASSUME DatasAssumption == Datas \subseteq Nat \ {0} /\ None \notin Datas
ASSUME HeadsAssumption ==
  /\ Cardinality({List, Table, Null, NotExist}) = 4
  /\ {List, Table, Null, NotExist} \cap Cells = {}

Heads == {List, Table}
Pointers == Cells \cup Heads \cup {Null}

VARIABLES
  chain,   \* the pointers pstNext and pstPrev of every cell and head
  data,    \* the data or key of a cell
  live,    \* the cells that are allocated
  fresh,   \* the cells whose version is that of the list
  walk,    \* the walk over the list that a handler is in
  answer   \* the question just asked of the list or the table, and its answer

mem == <<chain, data, live, fresh>>
vars == <<mem, walk, answer>>

NoAnswer == <<>>
NoWalk == [kind |-> "none", at |-> Null, taken |-> None]

TypeOK ==
  /\ chain \in [next : [Cells \cup Heads -> Pointers],
                prev : [Cells \cup Heads -> Pointers]]
  /\ data \in [Cells -> Datas \cup {None}]
  /\ live \subseteq Cells /\ fresh \subseteq live
  /\ walk \in [kind : {"none", "drain", "scan", "first"},
               at : Cells \cup {Null, NotExist},
               taken : Datas \cup {None}]
  /\ answer \in {NoAnswer} \cup
       [of : Heads, after : Datas \cup {0}, is : Datas \cup {None}]

Init ==
  /\ chain = LET own == [x \in Cells \cup Heads |->
                           IF x \in Heads THEN x ELSE Null]
             IN [next |-> own, prev |-> own]
  /\ data = [x \in Cells |-> None]
  /\ live = {} /\ fresh = {}
  /\ walk = NoWalk /\ answer = NoAnswer

(***************************************************************************)
(* The queue.                                                              *)
(***************************************************************************)

\* Mutant: the element behind the new one still points back past it.
DTQ_AddBeforeOneWay(c, p, x) ==
  [next |-> [c.next EXCEPT ![x] = p, ![c.prev[p]] = x],
   prev |-> [c.prev EXCEPT ![x] = c.prev[p]]]

DTQ_AddBefore(c, p, x) ==
  LET set == [next |-> [c.next EXCEPT ![x] = p],
              prev |-> [c.prev EXCEPT ![x] = c.prev[p]]]
  IN  [next |-> [set.next EXCEPT ![set.prev[x]] = x],
       prev |-> [set.prev EXCEPT ![set.next[x]] = x]]

DTQ_AddTail(c, h, x) == DTQ_AddBefore(c, h, x)

DTQ_Del(c, x) ==
  [next |-> [c.next EXCEPT ![c.prev[x]] = c.next[x]],
   prev |-> [c.prev EXCEPT ![c.next[x]] = c.prev[x]]]

\* DTQ_ENTRY_FIRST and DTQ_ENTRY_NEXT.
Following(h, x) == IF chain.next[x] = h THEN Null ELSE chain.next[x]

\* The pointers one meets going from x in one direction, up to the first that
\* is not a cell.
Path(dir, x) ==
  LET at[k \in 0 .. Cardinality(Cells)] ==
        IF k = 0 THEN x
        ELSE LET y == at[k - 1] IN IF y \in Cells THEN dir[y] ELSE y
  IN  at

\* The cells among them; the first is x itself.
Along(dir, x) ==
  LET path == Path(dir, x)
      met  == {k \in 1 .. Cardinality(Cells) : path[k - 1] \in Cells}
  IN  [k \in 1 .. Cardinality(met) |-> path[k - 1]]

\* DTQ_FOREACH_ENTRY: the cells behind the head h.
Forward(h) == Along(chain.next, chain.next[h])
Backward(h) == Along(chain.prev, chain.prev[h])

\* The first cell behind h that is one of the given cells, Null if none is.
FirstOf(h, cells) ==
  LET s    == Forward(h)
      hits == {i \in DOMAIN s : s[i] \in cells}
  IN  IF hits = {} THEN Null ELSE s[Min(hits)]

Holding(values) == {x \in Cells : data[x] \in values}
From(k) == {v \in Datas : v >= k}

\* malloc, and free, after which the content of a cell counts as zeroed.
Allocate(x, v) == data' = [data EXCEPT ![x] = v] /\ live' = live \cup {x}

Freed(c, cells) ==
  LET zero(f) == [x \in DOMAIN f |-> IF x \in cells THEN Null ELSE f[x]]
  IN  [next |-> zero(c.next), prev |-> zero(c.prev)]

Free(c, cells) ==
  /\ chain' = Freed(c, cells)
  /\ data' = [x \in Cells |-> IF x \in cells THEN None ELSE data[x]]
  /\ live' = live \ cells

(***************************************************************************)
(* A list.                                                                 *)
(***************************************************************************)

FindNode(v) == FirstOf(List, Holding({v}))

\* Mutant: a cell that has an older version is taken for a removed one.
GetNextNodeFresh(x) ==
  IF x = Null \/ x \in fresh
  THEN Following(List, IF x = Null THEN List ELSE x) ELSE Null

\* ISNS_MEM_List_GetNext: a cell that is not fresh is looked up by its own
\* data, and only that it is found counts.
GetNextNode(x) ==
  IF x = Null \/ x \in fresh
  THEN Following(List, IF x = Null THEN List ELSE x)
  ELSE IF FindNode(data[x]) = Null THEN Null ELSE Following(List, x)

\* Mutant: the removal does not count as a change of the list.
UnlinkUncounted(x) == Free(DTQ_Del(chain, x), {x}) /\ fresh' = fresh

\* ISNS_MEM_List_RemoveNode.
Unlink(x) == Free(DTQ_Del(chain, x), {x}) /\ fresh' = {}

\* ISNS_MEM_List_Delete: the cells are freed, the head is initialised.
DeleteList ==
  /\ Free([next |-> [chain.next EXCEPT ![List] = List],
           prev |-> [chain.prev EXCEPT ![List] = List]],
          Range(Forward(List)))
  /\ fresh' = {}

\* A handler adds an element at the end; without memory the list only gets a
\* new version.
AddNode ==
  /\ walk = NoWalk
  /\ \E v \in Datas, x \in Cells \ live :
       /\ Allocate(x, v) /\ fresh' = {x}
       /\ chain' = DTQ_AddTail(chain, List, x)
  /\ UNCHANGED walk /\ answer' = NoAnswer

AddNodeFails ==
  /\ walk = NoWalk /\ live = Cells /\ fresh' = {}
  /\ UNCHANGED <<chain, data, live, walk>> /\ answer' = NoAnswer

\* A handler looks an element up and removes it.
RemoveNode ==
  /\ walk = NoWalk
  /\ \E v \in Datas : FindNode(v) # Null /\ Unlink(FindNode(v))
  /\ UNCHANGED walk /\ answer' = NoAnswer

\* A request names an element and asks for the one after it.
AskNext ==
  /\ walk = NoWalk
  /\ \E v \in Datas : LET x == FindNode(v) IN
       /\ x # Null
       /\ LET y == GetNextNode(x) IN
            /\ answer' = [of |-> List, after |-> v,
                          is |-> IF y = Null THEN None ELSE data[y]]
            /\ fresh' = fresh \cup ({y} \ {Null})
  /\ UNCHANGED <<chain, data, live, walk>>

(***************************************************************************)
(* The walks over a list, one step of the loop after another.              *)
(***************************************************************************)

Step(at, taken) == walk' = [walk EXCEPT !.at = at, !.taken = taken]

StartWalk ==
  /\ walk = NoWalk
  /\ \E k \in {"drain", "scan", "first"} : walk' = [NoWalk EXCEPT !.kind = k]
  /\ UNCHANGED mem /\ answer' = NoAnswer

\* GetNextData finds an element to copy.
HasNextData ==
  /\ walk.at # NotExist /\ Following(List, List) # Null
  /\ walk.at # Null => walk.at \in live

\* ISNS_MEM_List_NextData copies the data of the cell stored by the call
\* before, and stores the cell after it.
GetNextData ==
  /\ walk.kind = "drain" /\ walk.taken = None /\ HasNextData
  /\ LET x == IF walk.at = Null THEN Following(List, List) ELSE walk.at
         y == Following(List, x)
     IN  /\ Step(IF y = Null THEN NotExist ELSE y, data[x])
         /\ fresh' = fresh \cup ({y} \ {Null})
  /\ UNCHANGED <<chain, data, live>> /\ answer' = NoAnswer

\* The body has deregistered the object that the element names, and with it
\* the element, or has failed to.
DrainBody ==
  /\ walk.kind = "drain" /\ walk.taken # None
  /\ Step(walk.at, None)
  /\ IF FindNode(walk.taken) = Null THEN UNCHANGED mem
     ELSE Unlink(FindNode(walk.taken)) \/ UNCHANGED mem
  /\ answer' = NoAnswer

\* ISNSdbRemoveAttrEntityEntry deletes the list after the loop: it ended
\* behind the last element, or at the failure of a body.
EndDrain ==
  /\ walk.kind = "drain" /\ (walk.taken = None => ~HasNextData)
  /\ DeleteList
  /\ walk' = NoWalk /\ answer' = NoAnswer

\* A loop that only looks, with GetNextNode.
ScanNext ==
  /\ walk.kind = "scan"
  /\ LET y == GetNextNode(walk.at) IN
       /\ y # Null
       /\ Step(y, data[y]) /\ fresh' = fresh \cup {y}
  /\ UNCHANGED <<chain, data, live>> /\ answer' = NoAnswer

\* It ends behind the last element, or where its body breaks it off.
EndScan ==
  /\ walk.kind = "scan"
  /\ walk.at # Null \/ GetNextNode(walk.at) = Null
  /\ walk' = NoWalk /\ UNCHANGED mem /\ answer' = NoAnswer

\* SNSdbRemoveDD_Entry takes the first member until there is none.
FirstNext ==
  /\ walk.kind = "first" /\ walk.taken = None
  /\ LET y == GetNextNode(Null) IN
       /\ y # Null
       /\ Step(y, data[y]) /\ fresh' = fresh \cup {y}
  /\ UNCHANGED <<chain, data, live>> /\ answer' = NoAnswer

FirstBody ==
  /\ walk.kind = "first" /\ walk.taken # None
  /\ Unlink(walk.at) /\ Step(Null, None)
  /\ answer' = NoAnswer

\* The list is deleted with the DD, or is left at the failure of a body.
EndFirst ==
  /\ walk.kind = "first"
  /\ \/ walk.taken = None /\ GetNextNode(Null) = Null /\ DeleteList
     \/ walk.taken # None /\ UNCHANGED mem
  /\ walk' = NoWalk /\ answer' = NoAnswer

(***************************************************************************)
(* A table, which its handlers also change while they walk over a list.    *)
(***************************************************************************)

\* ISNS_MEMDATA_Write covers the value of the key or inserts the key before
\* the first one that is not smaller.
Write ==
  /\ \E k \in Datas : LET p == FirstOf(Table, Holding(From(k))) IN
       IF p # Null /\ data[p] = k THEN UNCHANGED mem
       ELSE \E x \in Cells \ live :
              /\ Allocate(x, k) /\ fresh' = fresh
              /\ chain' = IF p = Null THEN DTQ_AddTail(chain, Table, x)
                          ELSE DTQ_AddBefore(chain, p, x)
  /\ UNCHANGED walk /\ answer' = NoAnswer

\* ISNS_MEMDATA_Delete.
Delete ==
  /\ \E k \in Datas : LET x == FirstOf(Table, Holding({k})) IN
       x # Null /\ Free(DTQ_Del(chain, x), {x})
  /\ UNCHANGED <<fresh, walk>> /\ answer' = NoAnswer

\* ISNS_MEMDATA_GetNext: the first key that is greater, from the start for a
\* key that is NULL (0).
GetNext ==
  /\ \E k \in Datas \cup {0} :
       LET x == IF k = 0 THEN Following(Table, Table)
                ELSE FirstOf(Table, Holding(From(k + 1)))
       IN  answer' = [of |-> Table, after |-> k,
                      is |-> IF x = Null THEN None ELSE data[x]]
  /\ UNCHANGED <<mem, walk>>

Walks ==
  \/ StartWalk
  \/ GetNextData \/ DrainBody \/ EndDrain
  \/ ScanNext \/ EndScan
  \/ FirstNext \/ FirstBody \/ EndFirst

Next ==
  \/ AddNode \/ AddNodeFails \/ RemoveNode \/ AskNext
  \/ Walks
  \/ Write \/ Delete \/ GetNext

Spec == Init /\ [][Next]_vars

(***************************************************************************)
(* Properties.                                                             *)
(***************************************************************************)

Reversed(s) == [i \in 1 .. Len(s) |-> s[Len(s) + 1 - i]]

\* Every cell is in one of the queues, once, or free.
NoneLost ==
  /\ Len(Forward(List)) + Len(Forward(Table)) = Cardinality(live)
  /\ Range(Forward(List)) \cup Range(Forward(Table)) = live

\* The cell at which a walk will go on, and every fresh cell, is in the list.
WalkOnList == fresh \cup ({walk.at} \cap Cells) \subseteq Range(Forward(List))

\* Both queues read backwards as forwards, no cell is lost, in both of them or
\* twice in one, and none is used after free: whatever the body of a walk has
\* removed, the walk goes on at a cell that is in the list.
Linked ==
  /\ \A h \in Heads : Backward(h) = Reversed(Forward(h))
  /\ NoneLost
  /\ WalkOnList

Values(cells) == [i \in 1 .. Len(cells) |-> data[cells[i]]]

\* What the walk has yet to take.
ToDo ==
  CASE walk.kind = "none" \/ walk.at = NotExist -> <<>>
    [] walk.kind # "none" /\ walk.at = Null -> Values(Forward(List))
    [] walk.kind = "drain" /\ walk.at \in Cells ->
         Values(Along(chain.next, walk.at))
    [] walk.kind # "drain" /\ walk.at \in Cells ->
         Values(Along(chain.next, chain.next[walk.at]))

Chain == INSTANCE IsnsChain WITH
  list <- Values(Forward(List)),
  table <- Range(Values(Forward(Table))),
  walking <- walk.kind # "none",
  taken <- walk.taken,
  todo <- ToDo

\* The pointers, the reuse of memory and the version numbers are invisible:
\* handlers see a sequence and a sorted set, and a walk whose body removes
\* what it was given takes every element once and in order.
Abstract == Chain!ChainSpec
=============================================================================
