----------------------------- MODULE IsnsChain -----------------------------
(***************************************************************************)
(* What the lists of objects and the tables of iSNSdbMem.c promise to the  *)
(* handlers: a list is a sequence that grows at its end, a table is a set  *)
(* of keys that can be asked for the next one, and a walk over a list      *)
(* takes every element once and in order even though its body removes the  *)
(* element that was taken.                                                 *)
(***************************************************************************)
EXTENDS Integers, Sequences, SequencesExt, FiniteSetsExt

CONSTANTS Datas, List, Table, None

VARIABLES list,     \* the elements of the list
          table,    \* the keys of the table
          walking,  \* a handler walks over the list
          taken,    \* the element that the walk has taken, None before
          todo,     \* the elements that the walk has yet to take
          answer    \* the question just asked, and its answer

NoAnswer == <<>>

ChainInit ==
  /\ list = <<>> /\ table = {}
  /\ walking = FALSE /\ taken = None /\ todo = <<>>
  /\ answer = NoAnswer

\* The list without its first element v, unchanged if it has none.
Without(s, v) ==
  IF v \in Range(s) THEN RemoveAt(s, Min({i \in DOMAIN s : s[i] = v})) ELSE s

Asked(h, v, y) == answer' = [of |-> h, after |-> v, is |-> y]
NotAsked == answer' = NoAnswer

\* A handler adds an element at the end or removes the first that is v.
Edit ==
  /\ ~walking /\ NotAsked
  /\ \E v \in Datas : list' \in {Append(list, v), Without(list, v)}
  /\ UNCHANGED <<table, walking, taken, todo>>

\* A handler asks for the element after the first that is v.
AskList ==
  /\ ~walking
  /\ \E i \in 1 .. Len(list) :
       /\ list[i] \notin Range(SubSeq(list, 1, i - 1))
       /\ Asked(List, list[i], IF i = Len(list) THEN None ELSE list[i + 1])
  /\ UNCHANGED <<list, table, walking, taken, todo>>

EditTable ==
  /\ NotAsked
  /\ \E k \in Datas : table' \in {table \cup {k}, table \ {k}}
  /\ UNCHANGED <<list, walking, taken, todo>>

\* A handler asks for the smallest key that is greater than k.
AskTable ==
  /\ \E k \in Datas \cup {0} : LET greater == {x \in table : x > k} IN
       Asked(Table, k, IF greater = {} THEN None ELSE Min(greater))
  /\ UNCHANGED <<list, table, walking, taken, todo>>

Begin ==
  /\ ~walking /\ walking' = TRUE /\ todo' = list /\ NotAsked
  /\ UNCHANGED <<list, table, taken>>

Take ==
  /\ todo # <<>> /\ taken' = Head(todo) /\ todo' = Tail(todo) /\ NotAsked
  /\ UNCHANGED <<list, table, walking>>

\* The body is done with the element, and may have removed it.
Finish ==
  /\ taken # None /\ taken' = None /\ NotAsked
  /\ list' \in {list, Without(list, taken)}
  /\ UNCHANGED <<table, walking, todo>>

\* The walk ends behind the last element, or where its body breaks it off;
\* the list may be emptied after it.
End ==
  /\ walking /\ walking' = FALSE /\ NotAsked
  /\ todo = <<>> \/ taken # None
  /\ list' \in {list, <<>>}
  /\ taken' = None /\ todo' = <<>>
  /\ UNCHANGED table

\* Nothing changes, for want of memory.
Nothing == NotAsked /\ UNCHANGED <<list, table, walking, taken, todo>>

ChainNext ==
  \/ Edit \/ AskList \/ EditTable \/ AskTable \/ Nothing
  \/ Begin \/ Take \/ Finish \/ End

ChainSpec ==
  ChainInit /\ [][ChainNext]_<<list, table, walking, taken, todo, answer>>
=============================================================================
