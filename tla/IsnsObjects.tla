---------------------------- MODULE IsnsObjects ----------------------------
(***************************************************************************)
(* Tables of objects that have scalar fields and a list, and what a call   *)
(* to the database does to one (iSNSdb.c, iSNSList.c, iSNSMemData.c).      *)
(***************************************************************************)
CONSTANTS
  Keys,   \* ids of the objects, such as the Discovery Domains
  Vals,   \* the scalar fields of an object
  Items,  \* what the list of an object can hold, such as members
  Void    \* the scalar fields of a domain created only to hold a list

ASSUME VoidAssumption == Void \notin Vals

Ops == {"write", "delete", "addnode", "removenode", "deletelist"}
Calls == [op : Ops, key : Keys, val : Vals \cup {Void}, items : SUBSET Items]
NoCall == [op |-> "none"]

Objects == [val : Vals \cup {Void}, list : SUBSET Items]
IsStore(t) == DOMAIN t \subseteq Keys /\ t \in [DOMAIN t -> Objects]
NoObjects == [k \in {} |-> [val |-> Void, list |-> {}]]

ListIn(t, k) == IF k \in DOMAIN t THEN t[k].list ELSE {}

\* The list s of an object after a call that edits lists.
Edited(s, c) ==
  CASE c.op = "addnode" -> s \cup c.items
    [] c.op = "removenode" -> s \ c.items
    [] c.op = "deletelist" -> {}

\* The table t after the call c.  A new object brings the list c.items with it;
\* the list of a stored object is shared by all its copies and stays.
Effect(t, c) ==
  CASE c.op = "write" ->
         [k \in DOMAIN t \cup {c.key} |->
            IF k # c.key THEN t[k]
            ELSE [val |-> c.val, list |-> IF k \in DOMAIN t THEN t[k].list ELSE c.items]]
    [] c.op = "delete" -> [k \in DOMAIN t \ {c.key} |-> t[k]]
    [] c.op \in {"addnode", "removenode", "deletelist"} ->
         [k \in DOMAIN t |-> IF k # c.key THEN t[k]
                             ELSE [t[k] EXCEPT !.list = Edited(@, c)]]
=============================================================================
