----------------------------- MODULE IsnsStore ------------------------------
(***************************************************************************)
(* The database of the server: an object table in memory and its copy in an *)
(* LDAP directory (iSNSdb.c, iSNSList.c, iSNSdbMem.c, iSNSdbLdap.c,        *)
(* iSNSLdapLib.c), for the objects whose lists have a copy as well, the    *)
(* Discovery Domains.  An object of another kind is one with an empty list.*)
(*                                                                         *)
(* A call adds to memory first and to the directory afterwards, and removes *)
(* in the opposite order.  A request to the directory that fails, for      *)
(* whatever reason, is made once more on a new connection.  The directory  *)
(* may refuse a change, be out of reach, or carry the change out without   *)
(* its answer coming back.  Only this server writes to it.                 *)
(***************************************************************************)
EXTENDS IsnsObjects, Sequences

VARIABLES
  mem,    \* the tables in memory, which every read is answered from
  dir,    \* the entries of the directory
  draft,  \* the list of an object that a handler has not written yet
  call,   \* the current or else the last call
  todo,   \* the requests to the directory that the call has yet to make
  pc,     \* where the call is
  answer, \* what the last call returned
  link,   \* g_pstLDAP: bound, initialised but not bound, or NULL
  doubt   \* objects of which a call has not reported success (history)

storeVars == <<mem, dir, draft, call, todo, pc, answer, link, doubt>>

Requests == {"search", "insert", "void", "set", "plus", "minus", "clear", "delete"}
NoDraft == [k \in {} |-> {}]

StoreTypeOK ==
  /\ IsStore(mem) /\ IsStore(dir)
  /\ \A k \in DOMAIN mem : mem[k].val # Void
  /\ DOMAIN draft \subseteq Keys /\ draft \in [DOMAIN draft -> SUBSET Items]
  /\ call \in Calls \cup {NoCall}
  /\ todo \in Seq(Requests)
  /\ pc \in {"idle", "first", "reconnect", "second", "down"}
  /\ answer \in {"none", "ok", "error"}
  /\ link \in {"bound", "unbound", "none"}
  /\ doubt \subseteq Keys

\* ISNSdbOpen on an empty directory.
StoreInit ==
  /\ mem = NoObjects /\ dir = NoObjects
  /\ draft = NoDraft /\ call = NoCall /\ todo = <<>>
  /\ pc = "idle" /\ answer = "none" /\ link = "bound"
  /\ doubt = {}

(***************************************************************************)
(* The calls, as far as their first request to the directory.              *)
(***************************************************************************)

\* A call is entered; "request" is the first thing it asks of the directory.
Enter(c, request) ==
  /\ pc = "idle"
  /\ call' = c
  /\ todo' = <<request>>
  /\ pc' = "first"
  /\ answer' = "none"
  /\ UNCHANGED <<dir, link, doubt>>

\* InitList for a new object.
NewDraft ==
  /\ pc = "idle" /\ draft = NoDraft
  /\ \E k \in Keys \ DOMAIN mem : draft' = [x \in {k} |-> {}]
  /\ UNCHANGED <<mem, dir, call, todo, pc, answer, link, doubt>>

\* The handler refuses the request and leaves the new object where it is.
Abandon ==
  /\ pc = "idle" /\ draft # NoDraft
  /\ doubt' = doubt \cup DOMAIN draft
  /\ draft' = NoDraft
  /\ UNCHANGED <<mem, dir, call, todo, pc, answer, link>>

\* ISNSdbWrite of a stored object or of the draft.
Write ==
  \E k \in DOMAIN mem \cup DOMAIN draft, v \in Vals :
    LET c == [op |-> "write", key |-> k, val |-> v,
              items |-> IF k \in DOMAIN mem THEN {} ELSE draft[k]]
    IN /\ Enter(c, "search")
       /\ mem' = Effect(mem, c)
       /\ draft' = IF k \in DOMAIN mem THEN draft ELSE NoDraft

\* ISNSdbDelete.
Delete ==
  \E k \in DOMAIN mem :
    /\ Enter([op |-> "delete", key |-> k, val |-> Void, items |-> {}], "delete")
    /\ UNCHANGED <<mem, draft>>

\* The list of an object that is stored or being built.
ListOf(k) == IF k \in DOMAIN mem THEN mem[k].list ELSE draft[k]

\* Mutation of AddNode: the object that the list belongs to is stored at once.
AddNodeToStored ==
  \E k \in DOMAIN mem \cup DOMAIN draft, x \in Items :
    /\ x \notin ListOf(k)
    /\ Enter([op |-> "addnode", key |-> k, val |-> Void, items |-> {x}], "search")
    /\ mem' = [i \in DOMAIN mem \cup {k} |->
                 IF i # k THEN mem[i]
                 ELSE [val  |-> IF i \in DOMAIN mem THEN mem[i].val ELSE Void,
                       list |-> ListOf(i) \cup {x}]]
    /\ draft' = IF k \in DOMAIN mem THEN draft ELSE NoDraft

\* AddNode, of something the list does not hold.
AddNode ==
  \E k \in DOMAIN mem \cup DOMAIN draft, x \in Items :
    /\ x \notin ListOf(k)
    /\ LET c == [op |-> "addnode", key |-> k, val |-> Void, items |-> {x}]
       IN /\ Enter(c, "search")
          /\ mem' = Effect(mem, c)
          /\ draft' = IF k \in DOMAIN mem THEN draft
                      ELSE [draft EXCEPT ![k] = @ \cup {x}]

\* RemoveNode.
RemoveNode ==
  \E k \in DOMAIN mem : \E x \in mem[k].list :
    /\ Enter([op |-> "removenode", key |-> k, val |-> Void, items |-> {x}], "minus")
    /\ UNCHANGED <<mem, draft>>

\* DeleteList, of a stored object or of one that is being built.
DeleteList ==
  \E k \in DOMAIN mem \cup DOMAIN draft :
    /\ Enter([op |-> "deletelist", key |-> k, val |-> Void, items |-> {}], "clear")
    /\ UNCHANGED <<mem, draft>>

(***************************************************************************)
(* Requests to the directory.                                              *)
(***************************************************************************)

\* The directory d has no reason of its own to refuse the request.
Accepts(d, request) ==
  CASE request \in {"search", "delete"} -> TRUE
    [] request \in {"insert", "void"} -> call.key \notin DOMAIN d
    [] request \in {"set", "clear"} -> call.key \in DOMAIN d
    [] request = "plus" -> call.key \in DOMAIN d /\ call.items \cap d[call.key].list = {}
    [] request = "minus" -> call.key \in DOMAIN d /\ call.items \subseteq d[call.key].list

\* The entries after it.  ISNS_LDAP_AddDD writes the scalar fields only; those
\* of a domain that AddNode needs are empty (_ldap_AddVoidDDIfNeed).
Changed(d, request) ==
  CASE request = "search" -> d
    [] request = "delete" -> Effect(d, [call EXCEPT !.op = "delete"])
    [] request = "void" ->
         Effect(d, [op |-> "write", key |-> call.key, val |-> Void, items |-> {}])
    [] request \in {"insert", "set"} ->
         Effect(d, [call EXCEPT !.op = "write", !.items = {}])
    [] request = "plus" -> Effect(d, [call EXCEPT !.op = "addnode"])
    [] request = "minus" -> Effect(d, [call EXCEPT !.op = "removenode"])
    [] request = "clear" -> Effect(d, [call EXCEPT !.op = "deletelist"])

\* Mutation of Rest: what is found in the directory is left as it is.
RestIfAbsent(request) ==
  IF request # "search" THEN Tail(todo)
  ELSE IF call.op = "write"
       THEN IF call.key \in DOMAIN dir THEN <<>> ELSE <<"insert">>
       ELSE IF call.key \in DOMAIN dir THEN <<"plus">> ELSE <<"void", "plus">>

\* What is left to ask for after an answer.  ISNS_LDAP_ReplaceEntry modifies
\* or adds; ISNS_LDAP_AddDDIscsi and ISNS_LDAP_AddDdDdsMap see to it that there
\* is an entry for the list, whose second search for it is left out here.
Rest(request) ==
  IF request # "search" THEN Tail(todo)
  ELSE IF call.op = "write"
       THEN IF call.key \in DOMAIN dir THEN <<"set">> ELSE <<"insert">>
       ELSE IF call.key \in DOMAIN dir THEN <<"plus">> ELSE <<"void", "plus">>

Removals == {"delete", "removenode", "deletelist"}

\* The memory part of a call that removes.
FinishMemory ==
  IF call.op \notin Removals THEN UNCHANGED <<mem, draft>>
  ELSE /\ mem' = Effect(mem, call)
       /\ draft' = [k \in DOMAIN draft |-> IF k = call.key THEN {} ELSE draft[k]]

\* Mutation of Finish: a removal that fails in the directory is given up.
FinishIfOk(ok) ==
  /\ IF ok THEN FinishMemory ELSE UNCHANGED <<mem, draft>>
  /\ answer' = IF ok THEN "ok" ELSE "error"
  /\ doubt' = IF ~ok THEN doubt \cup {call.key}
              ELSE IF call.op = "delete" THEN doubt \ {call.key} ELSE doubt
  /\ pc' = "idle" /\ todo' = <<>> /\ UNCHANGED call

\* Mutation of Finish: a removal returns what memory says (iRet = for iRet |=).
FinishFromMemory(ok) ==
  LET well == ok \/ call.op \in Removals
  IN /\ FinishMemory
     /\ answer' = IF well THEN "ok" ELSE "error"
     /\ doubt' = IF ~well THEN doubt \cup {call.key}
                 ELSE IF call.op = "delete" THEN doubt \ {call.key} ELSE doubt
     /\ pc' = "idle" /\ todo' = <<>> /\ UNCHANGED call

\* The call returns.  A removal has its effect on memory now, whatever the
\* directory has said.
Finish(ok) ==
  /\ FinishMemory
  /\ answer' = IF ok THEN "ok" ELSE "error"
  /\ doubt' = IF ~ok THEN doubt \cup {call.key}
              ELSE IF call.op = "delete" THEN doubt \ {call.key} ELSE doubt
  /\ pc' = "idle" /\ todo' = <<>> /\ UNCHANGED call

\* The call goes on at "at" with the requests "rest" to make.
Continue(at, rest) ==
  /\ pc' = at /\ todo' = rest
  /\ UNCHANGED <<mem, draft, answer, doubt, call>>

\* The directory answers that the request has been carried out.
Served ==
  LET request == Head(todo)
  IN /\ pc \in {"first", "second"}
     /\ Accepts(dir, request)
     /\ link = "bound" \/ (link = "unbound" /\ request = "search")
     /\ dir' = Changed(dir, request)
     /\ IF Rest(request) = <<>> THEN Finish(TRUE) ELSE Continue("first", Rest(request))
     /\ UNCHANGED link

\* The request fails, although the change may have been made.
NotServed ==
  LET request == Head(todo)
  IN /\ pc \in {"first", "second"}
     /\ \/ dir' = dir
        \/ link = "bound" /\ Accepts(dir, request) /\ dir' = Changed(dir, request)
     /\ IF pc = "first" /\ link # "none" THEN Continue("reconnect", todo)
        ELSE Finish(FALSE)
     /\ UNCHANGED link

\* _ldap_Reconnect.
Reconnect ==
  /\ pc = "reconnect"
  /\ \/ link' = "bound" /\ Continue("second", todo)
     \/ link' \in {"unbound", "none"} /\ Finish(FALSE)
  /\ UNCHANGED dir

(***************************************************************************)
(* The process.                                                            *)
(***************************************************************************)
Crash ==
  /\ pc # "down"
  /\ pc' = "down"
  /\ mem' = NoObjects /\ draft' = NoDraft /\ link' = "none"
  /\ call' = NoCall /\ todo' = <<>> /\ answer' = "none"
  /\ doubt' = doubt \cup (IF pc = "idle" THEN {} ELSE {call.key})
                    \cup DOMAIN draft
  /\ UNCHANGED dir

\* ISNSdbOpen: the directory has to be within reach, but is not read.
Restart ==
  /\ pc = "down"
  /\ pc' = "idle" /\ link' = "bound"
  /\ doubt' = doubt \cup DOMAIN dir
  /\ UNCHANGED <<mem, dir, draft, call, todo, answer>>

StoreNext ==
  \/ NewDraft \/ Abandon
  \/ Write \/ Delete \/ AddNode \/ RemoveNode \/ DeleteList
  \/ Served \/ NotServed \/ Reconnect
  \/ Crash \/ Restart

StoreSpec == StoreInit /\ [][StoreNext]_storeVars

(***************************************************************************)
(* Properties.                                                             *)
(***************************************************************************)

\* The entry of k is the copy of the object in memory or, for an object that
\* is being built, has the list of it.
Agrees(k) ==
  IF k \in DOMAIN draft THEN ListIn(dir, k) = draft[k]
  ELSE /\ k \in DOMAIN mem <=> k \in DOMAIN dir
       /\ k \in DOMAIN mem => mem[k] = dir[k]

\* Between two calls memory and directory have the same of every object, unless
\* a call on it has returned an error, the object was given up half way, or a
\* restart has left the entry behind; a successful delete sets it right again.
CopiesAgree == pc = "idle" => \A k \in Keys \ doubt : Agrees(k)

\* The directory has what the last successful call has asked for, even when
\* the object was out of step before (ISNSdbWrite, ISNSdbDelete, AddNode,
\* RemoveNode, DeleteList).
Acknowledged ==
  pc = "idle" /\ answer = "ok" =>
    CASE call.op = "write" -> call.key \in DOMAIN dir /\ dir[call.key].val = call.val
      [] call.op = "delete" -> call.key \notin DOMAIN dir
      [] call.op = "addnode" -> call.items \subseteq ListIn(dir, call.key)
      [] call.op = "removenode" -> call.items \cap ListIn(dir, call.key) = {}
      [] call.op = "deletelist" -> ListIn(dir, call.key) = {}

\* For the handlers the tables in memory are an IsnsTable, whatever the
\* directory does: every call takes effect once, also one that returns an error.
Table == INSTANCE IsnsTable WITH
  table   <- mem,
  pending <- IF pc \in {"idle", "down"} THEN NoCall ELSE call,
  applied <- pc \notin {"idle", "down"} /\ call.op \in {"write", "addnode"}
TableSpec == Table!Spec
=============================================================================
