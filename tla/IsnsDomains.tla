---------------------------- MODULE IsnsDomains ----------------------------
(***************************************************************************)
(* The object tables of the iSNS server and the handlers that register and *)
(* deregister Discovery Domains (DD) and Discovery Domain Sets (DDS):      *)
(* iSNSreg.c, iSNSdereg.c and the activity tests of iSNSquery.c.           *)
(*                                                                         *)
(* The server handles one request at a time, to the end, on its main       *)
(* thread, so a handler is an operator from the tables before the request  *)
(* to the tables after it.  The tables are a record r with the fields      *)
(*   entity, node, idx, dd, dds                                            *)
(* and each of them is a function from the keys that are stored.  The list *)
(* fields of an object are shared between all the copies of the object, so *)
(* an edit of a list is visible at once; a scalar field changes in the     *)
(* table only when the handler reaches the write of the object.            *)
(***************************************************************************)
EXTENDS Naturals, SequencesExt

CONSTANTS
  Names,      \* iSCSI node names
  DDs,        \* Discovery Domain ids
  DDSs,       \* Discovery Domain Set ids
  Entities,   \* entity identifiers
  Syms,       \* symbolic names of DDs and DDSs
  DefaultSym, \* "default DD", the name of the domain created at start
  DefaultDDSSym, \* "default DDS", the name of the set created at start
  Prefix,     \* <<a, b>> \in Prefix: the name a is a prefix of the name b
  Truncated,  \* the first eight characters of a name
  NoSym       \* a request without a symbolic name; also the empty name

ASSUME NameAssumption ==
  /\ Prefix \subseteq Names \X Names
  /\ \A n \in Names : <<n, n>> \in Prefix
  /\ Truncated \in [Names -> Names]
ASSUME IdAssumption == DDs \subseteq Nat /\ IsFiniteSet(DDs)
ASSUME SymAssumption ==
  {DefaultSym, DefaultDDSSym} \subseteq Syms /\ NoSym \notin Syms

EntityTypes == {"none", "iscsi", "ifcp"}

(***************************************************************************)
(* Tables.                                                                 *)
(***************************************************************************)

\* ISNSdbWrite: an insertion, or the replacement of the stored object.
Put(t, k, v) == [x \in DOMAIN t \cup {k} |-> IF x = k THEN v ELSE t[x]]

\* ISNSdbDelete.
Drop(t, k) == [x \in DOMAIN t \ {k} |-> t[x]]

\* AddNode guarded by FindNode: a list holds a value at most once.
AppendNew(s, x) == IF x \in Range(s) THEN s ELSE Append(s, x)

\* FindNode followed by RemoveNode.
Without(s, x) ==
  IF x \in Range(s) THEN RemoveAt(s, CHOOSE i \in DOMAIN s : s[i] = x) ELSE s

\* The names in a member list, whatever their status.
MemberNames(members) == {members[i].name : i \in DOMAIN members}

\* The part of a list before its first element that is not a key of t.
StoredPrefix(s, t) ==
  {s[i] : i \in {k \in DOMAIN s : \A j \in 1..k : s[j] \in DOMAIN t}}

(***************************************************************************)
(* Activity.                                                               *)
(***************************************************************************)

\* When the DDS cannot be read its error code is returned as its status, and
\* an error code counts as TRUE for the callers.
IsDDSActive(r, s) == s \in DOMAIN r.dds => r.dds[s].status

\* Is the DD in an enabled DDS, the sets in "exclude" left aside?
IsDDActive(r, d, exclude) ==
  /\ d \in DOMAIN r.dd
  /\ \E s \in Range(r.dd[d].dds) \ exclude : IsDDSActive(r, s)

\* The nodes that change_dd_member_active_flag updates for one DD: it skips
\* disabled members and returns at the first enabled one not registered.
FlaggedMembers(r, d) ==
  LET members == r.dd[d].members
      missing == {i \in DOMAIN members :
                    members[i].enabled /\ members[i].name \notin DOMAIN r.node}
  IN {members[i].name : i \in {k \in DOMAIN members :
        members[k].enabled /\ \A j \in missing : k < j}}

\* change_dd_member_active_flag on each DD of the sequence ds, in order: a
\* node keeps the flag computed for the last of the DDs that reach it.
ChangeMemberFlags(r, ds) ==
  LET Reaching(n) == {i \in DOMAIN ds : n \in FlaggedMembers(r, ds[i])}
      Flag(n) == \/ r.dd[ds[Max(Reaching(n))]].active
                 \/ \E d \in r.node[n].dds : IsDDActive(r, d, {})
  IN [r EXCEPT !.node =
        [n \in DOMAIN r.node |->
           IF Reaching(n) = {} THEN r.node[n]
           ELSE [r.node[n] EXCEPT !.active = Flag(n)]]]

(***************************************************************************)
(* Membership of a node in a DD, and the reference count of its index.     *)
(***************************************************************************)

\* Add_DD_to_ISCSI_Node: only a registered node keeps the list of its DDs.
AddDDToNode(r, d, n) ==
  IF n \notin DOMAIN r.node THEN r
  ELSE [r EXCEPT !.node[n].dds = @ \cup {d},
                 !.node[n].active = @ \/ r.dd[d].active]

\* Mutation of AddDDMember: the present members are not looked at.
AddDDMemberAgain(r, d, n, enabled) ==
  [r EXCEPT
     !.idx = Put(@, n, IF n \in DOMAIN @ THEN @[n] + 1 ELSE 1),
     !.dd[d].members = Append(@, [name |-> n, enabled |-> enabled])]

\* Add_DD_Member: the comparison with the present members takes the length of
\* the new name, so a member whose name the new one is a prefix of hides it.
AddDDMember(r, d, n, enabled) ==
  IF \E m \in MemberNames(r.dd[d].members) : <<n, m>> \in Prefix THEN r
  ELSE [r EXCEPT
          !.idx = Put(@, n, IF n \in DOMAIN @ THEN @[n] + 1 ELSE 1),
          !.dd[d].members = Append(@, [name |-> n, enabled |-> enabled])]

\* One member attribute of a DD registration.
JoinDD(r, d, n) == AddDDMember(AddDDToNode(r, d, n), d, n, n \in DOMAIN r.node)

\* Remove_DD_from_ISCSI_Node.
RemoveDDFromNode(r, d, n) ==
  IF n \notin DOMAIN r.node \/ d \notin r.node[n].dds THEN r
  ELSE LET rest == r.node[n].dds \ {d}
       IN [r EXCEPT !.node[n].dds = rest,
                    !.node[n].active = @ /\ \E x \in rest \cap DOMAIN r.dd :
                                              r.dd[x].active]

\* Mutation of ReleaseIdx: the index goes even while the node is registered.
ReleaseIdxOfNode(r, names) ==
  LET gone == {n \in names \cap DOMAIN r.idx : r.idx[n] = 1}
  IN [n \in DOMAIN r.idx \ gone |->
        IF n \in names /\ r.idx[n] > 0 THEN r.idx[n] - 1 ELSE r.idx[n]]

\* Mutation of ReleaseIdx: the reference is given back twice.
ReleaseIdxTwice(r, names) ==
  [n \in DOMAIN r.idx |->
     IF n \in names /\ r.idx[n] > 0 THEN r.idx[n] - 2 ELSE r.idx[n]]

\* The index table after each name of the set loses one DD that refers to it.
\* A count that would become negative is not written.
ReleaseIdx(r, names) ==
  LET gone == {n \in names \cap DOMAIN r.idx :
                 r.idx[n] = 1 /\ n \notin DOMAIN r.node}
  IN [n \in DOMAIN r.idx \ gone |->
        IF n \in names /\ r.idx[n] > 0 THEN r.idx[n] - 1 ELSE r.idx[n]]

\* Remove_DD_Member.
RemoveDDMember(r, d, n) ==
  LET members == r.dd[d].members IN
  IF n \notin MemberNames(members) THEN r
  ELSE [r EXCEPT
          !.dd[d].members =
             RemoveAt(@, CHOOSE i \in DOMAIN @ : @[i].name = n),
          !.idx = ReleaseIdx(r, {n})]

(***************************************************************************)
(* A member attribute names the node, or gives the index of its name.  The *)
(* name found by index replaces it, cut to the size of a pointer, which is *)
(* eight characters.                                                       *)
(***************************************************************************)
MemberAttrs == [name : Names, byIdx : BOOLEAN]

AttrName(a) == IF a.byIdx THEN Truncated[a.name] ELSE a.name

AttrKnown(r, a) == a.byIdx => a.name \in DOMAIN r.idx

(***************************************************************************)
(* Discovery Domains.                                                      *)
(***************************************************************************)

\* A DD registration: "keyed" when the DD is named in the message key, at most
\* one member attribute (several are as many messages), the symbolic name
\* before or after it; "auto" is the name that the server makes up, with a
\* random ending, for a new DD registered without one.
DDRequests ==
  [dd : DDs, keyed : BOOLEAN, sym : Syms \cup {NoSym}, auto : Syms,
   symLast : BOOLEAN, member : {<<>>} \cup {<<a>> : a \in MemberAttrs}]

\* The symbolic name as the handler comes to read it: a member given by index
\* is rewritten in place, and the attributes behind it are overwritten.
NameRead(m) ==
  IF m.symLast /\ m.member # <<>> /\ m.member[1].byIdx THEN NoSym ELSE m.sym

\* Mutation of DDSymTaken: a DD that other DDs stand before is not compared.
DDSymTakenByFirst(r, d, y) ==
  \E x \in DOMAIN r.dd \ {d} : r.dd[x].sym = y /\ \A z \in DOMAIN r.dd : x <= z

\* Check_Unique_DD_Sym: another DD has the symbolic name.
DDSymTaken(r, d, y) == \E x \in DOMAIN r.dd \ {d} : r.dd[x].sym = y

\* ISNS_GetNewDD_Sym_Name makes up names until no other DD has the last one.
MadeUp(r, m) ==
  m.dd \notin DOMAIN r.dd /\ m.sym = NoSym => ~DDSymTaken(r, m.dd, m.auto)

\* ISNSdbAddAttrDD.  A new DD is in the table while its members are added only
\* if the member is given by name (the early write); on an error, and when the
\* name it was sent with is not read, the new DD is dropped unless it was
\* written early, but what the member step did to the node and to the index
\* stays.
RegisterDD(r, m) ==
  LET d        == m.dd
      exists   == d \in DOMAIN r.dd
      start    == IF exists THEN r
                  ELSE [r EXCEPT !.dd = Put(@, d,
                         [sym |-> IF m.sym = NoSym THEN m.auto ELSE NoSym,
                          active |-> FALSE, members |-> <<>>, dds |-> <<>>])]
      unknown  == m.member # <<>> /\ ~AttrKnown(r, m.member[1])
      early    == m.member # <<>> /\ ~m.member[1].byIdx
      joined   == IF m.member = <<>> \/ unknown THEN start
                  ELSE JoinDD(start, d, AttrName(m.member[1]))
      sym      == NameRead(m)
      conflict == sym \notin {NoSym, start.dd[d].sym} /\ DDSymTaken(r, d, sym)
      nameless == ~exists /\ sym # m.sym
  IN IF exists # m.keyed THEN r
     ELSE IF nameless \/ (conflict /\ m.symLast)
          THEN IF exists \/ early THEN joined ELSE [joined EXCEPT !.dd = r.dd]
     ELSE IF conflict \/ unknown THEN r
     ELSE IF sym = NoSym THEN joined
     ELSE [joined EXCEPT !.dd[d].sym = sym]

\* SNSdbRemoveDD_Member, one member attribute.
DeregisterDDMember(r, d, a) ==
  IF d \notin DOMAIN r.dd \/ ~AttrKnown(r, a) THEN r
  ELSE RemoveDDMember(RemoveDDFromNode(r, d, AttrName(a)), d, AttrName(a))

\* SNSdbRemoveDD_Entry: every member leaves, the enabled ones drop the DD from
\* their node too; then the DD leaves its sets, in the order of its list, and
\* is deleted unless one of them cannot be read.
DeregisterDD(r, d) ==
  IF d \notin DOMAIN r.dd THEN r
  ELSE
  LET members == r.dd[d].members
      enabled == {members[i].name : i \in {k \in DOMAIN members :
                                             members[k].enabled}}
      left    == StoredPrefix(r.dd[d].dds, r.dds)
      node    == [n \in DOMAIN r.node |->
                    IF n \in enabled THEN RemoveDDFromNode(r, d, n).node[n]
                    ELSE r.node[n]]
      dds     == [s \in DOMAIN r.dds |->
                    IF s \in left THEN [r.dds[s] EXCEPT !.dds = Without(@, d)]
                    ELSE r.dds[s]]
      dd      == IF Range(r.dd[d].dds) = left THEN Drop(r.dd, d)
                 ELSE [r.dd EXCEPT ![d].members = <<>>]
  IN [r EXCEPT !.node = node, !.idx = ReleaseIdx(r, MemberNames(members)),
               !.dds = dds, !.dd = dd]

(***************************************************************************)
(* Discovery Domain Sets.                                                  *)
(***************************************************************************)

\* SNSdbRemoveAttrDDS_Entry.
DeregisterDDS(r, s) ==
  IF s \notin DOMAIN r.dds THEN r
  ELSE
  LET listed  == r.dds[s].dds
      left    == StoredPrefix(listed, r.dd)
      dark(d) == ~IsDDActive(r, d, {s})
      dd      == [d \in DOMAIN r.dd |->
                    IF d \notin left THEN r.dd[d]
                    ELSE [r.dd[d] EXCEPT !.dds = Without(@, s),
                                         !.active = @ /\ ~dark(d)]]
      unlinked == [r EXCEPT !.dd = dd]
      changed == SelectSeq(listed, LAMBDA d : r.dd[d].active /\ dark(d))
  IN IF left # Range(listed) THEN unlinked
     ELSE [ChangeMemberFlags(unlinked, changed) EXCEPT !.dds = Drop(@, s)]

\* SNSdbRemoveAttrDDS_Member, one DD.  The loop over the DDs whose state has
\* changed never runs: the number of them is not counted.
DeregisterDDSMember(r, s, d) ==
  IF s \notin DOMAIN r.dds THEN r
  ELSE LET dropped == [r EXCEPT !.dds[s].dds = Without(@, d)]
       IN IF d \notin DOMAIN r.dd THEN dropped
          ELSE [dropped EXCEPT !.dd[d].dds = Without(@, s),
                               !.dd[d].active = @ /\ IsDDActive(r, d, {s})]

\* Mutation of AddDDSToDD: the DD is not told of the set.
AddDDSToDDOneWay(r, s, d, status) ==
  [r EXCEPT !.dds[s].dds   = AppendNew(@, d),
            !.dd[d].active = @ \/ status]

\* Add_dds_to_dd: "status" is the status of the set in the working copy.
AddDDSToDD(r, s, d, status) ==
  [r EXCEPT !.dds[s].dds   = AppendNew(@, d),
            !.dd[d].dds    = AppendNew(@, s),
            !.dd[d].active = @ \/ status]

(***************************************************************************)
(* After a change of the status of a DDS the code walks the list of its    *)
(* DDs.  Reading the first DD overwrites the buffer the DDS was read into, *)
(* and the list field of the DDS is then the member list of that DD.  The  *)
(* walk goes on only when that list is not empty and has had as many       *)
(* edits as the list of DDs; the number of edits is not modelled, so it is *)
(* a choice.  After the last DD the walk has no end it recognises: it      *)
(* reads the list head as a node, which ends in a crash or in a DD that    *)
(* does not exist.  A choice is how many DDs are visited, and how it ends. *)
(***************************************************************************)
Endings == {"done", "abort", "crash"}

Walks(r, s) ==
  LET listed == r.dds[s].dds
      full(i) == /\ listed[i] \in DOMAIN r.dd
                 /\ r.dd[listed[i]].members # <<>>
      beyond(k) == k = Len(listed) /\ k > 0 /\ full(k)
  IN {w \in [visited : 0..Len(listed), ending : Endings] :
        /\ \A i \in 1..w.visited : listed[i] \in DOMAIN r.dd
        /\ \A i \in 1..(w.visited - 1) : full(i)
        /\ w.ending = "done" => w.visited > 0 \/ listed = <<>>
        /\ w.ending = "abort" =>
             \/ beyond(w.visited)
             \/ /\ w.visited < Len(listed)
                /\ w.visited > 0 => full(w.visited)
                /\ listed[w.visited + 1] \notin DOMAIN r.dd
        /\ w.ending = "crash" => beyond(w.visited)}

\* The DDs visited take the state of their sets; their members follow only
\* when the walk has ended normally.
SpreadStatus(r, s, w) ==
  LET visited == SubSeq(r.dds[s].dds, 1, w.visited)
      changed == SelectSeq(visited, LAMBDA d :
                   r.dd[d].active # IsDDActive(r, d, {}))
      dd      == [d \in DOMAIN r.dd |->
                    IF d \in Range(visited)
                    THEN [r.dd[d] EXCEPT !.active = IsDDActive(r, d, {})]
                    ELSE r.dd[d]]
      spread  == [r EXCEPT !.dd = dd]
  IN IF w.ending = "done" THEN ChangeMemberFlags(spread, changed) ELSE spread

\* A DDS registration: at most one DD that the server may or may not have, and
\* "missing" when the id of a DD it does not have follows; the name and the
\* status stand before or after the DDs.
DDSRequests ==
  [dds : DDSs, replace : BOOLEAN, sym : Syms \cup {NoSym}, symLast : BOOLEAN,
   status : {<<>>, <<TRUE>>, <<FALSE>>}, statusLast : BOOLEAN,
   dd : {<<>>} \cup {<<d>> : d \in DDs}, missing : BOOLEAN]

\* Check_Unique_DDS_Sym: whatever the other set is, the name compared with is
\* the stored name of the set being registered; a set not stored is unique.
DDSSymTaken(r, s, y) ==
  /\ DOMAIN r.dds \ {s} # {}
  /\ s \in DOMAIN r.dds
  /\ r.dds[s].sym = y

\* ISNSdbAddAttrDDS up to the write of the set: the tables, and whether the
\* status that the set had in its buffer has changed when it is written.
PlaceDDS(r, m) ==
  LET s        == m.dds
      new      == s \notin DOMAIN r.dds \/ m.replace
      before   == IF m.replace THEN DeregisterDDS(r, s) ELSE r
      old      == IF new THEN [sym |-> NoSym, status |-> FALSE, dds |-> <<>>]
                  ELSE r.dds[s]
      start    == [before EXCEPT !.dds = Put(@, s, old)]
      status   == IF m.status = <<>> THEN old.status ELSE m.status[1]
      conflict == m.sym # NoSym /\ DDSSymTaken(before, s, m.sym)
      unknown  == m.dd # <<>> /\ m.dd[1] \notin DOMAIN r.dd
      linked   == IF m.dd = <<>> \/ unknown THEN start
                  ELSE AddDDSToDD(start, s, m.dd[1],
                                  IF m.statusLast THEN old.status ELSE status)
      written  == [linked EXCEPT
                     !.dds[s].status = status,
                     !.dds[s].sym = IF m.sym = NoSym THEN @ ELSE m.sym]
  IN CASE new /\ m.sym = NoSym       -> [db |-> before, changed |-> FALSE]
       [] conflict /\ ~m.symLast     -> [db |-> before, changed |-> FALSE]
       [] (conflict /\ m.symLast) \/ unknown \/ m.missing ->
            [db |-> IF new THEN [linked EXCEPT !.dds = before.dds] ELSE linked,
             changed |-> FALSE]
       [] OTHER -> [db |-> written, changed |-> status # old.status]

\* ISNSdbAddAttrDDS: every result it can have, and how the walk ended.
RegisterDDSResults(r, m) ==
  LET placed == PlaceDDS(r, m) IN
  IF ~placed.changed THEN {[db |-> placed.db, ending |-> "done"]}
  ELSE {[db |-> SpreadStatus(placed.db, m.dds, w), ending |-> w.ending] :
          w \in Walks(placed.db, m.dds)}

=============================================================================
