---------------------------- MODULE MCRegistry -----------------------------
(* Instances of IsnsRegistry for TLC. *)
EXTENDS IsnsRegistry

CONSTANTS n1, n2   \* n1 is the first eight characters of n2

MadeUpFor(d) == "default DD " \o ToString(d)
MCSyms == {"default DD", "default DDS"} \cup {MadeUpFor(d) : d \in DDs}
MCPrefix == {<<x, x>> : x \in Names} \cup ({<<n1, n2>>} \cap (Names \X Names))
MCTruncated == [n \in Names |-> n1]

None == {}

\* A plain entity, never replaced.
PlainEntity == [entity : Entities, type : {"iscsi"}, replace : {FALSE},
                same : {FALSE}, bad : {FALSE}]

\* Members by name and by index, and a name after them that another DD may have
\* been given or have been made up for.
MemberDD == UNION
  {[dd : {d}, keyed : BOOLEAN, auto : {MadeUpFor(d)}, symLast : {last},
    sym : IF last THEN {DefaultSym, MadeUpFor(1)} ELSE {NoSym},
    member : {<<>>} \cup {<<a>> : a \in MemberAttrs}] :
   d \in DDs, last \in BOOLEAN}

\* DDs without a name and without members: a node that joins is in the default
\* DD only.
BareDD == UNION
  {[dd : {d}, keyed : BOOLEAN, sym : {NoSym}, auto : {MadeUpFor(d)},
    symLast : {FALSE}, member : {<<>>}] : d \in DDs}

\* Every registration of a set that gives no name: the name of the only set
\* collides with nothing.
SetDDS == {m \in DDSRequests :
  /\ m.sym = NoSym /\ ~m.symLast
  /\ m.statusLast => m.status # <<>>}

\* Every registration of an entity.
AllEntity == {m \in EntityRequests : m.same => m.replace}
=============================================================================
