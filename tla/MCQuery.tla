------------------------------ MODULE MCQuery -------------------------------
(* Instances of IsnsQuery for TLC. *)
EXTENDS IsnsQuery

CONSTANTS n1, n2, e1, e2

MadeUpFor(d) == "default DD " \o ToString(d)
MCSyms == {"default DD", "default DDS"} \cup {MadeUpFor(d) : d \in DDs}
MCPrefix == {<<x, x>> : x \in Names}
MCTruncated == [n \in Names |-> n]
MCRank == n1 :> 1 @@ n2 :> 2 @@ e1 :> 3 @@ e2 :> 4

\* A plain entity, never replaced.
PlainEntity == [entity : Entities, type : {"iscsi"}, replace : {FALSE},
                same : {FALSE}, bad : {FALSE}]

\* One member, by name, and no name given.
NamedDD == UNION
  {[dd : {d}, keyed : BOOLEAN, sym : {NoSym}, auto : {MadeUpFor(d)},
    symLast : {FALSE},
    member : {<<a>> : a \in {x \in MemberAttrs : ~x.byIdx}}] : d \in DDs}

\* A change of the status of a set, and nothing else.
StatusDDS == [dds : DDSs, replace : {FALSE}, sym : {NoSym}, symLast : {FALSE},
              status : {<<TRUE>>, <<FALSE>>}, statusLast : {FALSE},
              dd : {<<>>}, missing : {FALSE}]
=============================================================================
