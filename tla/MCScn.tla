------------------------------- MODULE MCScn --------------------------------
(* An instance of IsnsScn for TLC. *)
EXTENDS IsnsScn

MadeUpFor(d) == "default DD " \o ToString(d)
MCSyms == {"default DD", "default DDS"} \cup {MadeUpFor(d) : d \in DDs}
MCPrefix == {<<x, x>> : x \in Names}
MCTruncated == [n \in Names |-> n]

\* Members by name, and always one.
MemberDD == UNION
  {[dd : {d}, keyed : BOOLEAN, sym : {NoSym}, auto : {MadeUpFor(d)},
    symLast : {FALSE},
    member : {<<a>> : a \in {x \in MemberAttrs : ~x.byIdx}}] : d \in DDs}

Symmetry == Permutations(Names)
=============================================================================
