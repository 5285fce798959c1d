----------------------------- MODULE MCPortals ------------------------------
(* An instance of IsnsPortals for TLC. *)
EXTENDS IsnsPortals

CONSTANT e1

\* Keys that name one entity twice add nothing, nor does the entity of the
\* response beside keys.  Keyed requests differ from the others when
\* they are refused, whatever they ask of the inquiries.
MCReqs == {m \in PortalRequests :
  /\ Len(m.keys) = 2 => m.keys[1] # m.keys[2]
  /\ m.keys # <<>> => m.named = e1
  /\ m.keyed => m.period = {} /\ m.udp = {}}
=============================================================================
