----------------------------- MODULE MCServer ------------------------------
(* Instances of IsnsServer for TLC: one descriptor, so that every connection *)
(* reuses the one before it, and descriptors 0 to 2 taken from the start.    *)
EXTENDS IsnsServer

MCFDs == {3}
=============================================================================
