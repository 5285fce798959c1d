----------------------------- MODULE IsnsTable ------------------------------
(***************************************************************************)
(* What the handlers of requests rely on when they use the database of the *)
(* server, and what IsnsRegistry takes for granted: a table of objects in  *)
(* which every call takes effect exactly once before it returns, whether   *)
(* it then reports success or not.  IsnsStore implements it.               *)
(***************************************************************************)
EXTENDS IsnsObjects

VARIABLES
  table,    \* the objects
  pending,  \* the call being carried out
  applied   \* it has taken effect

vars == <<table, pending, applied>>

Init == table = NoObjects /\ pending = NoCall /\ applied = FALSE

Invoke ==
  /\ pending = NoCall
  /\ \E c \in Calls :
       /\ pending' = c
       /\ \/ applied' = TRUE /\ table' = Effect(table, c)
          \/ applied' = FALSE /\ table' = table

Return ==
  /\ pending # NoCall
  /\ table' = IF applied THEN table ELSE Effect(table, pending)
  /\ pending' = NoCall /\ applied' = FALSE

\* The process ends; nothing of the table is left.
Crash == table' = NoObjects /\ pending' = NoCall /\ applied' = FALSE

Next == Invoke \/ Return \/ Crash

Spec == Init /\ [][Next]_vars
=============================================================================
