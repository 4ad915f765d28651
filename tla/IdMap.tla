------------------------------- MODULE IdMap -------------------------------
(***************************************************************************)
(* What the object registry of src/ni/src/ncl/NclData.c promises: a        *)
(* partial map from ids to objects in which an object has one id.          *)
(***************************************************************************)
EXTENDS Naturals

CONSTANTS Id, Obj

VARIABLE map   \* the registered ids and their objects

Init == map = [i \in {} |-> i]

\* An object is entered under an id that no registered object has.
Bind(i, o) ==
  /\ i \notin DOMAIN map
  /\ \A j \in DOMAIN map : map[j] # o
  /\ map' = [j \in DOMAIN map \cup {i} |-> IF j = i THEN o ELSE map[j]]

Unbind(i) ==
  /\ i \in DOMAIN map
  /\ map' = [j \in DOMAIN map \ {i} |-> map[j]]

Next ==
  \/ \E i \in Id, o \in Obj : Bind(i, o)
  \/ \E i \in DOMAIN map : Unbind(i)

Spec == Init /\ [][Next]_map
=============================================================================
