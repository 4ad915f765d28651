--------------------------- MODULE MCCallbackList ---------------------------
(* Model-checking instances of CallbackList. *)
EXTENDS CallbackList

CONSTANTS n1, n2, n3

ThreeNodes == {n1, n2, n3}
TwoNodes == {n1, n2}

\* Two selectors that share a chain of a two-chain table and one that does
\* not, as the DESTROYED, HLUVALCHANGE and MISSINGNOTIFY of NclCallBacksI.h do.
Selectors == {2, 3, 8}
=============================================================================
