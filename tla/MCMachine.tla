----------------------------- MODULE MCMachine -----------------------------
(* Model-checking instances of Machine. *)
EXTENDS Machine, TLC

CONSTANTS p, q, i, j, main

\* A function p with a procedure q inside it that takes an argument, a builtin
\* function i and a builtin procedure j.
Nested == p :> main @@ q :> p @@ i :> main @@ j :> main
Levels == main :> 1 @@ p :> 2 @@ q :> 3 @@ i :> 2 @@ j :> 2
Arguments == p :> 0 @@ q :> 1 @@ i :> 1 @@ j :> 1
Frame == p :> 1 @@ q :> 2 @@ i :> 1 @@ j :> 1
=============================================================================
