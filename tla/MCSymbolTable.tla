--------------------------- MODULE MCSymbolTable ---------------------------
(* Model-checking instances of SymbolTable: all names share a chain. *)
EXTENDS SymbolTable, TLC

CONSTANTS a, b

OneChain == [n \in Name |-> 1]
Interchangeable == Permutations(Name)
=============================================================================
