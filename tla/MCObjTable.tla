----------------------------- MODULE MCObjTable -----------------------------
(* Model-checking instances of ObjTable. *)
EXTENDS ObjTable, TLC

CONSTANTS o1, o2, o3

ThreeObjects == {o1, o2, o3}
Interchangeable == Permutations(Obj)
=============================================================================
