----------------------------- MODULE MCNclList -----------------------------
(* Model-checking instances of NclList. *)
EXTENDS NclList

CONSTANTS l1, l2, x1, x2, c1, c2, c3, c4

OneList == {l1}
TwoLists == {l1, l2}
TwoVars == {x1, x2}
ThreeCells == {c1, c2, c3}
FourCells == {c1, c2, c3, c4}
BothTypes == {"NCL_FIFO", "NCL_LIFO"}
FifoOnly == {"NCL_FIFO"}
Interchangeable == Permutations(List) \cup Permutations(Var) \cup Permutations(Cell)
=============================================================================
