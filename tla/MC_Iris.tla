------------------------------ MODULE MC_Iris ------------------------------
(* TLC instances of IrisController.                                        *)
EXTENDS IrisController, TLC

OneSlice == [w \in Workers |-> "slice"]
OwnSlice == [w \in Workers |-> ToString(w)]

WorkerSymmetry == Permutations(Workers)
Symmetry == Permutations(Workers) \cup Permutations(Tasks)
=============================================================================
