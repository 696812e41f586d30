---------------------------- MODULE MC_StepLock ----------------------------
(* TLC instances of StepLock.                                               *)
EXTENDS StepLock, TLC

WorkerSymmetry == Permutations(Workers)
=============================================================================
