---------------------------- MODULE MC_ZephyrPool ----------------------------
(* TLC instances of ZephyrPool.                                             *)
EXTENDS ZephyrPool, TLC

\* The calls whose handler may run twice without harm.
Idempotent == {"register", "error", "dereg"}
\* Every call but report_result, which counts a shard again each time.
ButResults == (Calls \ {"report"}) \cup {"pipeline"}

SlotSymmetry == Permutations(Slots)
=============================================================================
