----------------------------- MODULE MC_Finelog -----------------------------
(***************************************************************************)
(* Instances of the Finelog namespace: the byte targets of the levels and  *)
(* the calls that may fail.                                                *)
(***************************************************************************)
EXTENDS FinelogStore

\* Two levels above L0; with Wide the run length promotes before the bytes do.
Targets == <<2, 4>>
Wide == <<3, 4>>

NoFaults == {}
AllFaults == FaultKinds
OffloadFaults == {"write", "upload", "delete"}
=============================================================================
