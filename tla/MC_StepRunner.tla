--------------------------- MODULE MC_StepRunner ---------------------------
(* A TLC instance of StepRunner: a diamond and the four roles in it.        *)
EXTENDS StepRunner, TLC

CONSTANTS source, left, right, sink

Diamond == (source :> {} @@ left :> {source}) @@ (right :> {source} @@ sink :> {left, right})
=============================================================================
