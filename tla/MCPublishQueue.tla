--------------------------- MODULE MCPublishQueue ---------------------------
(* PublishQueue for model checking: record sizes by publisher. *)
EXTENDS PublishQueue, TLC

CONSTANTS p1, p2, p3

\* A small record, one that does not fit twice, and one larger than the bound.
MixedSize == p1 :> 1 @@ p2 :> 2 @@ p3 :> 4

=============================================================================
