--------------------------- MODULE MCOwnedContainers ---------------------------
(* Two trials of one run, and one of another with the index of the first. *)
EXTENDS OwnedContainers

CONSTANTS r1, r2

MCTrials == {<<r1, 1>>, <<r1, 2>>, <<r2, 1>>}
================================================================================
