--------------------------- MODULE MCParameterSchemas ---------------------------
(* Destinations are named after what they cache. *)
EXTENDS ParameterSchemas, TLC

MCDests == Contents \cup {Tag}

Symmetries == Permutations(Writers) \cup Permutations(Temps) \cup Permutations(Contents)
================================================================================
