--------------------------- MODULE MCAttributeCache ---------------------------
(* The attribute cache for TLC: entities and values are interchangeable. *)
EXTENDS AttributeCache, TLC

Interchangeable == Permutations(Entities) \cup Permutations(Values)

=============================================================================
