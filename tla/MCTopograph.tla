------------------------------ MODULE MCTopograph ------------------------------
(***************************************************************************)
(* Topograph for TLC: solitonids, holders of values and values are         *)
(* interchangeable.                                                        *)
(***************************************************************************)
EXTENDS Topograph, TLC

Symmetry == Permutations(Keywords) \cup Permutations(Holders) \cup Permutations(Vals)

===============================================================================
