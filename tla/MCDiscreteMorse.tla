--------------------------- MODULE MCDiscreteMorse ---------------------------
(***************************************************************************)
(* DiscreteMorse for TLC: an attribute has a solitonid and a cardinality,  *)
(* x for one and y for many.                                               *)
(***************************************************************************)
EXTENDS DiscreteMorse

CONSTANTS card, x, y

ManyToOne == {<<card, y, x>>}
=============================================================================
