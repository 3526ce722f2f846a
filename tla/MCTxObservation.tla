--------------------------- MODULE MCTxObservation ---------------------------
(***************************************************************************)
(* TxObservation for TLC: one observer of the attribute name, one of date. *)
(***************************************************************************)
EXTENDS TxObservation

CONSTANTS o1, o2, name, date

InterestOf == [o \in Observers |-> IF o = o1 THEN {name} ELSE {date}]
=============================================================================
