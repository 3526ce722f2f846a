--------------------------- MODULE MCUpsertResolution ---------------------------
(***************************************************************************)
(* UpsertResolution for TLC: the transactions it starts from.              *)
(***************************************************************************)
EXTENDS UpsertResolution

CONSTANTS
    MaxTerms,   \* bound: terms of a transaction of any kind
    FewTemps,   \* the tempids such a transaction has
    MaxAdds     \* bound: terms of a transaction of assertions

\* Assertions and retractions of few tempids.
AnyTerms == UpTo(MaxTerms, { t \in Term : Temps(t) \subseteq FewTemps })

\* Longer transactions, of assertions on tempids and the first entity.
Chains == UpTo(MaxAdds, { t \in Term : /\ t.op = "Add" /\ Temps(t) # {}
                                       /\ {t.e, t.v} \cap Entities \subseteq {1} })

Transactions == AnyTerms \cup Chains

=================================================================================
