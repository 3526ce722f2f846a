\* Up to three assertions and retractions of two tempids and two entities that
\* can conflict, and up to four assertions of three tempids.
SPECIFICATION Spec
CONSTANTS
    TempIds = {101, 102, 103}
    Entities = {1, 2}
    Values = {x}
    Attrs = {id, ref}
    Idcauset = {id, ref}
    Refs = {ref}
    Ops = {"Add", "Retract"}
    First = 10
    MaxTerms = 3
    FewTemps = {101, 102}
    MaxAdds = 4
    Inputs <- Transactions
    MaxStore = 2
INVARIANTS TypeOK Labelling NoUnreachable TermsKept
PROPERTY Terminates
CHECK_DEADLOCK FALSE
