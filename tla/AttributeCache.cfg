\* An attribute of each of the four kinds, two entities and two values.
SPECIFICATION Spec
CONSTANTS
    Missing = Missing
    NoCache = NoCache
    Attrs = {a1}
    Entities = {e1, e2}
    Values = {v1, v2}
    MaxChange = 3
SYMMETRY Interchangeable
INVARIANTS CacheMatchesStore InProgressSeesRows NoUnreachable
CHECK_DEADLOCK FALSE
