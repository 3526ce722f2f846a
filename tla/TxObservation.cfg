\* Two observers, two transactions in one or two commits, registrations at
\* any time.
SPECIFICATION Spec
CONSTANTS
    o1 = o1
    o2 = o2
    name = name
    date = date
    Observers = {o1, o2}
    Attributes = {name, date}
    Interest <- InterestOf
    MaxTx = 2
    MaxArc = 3
    MaxTxes = 2
INVARIANTS OnlyWitnesses ReportsExact
PROPERTIES EventuallyTold ThreadEnds
CHECK_DEADLOCK FALSE
