\* A retraction of a value that is not there.
SPECIFICATION Spec
CONSTANTS
    name = name
    tag = tag
    inst = inst
    x = x
    y = y
    NoRow = NoRow
    Attrs = {name, tag, inst}
    One = {name, inst}
    Unique = {name}
    Refs = {}
    TxInstant = inst
    Values = {x, y}
    Instants = {x}
    User0 = 1
    Tx0 = 10
    MaxTerms = 1
    MaxNew = 1
    MaxUser = 1
    MaxTx = 3
    MaxLog = 8
INVARIANT RetractAbsentIsNoop
