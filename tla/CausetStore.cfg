\* One user entity and the transactions themselves; three transactions after
\* the bootstrap, of up to two terms while the log has room.
SPECIFICATION Spec
CONSTANTS
    name = name
    tag = tag
    inst = inst
    x = x
    y = y
    NoRow = NoRow
    Attrs = {name, tag, inst}
    One = {name, inst}
    Unique = {name}
    Refs = {}
    TxInstant = inst
    Values = {x, y}
    Instants = {x}
    User0 = 1
    Tx0 = 10
    MaxTerms = 2
    MaxNew = 1
    MaxUser = 1
    MaxTx = 4
    MaxLog = 6
INVARIANTS ViewMatchesLog CardinalityOne NoOpaqueFailure TxIdsFresh LogAlternates
PROPERTIES HistoryImmutable ImplementsHistory
