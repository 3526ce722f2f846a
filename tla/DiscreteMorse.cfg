\* Two transactions of up to two terms after the bootstrap, moved in ranges,
\* and their ids used again.
SPECIFICATION Spec
CONSTANTS
    name = name
    card = card
    inst = inst
    x = x
    y = y
    NoRow = NoRow
    Attrs = {name, card, inst}
    One = {name, card, inst}
    Unique = {name}
    Refs = {}
    TxInstant = inst
    Topo = {name, card}
    Solitonid = name
    Lasting = {card}
    OneWay <- ManyToOne
    Values = {x, y}
    Instants = {x, y}
    Timelines = {1}
    User0 = 1
    Tx0 = 10
    MaxTerms = 2
    MaxUser = 1
    MaxTx = 3
    MaxRange = 3
    MaxLog = 6
INVARIANTS RewoundToLog  NoPhantomRetraction
CHECK_DEADLOCK FALSE
