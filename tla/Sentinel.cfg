\* One transaction and two downstreams, one of which asks with a stale
\* region version: four timestamps leave room for two to resolve.
SPECIFICATION Spec
CONSTANTS
    Txns = {t1}
    Downstreams = {d1, d2}
    Silent = {}
    Stale = {d2}
    MaxTs = 4
    MaxFails = 1
INVARIANTS ResolvedComplete CommitsMatched LocksExact MissOnlyIfRefused
CHECK_DEADLOCK FALSE
