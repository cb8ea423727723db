CONSTANTS
    moment = moment
    comment = comment
    NoItem = NoItem
    NoKey = NoKey
    Items <- MCItems
    Parent <- MCParent
    Moments <- MCMoments
    Keys = {k1, k2}
    Clients = {c1, c2}
    MaxRevision = 2
    MaxLock = 4
SPECIFICATION Spec
SYMMETRY Symmetry
INVARIANT NothingActiveBelowDeleted
CHECK_DEADLOCK FALSE
