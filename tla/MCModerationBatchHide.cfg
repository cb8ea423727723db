CONSTANTS
    moment = moment
    comment = comment
    NoItem = NoItem
    NoKey = NoKey
    Items <- MCItem
    Parent <- MCRoot
    Moments <- MCNone
    Keys = {k1}
    Clients = {c1}
    MaxRevision = 1
    MaxLock = 3
SPECIFICATION Spec
SYMMETRY Symmetry
INVARIANT BatchHideIsAccepted
CHECK_DEADLOCK FALSE
