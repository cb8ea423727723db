CONSTANTS
    moment = moment
    comment = comment
    NoItem = NoItem
    NoKey = NoKey
    Items <- MCItem
    Parent <- MCRoot
    Moments <- MCNone
    Keys = {k1, k2, k3}
    Clients = {c1, c2}
    MaxRevision = 3
    MaxLock = 5
SPECIFICATION Spec
SYMMETRY Symmetry
INVARIANT TypeOK
INVARIANT StateMatrix
INVARIANT PointersMatchRevisions
INVARIANT OnlyReleasedContentShown
INVARIANT OneOutcomePerKey
INVARIANT ViolationsScoredOnce
INVARIANT AnnouncedWithFirstApproval
PROPERTY DecisionsAreFinal
PROPERTY ReaderView
CHECK_DEADLOCK FALSE
