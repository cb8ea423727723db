\* Pictures: two, two requests and one recovery worker, one fault of any kind.
\* Dispatch: a like and a reply, two users, two dispatchers, one fault.
CONSTANTS
    a = a
    b = b
    q1 = q1
    q2 = q2
    Pictures = {a, b}
    Requests = {q1, q2}
    Recoverers = {w}
    MaxRevisions = 2
    MaxCommits = 3
    MaxFaults = 1
    like = like
    reply = reply
    ann = ann
    ben = ben
    NoEvent = NoEvent
    SiteEvents = {like, reply}
    Users = {ann, ben}
    Recipients <- MCRecipients
    Explicit <- MCExplicit
    Actor <- MCActor
    EmailEligible = {reply}
    InAppUsers = {ann}
    MailUsers = {ann, ben}
    Workers = {w1, w2}
    BatchSize = 2
    MaxDispatchFaults = 1
SPECIFICATION PublishingSpec
INVARIANTS
    AwaitingIsRecoverable
    PendingPicturesKept
    DoneMeansDelivered
PROPERTIES
    OnlyApprovedPicturesPublic
    NoticesNeverReturn
    RecoveredUnlessLost
    StoreIsCleaned
    EveryEventDispatched
CHECK_DEADLOCK FALSE
