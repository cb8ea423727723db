\* Tree: a moment and its comment, two requests, two revisions.
\* Login methods: two users, an identity on each of two platforms, two flows.
\* Sessions: two administrators, two requests.
\* Rate limit: two requests, two routes, three levels of bans.
\* Articles: two pictures, two requests.
CONSTANTS
    moment = moment
    comment = comment
    NoItem = NoItem
    NoKey = NoKey
    Items <- MCItems
    Parent <- MCParent
    Moments <- MCMoments
    Keys = {k1, k2}
    Clients = {c1, c2}
    MaxRevision = 2
    MaxLock = 4
    u1 = u1
    u2 = u2
    i1 = i1
    i2 = i2
    f1 = f1
    f2 = f2
    m1 = m1
    m2 = m2
    Users = {u1, u2}
    Identities = {i1, i2}
    SourceOf <- Platforms
    Anonymous = Anonymous
    Flows = {f1, f2}
    Members = {m1, m2}
    Admins = {m1, m2}
    Calls = {k3, k4}
    Visits = {q1, q2}
    Routes = {x1, x2}
    HardLimit = 1
    Window = 1
    BanDurations <- Ladder
    BanCountWindow = 3
    MaxFaults = 1
    p1 = p1
    p2 = p2
    Images = {p1, p2}
    e1 = e1
    e2 = e2
    Editors = {e1, e2}
SPECIFICATION AccessSpec
SYMMETRY Alike
INVARIANT PlansAreCurrent
INVARIANT RowsFollowLifecycle
INVARIANT LoginMethodsSound
INVARIANT SessionsSound
INVARIANT OneLevelPerExcess
INVARIANT PicturesKept
CHECK_DEADLOCK FALSE
