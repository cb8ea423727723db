\* Governance: two requests, two administrators, three points of time.
\* Migrations: four versions, two deployments of different images.
\* Analytics: two processes, two views (one of a bot), three days.
\* Avatars: two users who share an avatar, two requests and the normalisation.
\* Old content: two moments and a comment, one user, two entries per batch.
CONSTANTS
    c1 = c1
    c2 = c2
    o1 = o1
    o2 = o2
    d1 = d1
    d2 = d2
    s1 = s1
    s2 = s2
    v1 = v1
    v2 = v2
    Callers = {c1, c2}
    Operators = {o1, o2}
    TrustPolicy <- LaxPolicy
    Promotion <- Ladder
    Weight <- Weights
    ScoreThreshold = 2
    Duration = 2
    Decay = 1
    MaxTime = 2
    MaxActs = 2
    LastVersion = 4
    Baseline = 2
    Deployments = {d1, d2}
    Setup = Setup
    CatalogOf <- Catalogs
    Nobody = Nobody
    Views = {v1, v2}
    Trusted = {v1}
    Servers = {s1, s2}
    Admin = Admin
    NoServer = NoServer
    LastDay = 3
    Retention = 2
    ChannelBuffer = 1
    BatchSize = 2
    LastTable = 2
    MaxUpsets = 1
    u1 = u1
    u2 = u2
    Users = {u1, u2}
    k1 = k1
    k2 = k2
    k3 = k3
    Keys = {k1, k2, k3}
    NoKey = NoKey
    NoUser = NoUser
    a1 = a1
    a2 = a2
    Changers = {a1, a2}
    Chosen = {k3}
    NewKey <- Recompressed
    Shown <- FirstAvatar
    Stored <- FirstObjects
    LegacyRows <- OldRows
    LegacyUsers <- OldUsers
    MigrationBatch = 2
SYMMETRY Alike
SPECIFICATION ServicesSpec
INVARIANTS
    GovernanceSound
    ServedSchemaIsComplete
    AnalyticsSound
    AvatarsSound
    LegacyComplete
PROPERTIES
    LockedTrustKept
CHECK_DEADLOCK FALSE
