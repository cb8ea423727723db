\* One process, a channel and a batch of two views, one stop and no fault besides it.
CONSTANTS
    Views = {v1, v2}
    Trusted = {v1, v2}
    Servers = {s1}
    Admin = Admin
    NoServer = NoServer
    LastDay = 1
    Retention = 2
    ChannelBuffer = 2
    BatchSize = 2
    LastTable = 1
    MaxUpsets = 1
SPECIFICATION AnalyticsSpec
INVARIANT ViewsAccountedFor
CHECK_DEADLOCK FALSE
