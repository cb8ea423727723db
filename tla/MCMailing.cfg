CONSTANTS
    ann = ann
    ben = ben
    t1 = t1
    t2 = t2
    t3 = t3
    p1 = p1
    p2 = p2
    s1 = s1
    s2 = s2
    Tasks = {t1, t2, t3}
    Users = {ann, ben}
    Site = Site
    Recipient <- MCAnnTwiceBenOnce
    Planners = {p1, p2}
    Senders = {s1, s2}
    BatchSize = 3
    MaxItems = 1
    Layers <- MCSending
    Day = 3
    RetryDelay = 1
    MaxBatches = 2
    MaxTime = 0
    MaxFailures = 1
    MaxAborts = 1
SPECIFICATION MailingSpec
INVARIANT OneBatchPerTask
INVARIANT SentIsDelivered
INVARIANT QuotaHolds
PROPERTY OneMailPerNotice
PROPERTY EveryTaskPlanned
PROPERTY EveryBatchSent
CHECK_DEADLOCK FALSE
