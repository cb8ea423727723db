CONSTANTS
    ann = ann
    ben = ben
    t1 = t1
    t2 = t2
    t3 = t3
    Tasks = {t1}
    Users = {ann}
    Site = Site
    Recipient <- MCOneTask
    Planners = {p1}
    Senders = {s1, s2}
    BatchSize = 1
    MaxItems = 1
    Layers <- MCPlanning
    Day = 2
    RetryDelay = 1
    MaxBatches = 1
    MaxTime = 0
    MaxFailures = 1
    MaxAborts = 1
SPECIFICATION FairSpec
PROPERTY AbandonedIsTakenOver
CHECK_DEADLOCK FALSE
