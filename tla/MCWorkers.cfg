\* Rule sets: two hashes, two candidates after the first set, one import, one fault.
\* Digest: two review tasks, two loops, one fault.
CONSTANTS
    h1 = h1
    h2 = h2
    t1 = t1
    t2 = t2
    l1 = l1
    l2 = l2
    Hashes = {h1, h2}
    FirstHash = h1
    MaxRulesets = 3
    MaxImports = 1
    MaxRuleFaults = 1
    ReviewTasks = {t1, t2}
    Loops = {l1, l2}
    MaxDigestFaults = 1
SPECIFICATION WorkersSpec
INVARIANTS
    SnapshotIsItsVersion
    DigestSound
PROPERTIES
    PublicationIsItsChange
    CandidatesAreBuilt
    EveryTaskReported
CHECK_DEADLOCK FALSE
