\* One picture, one request, one fault: where the approved picture ends up.
CONSTANTS
    Pictures = {a}
    Requests = {q1}
    Recoverers = {w}
    MaxRevisions = 1
    MaxCommits = 1
    MaxFaults = 1
SPECIFICATION Spec
CHECK_DEADLOCK FALSE
INVARIANT
    ApprovedPicturesKept
