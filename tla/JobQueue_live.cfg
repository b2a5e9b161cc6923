SPECIFICATION FairSpec
CONSTANTS
    r1 = r1
    r2 = r2
    Rfd = {r1}
    Main = Main
    BatchSize = 1
    Faults = {}
    ApiBranches = {r1}
    Pushes <- OneRfd
    Deletable = {r1}
    MaxCommit = 2
    MaxJob = 2
    MaxTask = 2
INVARIANT TypeOK
INVARIANT StartedJobHasTask
INVARIANT OldestFirst
PROPERTY QueueImplementsFairLifecycle
PROPERTY LatestEventuallyApplied
