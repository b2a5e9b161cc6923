SPECIFICATION FairSpec
CONSTANTS
    r1 = r1
    r2 = r2
    Rfd = {r1}
    Main = Main
    BatchSize = 1
    Faults = {"github"}
    ApiBranches = {r1}
    Pushes <- OneRfd
    Deletable = {}
    MaxCommit = 1
    MaxJob = 2
    MaxTask = 2
PROPERTY LatestEventuallyApplied
