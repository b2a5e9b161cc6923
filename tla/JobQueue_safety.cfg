SPECIFICATION Spec
CONSTANTS
    r1 = r1
    r2 = r2
    Rfd = {r1, r2}
    Main = Main
    BatchSize = 1
    Faults = {"db", "crash", "bare"}
    ApiBranches = {Main}
    Pushes <- BranchThenMerge
    Deletable = {}
    MaxCommit = 2
    MaxJob = 2
    MaxTask = 2
INVARIANT AcceptedDeliveryIsQueued
INVARIANT WorkIsNotOfferedAgain
PROPERTY QueueImplementsLifecycle
