SPECIFICATION FairSpec
CONSTANTS
    Main = Main
    Own = Own
    Copies = {1}
    Actions <- ConfiguredOrder
    Mode = "write"
    Docs <- DraftAndDiscussion
    Known = FALSE
    Faulty = {2}
    UserPulls = TRUE
    Visibilities = {"public"}
    MaxPush = 3
    MaxPull = 1
    MaxRunning = 1
INVARIANT TypeOK
INVARIANT RevisionIsInRepository
INVARIANT RevisionsShareRfd
PROPERTY CurrentDocumentIsStored
CHECK_DEADLOCK FALSE
