SPECIFICATION FairSpec
CONSTANTS
    Main = Main
    Own = Own
    Copies = {1, 2}
    Actions <- ConfiguredOrder
    Mode = "write"
    Docs <- DraftAndDiscussion
    Known = TRUE
    Faulty = {}
    UserPulls = FALSE
    Visibilities = {}
    MaxPush = 3
    MaxPull = 0
    MaxRunning = 2
INVARIANT NoEditIsLost
INVARIANT RevisionIsInRepository
PROPERTY CurrentDocumentIsStored
 
CHECK_DEADLOCK FALSE
