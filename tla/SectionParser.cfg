\* Outlines of up to five headings on levels 0 to 3, articles and books.
CONSTANTS
    MaxHeadings = 5
    MaxLevel = 3
    rfd_number = 12
    Document <- MCDocument
    Id <- MCId
    Block <- MCBlock
    Word <- MCWord

SPECIFICATION Spec

INVARIANTS
    TypeOK
    SectionsInDocumentOrder
    ParentsAreEnclosing
    TextIsIndexedOnce
    DocumentsAreDistinct
    TitleIsRest
    LevelsAreOfHeadings

\* A document that was indexed or refused is done.
CHECK_DEADLOCK FALSE
