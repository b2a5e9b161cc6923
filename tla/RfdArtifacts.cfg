\* Two runs that overlap or not, over three revisions.
CONSTANTS
    short = short
    long = long
    broken = broken
    NoRun = NoRun
    Run = {r1, r2}
    Revision = {short, long, broken}
    SectionId = {"a", "b", "c"}
    sections <- MCSections
    parses <- MCParses
    rendered = {short, long}
    Limit = 2
    MaxChange = 1

SPECIFICATION Spec

SYMMETRY Symmetry

INVARIANTS
    TypeOK
    LastAddIsServed
    DocumentsCanBeFound
    IndexIsExact
    OnePdfFile
    PdfIsCurrent

\* Nothing is left to do when all runs have ended.
CHECK_DEADLOCK FALSE
