\* The same two files: a page recognised in one file kept for another.
CONSTANTS
    None = None
    scan = scan
    mixed = mixed
    Files <- MCFiles
    Pages <- MCPages
    Uncertain <- MCUncertain
    Scanned <- MCScanned
SPECIFICATION Spec
INVARIANTS PagesAreOfTheirFile
CHECK_DEADLOCK FALSE
