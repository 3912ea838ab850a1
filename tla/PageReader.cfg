\* Both files added, or rebuilt, or one of each, at any time.
CONSTANTS
    None = None
    scan = scan
    mixed = mixed
    Files <- MCFiles
    Pages <- MCPages
    Uncertain <- MCUncertain
    Scanned <- MCScanned
SPECIFICATION FairSpec
INVARIANTS AloneReadsItsFile NothingStaysOpen
PROPERTIES PassesEnd
CHECK_DEADLOCK FALSE
