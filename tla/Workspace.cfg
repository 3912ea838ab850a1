CONSTANTS
    Page = {p1, p2, p3}
    Filled = {"originals"}
    None = None
SPECIFICATION Spec
INVARIANTS WipeIsComplete
PROPERTIES IsOwned WipeEnds
CHECK_DEADLOCK FALSE
