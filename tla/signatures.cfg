SPECIFICATION Spec
CONSTANTS
    g1 = g1
    g2 = g2
    g3 = g3
    g4 = g4
    g5 = g5
    f1 = f1
    k1 = k1
    c1 = c1
    c2 = c2
    c3 = c3
    none = none
    gone = gone
    None = none
    Gone = gone
    Ids = {g1, g2, g3, g4, g5}
    Initial <- MCInitial
    Attachments = {f1}
    Campaigns = {k1}
    Calls = {c1, c2, c3}
    Faults = {"abort", "attach"}
SYMMETRY Symmetry
INVARIANTS
    OneDefault
PROPERTIES
    RenameKeepsDefault
    DeletedStaysDeleted
CHECK_DEADLOCK FALSE
