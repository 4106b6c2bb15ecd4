SPECIFICATION FairSpec
CONSTANTS
    c1 = c1
    c2 = c2
    b1 = b1
    s1 = s1
    Clients = {c1, c2}
    Bases = {b1}
    Subs = {s1}
    Grants <- SharedGrants
    MaxPath = 2
    MaxOps <- FirstOnce
    MaxErrs = 1
INVARIANTS
    GhostOnlyIfRaced
PROPERTIES
    KeepsRegistry
    ClosedLeaves
CHECK_DEADLOCK FALSE
