SPECIFICATION FairSpec
CONSTANTS
    c1 = c1
    c2 = c2
    Cmds = {c1, c2}
    Kind <- TaskAndTrigger
    RetryLimit = 2
INVARIANTS SendsBounded 
 
CHECK_DEADLOCK FALSE
