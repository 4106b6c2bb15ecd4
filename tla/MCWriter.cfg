SPECIFICATION FairSpec
CONSTANTS
    m1 = m1
    m2 = m2
    Push = Push
    Msg = {m1, m2}
    MaxQueueSize = 1
    maxMessagesInFrame = 2
    writeDelay = TRUE
INVARIANTS SentInOrder FlushLosesNothing
PROPERTIES CloseCompletes AcceptedIsSent
CHECK_DEADLOCK FALSE
