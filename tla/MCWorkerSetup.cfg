SPECIFICATION FairSpec
CONSTANTS
    t1 = t1
    t2 = t2
    p1 = p1
    b1 = b1
    c1 = "c1"
    c2 = "c2"
    TaskPlan <- WithPubSub
    BrokerPlan <- OneBroker
INVARIANTS  LostOnlyIfLate
PROPERTY SetupEnds
CHECK_DEADLOCK FALSE
