SPECIFICATION Spec
CONSTANTS
    t1 = t1
    t2 = t2
    p1 = p1
    b1 = b1
    c1 = "c1"
    c2 = "c2"
    TaskPlan <- TwoTasks
    BrokerPlan <- NoBroker
INVARIANT SuccessMeansAllDelivered
CHECK_DEADLOCK FALSE
