\* A usage poll asks for a refresh from within the lane.
SPECIFICATION FairSpec
CONSTANTS
    ca = ca
    cb = cb
    t1 = t1
    t2 = t2
    t3 = t3
    t4 = t4
    NoTicket = NoTicket
    Connections <- TwoAccounts
    Tasks <- ThreeTasks
    Of <- OfTasks
    Kind <- KindOfTasks
    MaxToken <- Twice
PROPERTIES
    QueueFlows
