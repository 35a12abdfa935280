\* Refreshes of two accounts, by a request, a poll, a health check and an export.
SPECIFICATION FairSpec
CONSTANTS
    ca = ca
    cb = cb
    t1 = t1
    t2 = t2
    t3 = t3
    t4 = t4
    NoTicket = NoTicket
    Connections <- TwoAccounts
    Tasks <- FourTasks
    Of <- OfTasks
    Kind <- KindOfTasks
    MaxToken <- TwiceAndNever
INVARIANTS
    TypeOK
    OneCall
    NoReuse
PROPERTIES
    LaneMoves
